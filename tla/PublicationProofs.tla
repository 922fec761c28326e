------------------------- MODULE PublicationProofs -------------------------
(***************************************************************************)
(* The safety of a class's publication, for every number of processes,     *)
(* transactions, deaths, power failures and changes by the user.           *)
(*                                                                         *)
(* The inductive invariant says what the holder of registry.lock may rely  *)
(* on at each of its steps (CallInv, StagingInv, FinishingInv), what every *)
(* intent still known says of the history (EntryInv, SoundInv), and what   *)
(* the link directory holds in all that a power failure may leave behind   *)
(* (TakenBackInv, SyncedInv, PendingInv, SettledInv).                      *)
(***************************************************************************)
EXTENDS Publication, TLAPS

\* Steps at which a call does not hold the lock; of the recovery, of finish, of a
\* transaction before and after its intent is written, of the older operations.
Outside == {"idle", "copy", "reacquire"}
Making == {"copy", "reacquire"}
Restoring == {"restore", "restore_swap", "restore_sync"}
Finishing == {"save", "result", "clear_temp", "clear_pending"}
Saved == {"result", "clear_temp", "clear_pending"}
Planned == {"copy", "reacquire", "archive", "intent"}
Acting == {"create", "check", "stage", "swap", "verify", "undo", "sync"}
Unlinking == {"unlink_check", "unlink", "mark_removed"}
Unsynced == {"verify", "undo", "sync", "restore_sync"}
Plain == Unlinking \cup {"register", "bundle", "install", "register_commit"}

\* The operations that first ask for leases.
Guarded == {"publish", "managed", "rollback", "unpublish"}

\* What the user may put at the public name.
OfUser == {None, Foreign, Alien}

\* The link is the given one, unless the user changed it.
Agree(t) == link = t \/ (Meddled /\ link \in OfUser)

\* A revision was activated if it is one of a transaction.
Proven(r) == r \in Transactions => r \in activated

\* An entry is absent, of register, or of a managed revision that was activated.
Known(e) ==
    /\ e = Absent \/ (e.state # "absent" /\ e.rev \in Revisions)
    /\ e.managed => e.state \in {"published", "removed"}
    /\ ~e.managed /\ e # Absent => e.rev = Legacy
    /\ Proven(e.rev)

\* What an intent says of its transaction.
Sound(i) ==
    /\ Known(i.entry)
    /\ i.target = TargetOf(i.entry)
    /\ i.candidate # i.id => Proven(i.candidate) /\ i.id \notin retained
    /\ i.candidate = None => i.entry.managed /\ i.target # None
    /\ i.id < next

\* The parts of TypeOK.
Budgets ==
    [crash : 0 .. MaxCrashes, power : 0 .. MaxPowerFailures, meddle : 0 .. MaxMeddling,
     damage : 0 .. MaxDamage, sibling : 0 .. MaxSibling]
ProcessTyped == lock \in Process \cup {None} /\ pc \in [Process -> Labels]
CallsTyped == mem \in [Process -> Calls]
RegistryTyped == registry \in Registries
FilesTyped ==
    /\ pending \in Intents \cup {None}
    /\ archived \subseteq Transactions
    /\ results \in [Transactions -> Outcomes]
    /\ recoveries \in [Transactions -> Outcomes]
HistoryTyped ==
    /\ retained \subseteq Revisions
    /\ lineage \in [Revisions -> SUBSET Revisions]
    /\ damaged \subseteq retained
DirectoryTyped ==
    /\ link \in Links /\ temp \in Links
    /\ survivable \subseteq [link : Links, temp : Links]
HostTyped == resolved \in Entries /\ leased \in BOOLEAN
BoundsTyped ==
    /\ activated \subseteq Transactions /\ undone \in BOOLEAN
    /\ next \in 1 .. MaxTransactions + 1
    /\ budget \in Budgets

SiblingInv == registry.sibling + budget.sibling <= MaxSibling

\* Who holds the lock, and what its copy of the registry is.
LockInv == \A p \in Process : lock = p <=> pc[p] \notin Outside
CopyInv == \A p \in Process : lock = p => mem[p].db = registry

\* The operation and the intent of a call at each of its steps.
CallInv ==
    \A p \in Process :
        /\ pc[p] \in Restoring \cup Finishing \cup Planned \cup Acting => mem[p].intent # None
        /\ pc[p] \in Restoring \cup Finishing \cup Acting => pending = mem[p].intent
        /\ pc[p] \in {"plan", "archive", "intent"} => pending = None
        /\ pc[p] \in Planned \cup Acting => mem[p].own /\ mem[p].op \in Guarded
        /\ pc[p] \in {"recover", "plan"} \cup Restoring \cup Plain => ~mem[p].own
        /\ pc[p] \in Making => mem[p].op = "managed"
        /\ pc[p] = "create" => mem[p].op = "publish"
        /\ pc[p] \in Unlinking => mem[p].op = "unpublish"

\* The plan of a call of its own.
PlanInv ==
    \A p \in Process :
        /\ mem[p].own => mem[p].intent # None
        /\ mem[p].own /\ mem[p].op \in {"publish", "managed"} =>
              mem[p].intent.candidate = mem[p].intent.id
        /\ mem[p].own /\ mem[p].op = "rollback" /\ mem[p].expected # None =>
              mem[p].intent.entry.rev = mem[p].expected
        /\ pc[p] \in Planned => mem[p].intent.entry = mem[p].db.entry
        /\ pc[p] = "intent" => mem[p].intent.id \in archived

\* The outcome of a call that finishes, and the entry an older operation changes.
OutcomeInv ==
    \A p \in Process :
        /\ pc[p] \in Finishing => mem[p].outcome \in {"committed", "aborted"}
        /\ pc[p] \in Restoring => mem[p].outcome = "aborted"
        /\ pc[p] \in Plain => ~registry.entry.managed
        /\ pc[p] \in Unlinking => registry.entry # Absent

\* The entry a call has saved.
SavedInv ==
    \A p \in Process :
        pc[p] \in Saved => registry.entry = Finished(mem[p].intent, mem[p].outcome)

\* The registry entry, its copies and the ancestors of a revision are what they seem.
EntryInv == Known(registry.entry)
CopiesInv == \A p \in Process : Known(mem[p].db.entry)
LineageInv == \A r \in Revisions : \A a \in lineage[r] : Proven(a)

\* Every intent is sound, its identity is its own, and an identity not yet given out is free.
SoundInv ==
    /\ pending # None => Sound(pending)
    /\ \A p \in Process : mem[p].intent # None => Sound(mem[p].intent)
UniqueInv ==
    \A p \in Process : mem[p].intent # None =>
        /\ pending # None /\ pending.id = mem[p].intent.id => pending = mem[p].intent
        /\ \A q \in Process : mem[q].intent # None /\ mem[q].intent.id = mem[p].intent.id =>
              mem[q].intent = mem[p].intent
FreshInv == \A t \in Transactions : t >= next => t \notin retained /\ results[t] = "none"

\* The intent of a call that copies is nobody else's; no result is written before the
\* candidate is made.
PrivateInv ==
    \A p \in Process :
        /\ pc[p] \in Making =>
              /\ pending # mem[p].intent
              /\ \A q \in Process \ {p} : mem[q].intent # mem[p].intent
        /\ pc[p] \in Planned \cup {"create"} => results[mem[p].intent.id] = "none"

\* What is decided as committed was activated.
ActiveInv ==
    /\ CommittedWasActivated
    /\ \A p \in Process :
        /\ pc[p] \in {"verify", "undo", "sync"} => mem[p].intent.id \in activated
        /\ pc[p] \in Finishing /\ mem[p].outcome = "committed" =>
              Proven(mem[p].intent.candidate)

\* A process that may move the link has asked for leases under its lock.
LeaseInv ==
    \A p \in Process :
        /\ lock = p /\ mem[p].op \in Guarded => ~leased
        /\ pc[p] \in Restoring => ~leased

\* What is visible may be left by a power failure; a link in what it may leave is complete
\* and was activated; what it may take back when no temporary name is left, or no intent,
\* is a first publication.
VisibleInv == [link |-> link, temp |-> temp] \in survivable
CompleteInv ==
    \A d \in survivable :
        /\ d.link \in Transactions => d.link \in retained /\ d.link \in activated
        /\ d.temp \in Transactions => d.temp \in retained
TakenBackInv ==
    temp = None \/ pending = None =>
        \A d \in survivable : d.link \in {link, None} /\ d.temp \notin {Foreign, Alien}

\* The link and the temporary name while a transaction is prepared, after its exchange,
\* while a recovery restores the prior, and while a call finishes.
StagingInv ==
    \A p \in Process :
        /\ pc[p] \in {"archive", "intent", "create", "check", "stage", "swap"} =>
              link = mem[p].intent.target \/ (Meddled /\ link \in OfUser)
        /\ pc[p] \in {"create", "check", "stage"} => \A d \in survivable : d.temp = None
        /\ pc[p] = "swap" => \A d \in survivable : d.temp = mem[p].intent.candidate
        /\ pc[p] = "swap" /\ mem[p].intent.candidate # None =>
              \A d \in survivable : d.link = link
        /\ pc[p] \in {"stage", "swap"} /\ mem[p].intent.candidate \in Transactions =>
              mem[p].intent.candidate \in retained
        /\ pc[p] = "stage" => mem[p].intent.candidate # None
ExchangedInv ==
    \A p \in Process :
        /\ pc[p] \in {"verify", "sync"} => Agree(mem[p].intent.candidate)
        /\ pc[p] = "verify" => temp = mem[p].intent.target \/ Meddled
        /\ pc[p] = "undo" => Meddled
        /\ pc[p] \in {"verify", "undo"} => Proven(temp)
RestoringInv ==
    \A p \in Process :
        /\ pc[p] \in {"restore", "restore_swap"} => link = mem[p].intent.candidate \/ Meddled
        /\ pc[p] = "restore" /\ mem[p].intent.target \in Transactions =>
              mem[p].intent.target \in retained
        /\ pc[p] = "restore_swap" => temp = mem[p].intent.target
        /\ pc[p] = "restore_sync" => Agree(mem[p].intent.target)
FinishingInv ==
    \A p \in Process :
        /\ pc[p] \in Finishing /\ mem[p].outcome = "aborted" => Agree(mem[p].intent.target)
        /\ pc[p] \in Finishing /\ mem[p].outcome = "committed" => Agree(mem[p].intent.candidate)
        /\ pc[p] = "clear_pending" => temp = None
        /\ pc[p] = "install" => link \in OfUser

\* A pending intent was archived; over a managed prior the directory is the transaction's.
PendingInv ==
    pending # None =>
        /\ pending.id \in archived
        /\ pending.entry.managed => registry.entry.managed
        /\ pending.entry.managed /\ ~Meddled =>
              /\ \A d \in survivable : d.temp \in {None, pending.target, pending.candidate}
              /\ ~undone => link \in {pending.target, pending.candidate}

SettledInv ==
    pending = None /\ ~undone =>
        /\ temp = None
        /\ registry.entry.managed => Agree(TargetOf(registry.entry))

\* Until a process dies, what is visible is what is on disk, but for a call between its
\* exchange and its sync and one that met an entry of the user; what a power failure may
\* take back then is what the pending intent says.
SyncedInv ==
    /\ undone => Died \/ Meddled
    /\ \A p \in Process :
          /\ pc[p] = "verify" => temp \in {mem[p].intent.target, Foreign, Alien}
          /\ pc[p] = "undo" => temp = Foreign
    /\ ~Died =>
          \/ survivable = {[link |-> link, temp |-> temp]}
          \/ /\ pending # None
             /\ temp \in {Foreign, Alien} \/ \E p \in Process : pc[p] \in Unsynced
             /\ Meddled \/ \A d \in survivable : d.link \in {pending.target, pending.candidate}

IInv ==
    /\ TypeOK /\ SiblingInv /\ LockInv /\ CopyInv /\ CallInv /\ PlanInv /\ OutcomeInv
    /\ SavedInv /\ EntryInv /\ CopiesInv /\ LineageInv /\ SoundInv /\ UniqueInv
    /\ FreshInv /\ PrivateInv /\ ActiveInv /\ LeaseInv
    /\ VisibleInv /\ CompleteInv /\ TakenBackInv /\ StagingInv /\ ExchangedInv
    /\ RestoringInv /\ FinishingInv /\ PendingInv /\ SettledInv /\ SyncedInv

-----------------------------------------------------------------------------
(* The steps, by what they belong to                                       *)

Recovers(p) ==
    \/ RecoverNothing(p) \/ RecoverAbort(p) \/ RecoverCommit(p) \/ RecoverRestore(p)
    \/ RecoverRefuse(p)

Restores(p) == RestoreStage(p) \/ RestoreSwap(p) \/ RestoreSync(p)

Finishes(p) ==
    FinishSave(p) \/ FinishResult(p) \/ FinishClearTemp(p) \/ FinishClearPending(p)

Plans(p) ==
    \/ PlanPublish(p) \/ PlanManaged(p) \/ PlanRollback(p) \/ PlanUnpublish(p)
    \/ PlanReconcile(p) \/ PlanRefused(p)

Prepares(p) ==
    \/ CopyCandidate(p) \/ Reacquire(p) \/ ReacquireBusy(p) \/ ArchiveIntent(p)
    \/ WriteIntent(p) \/ CreateCandidate(p)

Activates(p) ==
    \/ ActivateCheck(p) \/ ActivateStage(p) \/ ActivateSwap(p) \/ ActivateVerify(p)
    \/ ActivateUndo(p) \/ ActivateSync(p)

Registers(p) ==
    RegisterSave(p) \/ RegisterCheck(p) \/ RegisterInstall(p) \/ RegisterCommit(p)

Unlinks(p) == UnlinkCheck(p) \/ Unlink(p) \/ MarkRemoved(p)

Interrupts(p) == RecordMissing(p) \/ Crash(p)

\* Every step belongs to one of the groups.
LEMMA StepKinds ==
    ASSUME Next
    PROVE  \/ \E p \in Process :
                \/ Begin(p) \/ Recovers(p) \/ Restores(p) \/ Finishes(p) \/ Plans(p)
                \/ Prepares(p) \/ Activates(p) \/ Registers(p) \/ Unlinks(p) \/ Interrupts(p)
           \/ Environment
  BY DEF Next, Continue, Recovers, Restores, Finishes, Plans, Prepares, Activates, Registers,
         Unlinks, Interrupts

\* A call's copy of the registry stays, is forgotten or is made anew.
CopiesFollow ==
    \A q \in Process : mem'[q].db.entry \in {mem[q].db.entry, Absent, registry'.entry}

\* Revisions, activations and identities are not taken back.
HistoryGrows == activated \subseteq activated' /\ retained \subseteq retained' /\ next <= next'

\* An intent is new with a fresh identity, or it was known to a call or to the disk.
Fresh(q) ==
    /\ mem'[q].intent # None /\ mem'[q].intent.id = next /\ next' = next + 1
    /\ mem'[q].intent.entry = registry.entry
    /\ mem'[q].intent.target = TargetOf(registry.entry)
    /\ mem'[q].intent.candidate = next \/ Proven(mem'[q].intent.candidate)
    /\ mem'[q].intent.candidate = None =>
          registry.entry.managed /\ registry.entry.state = "published"
    /\ pending' = pending
    /\ \A r \in Process \ {q} : mem'[r] = mem[r]
IntentsFollow ==
    /\ pending' \in {pending, None} \cup {mem[q].intent : q \in Process}
    /\ \A q \in Process : mem'[q].intent \in {mem[q].intent, None, pending} \/ Fresh(q)

\* A revision is new: the bundle of register, or the candidate of a transaction.
RevisionsFollow ==
    \A r \in retained' \ retained : \/ r = Legacy
                                   \/ \E q \in Process : /\ mem[q].intent # None
                                                         /\ mem[q].intent.id = r
                                                         /\ mem[q].intent.candidate = r

\* What the user changed stays counted, and so does the death of a process.
MeddlingGrows == (Meddled => Meddled') /\ (Died => Died')

\* What the user put there stays at the link or at the temporary name.
UserKept == \A f \in {Foreign, Alien} : f \in {link, temp} => f \in {link', temp'}

\* The link stays while a host is running.
LinkStays == leased /\ leased' /\ link \in Revisions => link' = link

SiblingGrows == registry'.sibling >= registry.sibling

\* The names a link may hold are told apart.
LEMMA Names ==
    /\ Transactions \subseteq Nat \ {0} /\ Revisions = {0} \cup Transactions
    /\ None \notin Process \cup Revisions
    /\ Foreign \notin Revisions \cup {None, Alien}
    /\ Alien \notin Revisions \cup {None, Foreign}
  BY PublicationConstants DEF Transactions, Revisions, Legacy

\* The local state of a process without a call.
LEMMA IdleIsTyped == Idle \in Calls
  BY PublicationConstants DEF Idle, Calls, Absent, Entries, Registries, Operations, Outcomes,
                              Revisions, Intents

\* What finish writes is an entry.
LEMMA FinishedIsTyped ==
    ASSUME NEW i \in Intents, NEW outcome PROVE Finished(i, outcome) \in Entries
  BY DEF Finished, Intents, Entries, Entry

\* What Plan records of its own.
LEMMA IntentIsTyped ==
    ASSUME NEW entry \in Entries, NEW c \in Revisions \cup {None}, next \in Transactions
    PROVE  NewIntent(entry, c) \in Intents
  BY DEF NewIntent, Intents, Entries, TargetOf

\* The entries the operations write.
LEMMA EntriesAreTyped ==
    /\ \A state \in {"absent", "pending", "published", "removed"}, managed \in BOOLEAN,
          r \in Revisions \cup {None} : Entry(state, r, managed) \in Entries
    /\ \A e \in Entries : [e EXCEPT !.state = "removed"] \in Entries
    /\ Absent \in Entries
  BY DEF Entry, Entries, Absent

\* The parts of a registry, and what a save makes of it.
LEMMA RegistryUpdated ==
    ASSUME NEW d \in Registries
    PROVE  /\ d.entry \in Entries /\ d.sibling \in 0 .. MaxSibling
           /\ \A e \in Entries : [d EXCEPT !.entry = e] \in Registries
           /\ [d EXCEPT !.entry.state = "removed"] \in Registries
  BY DEF Registries, Entries

\* The parts of a call's local state, and what an assignment makes of it.
LEMMA CallUpdated ==
    ASSUME NEW m \in Calls
    PROVE  /\ m.op \in Operations \cup {"none"} /\ m.expected \in Revisions \cup {None}
           /\ m.intent \in Intents \cup {None} /\ m.db \in Registries
           /\ m.outcome \in Outcomes /\ m.own \in BOOLEAN
           /\ \A i \in Intents \cup {None}, o \in Outcomes :
                 [m EXCEPT !.intent = i, !.outcome = o] \in Calls
           /\ \A i \in Intents \cup {None}, b \in BOOLEAN :
                 [m EXCEPT !.intent = i, !.own = b] \in Calls
           /\ \A o \in Outcomes : [m EXCEPT !.outcome = o] \in Calls
           /\ \A d \in Registries : [m EXCEPT !.db = d] \in Calls
  BY DEF Calls

\* The parts of an intent.
LEMMA IntentParts ==
    ASSUME NEW i \in Intents
    PROVE  /\ i.id \in Transactions /\ i.entry \in Entries
           /\ i.target \in Revisions \cup {None} /\ i.candidate \in Revisions \cup {None}
  BY DEF Intents

\* The assignments of Acquire, Decide, FinishSave, Plan, ActivateSync and SaveEntry.
LEMMA MemoryUpdated ==
    ASSUME NEW m \in [Process -> Calls], NEW p \in Process
    PROVE  /\ \A c \in Calls : [m EXCEPT ![p] = c] \in [Process -> Calls]
           /\ \A i \in Intents \cup {None}, o \in Outcomes :
                 [m EXCEPT ![p].intent = i, ![p].outcome = o] \in [Process -> Calls]
           /\ \A i \in Intents \cup {None}, b \in BOOLEAN :
                 [m EXCEPT ![p].intent = i, ![p].own = b] \in [Process -> Calls]
           /\ \A o \in Outcomes : [m EXCEPT ![p].outcome = o] \in [Process -> Calls]
           /\ \A d \in Registries : [m EXCEPT ![p].db = d] \in [Process -> Calls]
           /\ \A e \in Entries : [m EXCEPT ![p].db.entry = e] \in [Process -> Calls]
<1>1. m[p] \in Calls
  OBVIOUS
<1>2. ASSUME NEW c \in Calls PROVE [m EXCEPT ![p] = c] \in [Process -> Calls]
  OBVIOUS
<1>3. ASSUME NEW i \in Intents \cup {None}, NEW o \in Outcomes
      PROVE  [m EXCEPT ![p].intent = i, ![p].outcome = o] \in [Process -> Calls]
  <2>1. [m[p] EXCEPT !.intent = i, !.outcome = o] \in Calls
    BY <1>1, CallUpdated
  <2>2. [m EXCEPT ![p].intent = i, ![p].outcome = o]
          = [m EXCEPT ![p] = [m[p] EXCEPT !.intent = i, !.outcome = o]]
    OBVIOUS
  <2> QED
    BY <2>1, <2>2, <1>2
<1>4. ASSUME NEW i \in Intents \cup {None}, NEW b \in BOOLEAN
      PROVE  [m EXCEPT ![p].intent = i, ![p].own = b] \in [Process -> Calls]
  <2>1. [m[p] EXCEPT !.intent = i, !.own = b] \in Calls
    BY <1>1, CallUpdated
  <2>2. [m EXCEPT ![p].intent = i, ![p].own = b]
          = [m EXCEPT ![p] = [m[p] EXCEPT !.intent = i, !.own = b]]
    OBVIOUS
  <2> QED
    BY <2>1, <2>2, <1>2
<1>5. ASSUME NEW o \in Outcomes PROVE [m EXCEPT ![p].outcome = o] \in [Process -> Calls]
  BY <1>1, <1>2, CallUpdated
<1>6. ASSUME NEW d \in Registries PROVE [m EXCEPT ![p].db = d] \in [Process -> Calls]
  BY <1>1, <1>2, CallUpdated
<1>7. ASSUME NEW e \in Entries PROVE [m EXCEPT ![p].db.entry = e] \in [Process -> Calls]
  <2>1. [m[p].db EXCEPT !.entry = e] \in Registries
    BY <1>1, CallUpdated, RegistryUpdated
  <2>2. [m EXCEPT ![p].db.entry = e] = [m EXCEPT ![p].db = [m[p].db EXCEPT !.entry = e]]
    OBVIOUS
  <2> QED
    BY <2>1, <2>2, <1>6
<1> QED
  BY <1>2, <1>3, <1>4, <1>5, <1>6, <1>7

\* The local state of a call that has just taken the lock.
LEMMA AcquireIsTyped ==
    ASSUME NEW op \in Operations, NEW e \in Revisions \cup {None}, NEW d \in Registries
    PROVE  [Idle EXCEPT !.op = op, !.expected = e, !.db = d] \in Calls
  BY IdleIsTyped DEF Calls

\* An event takes one from its budget.
LEMMA BudgetSpent ==
    ASSUME NEW b \in Budgets
    PROVE  /\ b.crash > 0 => [b EXCEPT !.crash = @ - 1] \in Budgets
           /\ b.power > 0 => [b EXCEPT !.power = @ - 1] \in Budgets
           /\ b.meddle > 0 => [b EXCEPT !.meddle = @ - 1] \in Budgets
           /\ b.damage > 0 => [b EXCEPT !.damage = @ - 1] \in Budgets
           /\ b.sibling > 0 =>
                /\ [b EXCEPT !.sibling = @ - 1] \in Budgets
                /\ [b EXCEPT !.sibling = @ - 1].sibling = b.sibling - 1
<1> USE PublicationConstants
<1>1. b.crash > 0 => [b EXCEPT !.crash = @ - 1] \in Budgets
  BY DEF Budgets
<1>2. b.power > 0 => [b EXCEPT !.power = @ - 1] \in Budgets
  BY DEF Budgets
<1>3. b.meddle > 0 => [b EXCEPT !.meddle = @ - 1] \in Budgets
  BY DEF Budgets
<1>4. b.damage > 0 => [b EXCEPT !.damage = @ - 1] \in Budgets
  BY DEF Budgets
<1>5. b.sibling > 0 =>
        /\ [b EXCEPT !.sibling = @ - 1] \in Budgets
        /\ [b EXCEPT !.sibling = @ - 1].sibling = b.sibling - 1
  BY DEF Budgets
<1> QED
  BY <1>1, <1>2, <1>3, <1>4, <1>5

\* A sibling commit stays within the bound.
LEMMA SiblingCounted ==
    ASSUME NEW d \in Registries, NEW b \in Budgets, b.sibling > 0,
           d.sibling + b.sibling <= MaxSibling
    PROVE  [d EXCEPT !.sibling = @ + 1] \in Registries
  BY PublicationConstants DEF Registries, Budgets

\* A change of the link by the user is counted.
LEMMA UserMeddles == ASSUME TypeOK, UserChangesLink PROVE Meddled'
<1>1. budget \in Budgets /\ budget' = [budget EXCEPT !.meddle = @ - 1]
  BY DEF TypeOK, Budgets, UserChangesLink
<1> QED
  BY <1>1, PublicationConstants DEF Meddled, Budgets

\* The type invariant is the conjunction of its parts.
LEMMA TypeIsParts ==
    TypeOK <=> /\ RegistryTyped /\ FilesTyped /\ HistoryTyped /\ DirectoryTyped
               /\ ProcessTyped /\ CallsTyped /\ HostTyped /\ BoundsTyped
  BY DEF TypeOK, RegistryTyped, FilesTyped, HistoryTyped, DirectoryTyped, ProcessTyped,
         CallsTyped, HostTyped, BoundsTyped, Budgets

\* The variables keep their types: the lock and the places of the processes.
LEMMA ProcessKept == ASSUME IInv, Next PROVE ProcessTyped'
<1>i. ProcessTyped
  BY TypeIsParts DEF IInv
<1> USE <1>i
<1> USE Names
<1> USE DEF ProcessTyped, Labels
<1>1. ASSUME NEW p \in Process, Begin(p) PROVE ProcessTyped'
  BY <1>1 DEF Begin, BeginPublish, BeginRollback, BeginUnpublish, BeginReconcile,
            BeginRegister, Acquire, At, Goto, durable, files, history, directory,
            process, lease, bounds
<1>2. ASSUME NEW p \in Process, Recovers(p) PROVE ProcessTyped'
  BY <1>2 DEF Recovers, RecoverNothing, RecoverAbort, RecoverCommit, RecoverRestore,
            RecoverRefuse, Step, Decide, Return, At, Goto, durable, files, history,
            directory, process, lease, bounds
<1>3. ASSUME NEW p \in Process, Restores(p) PROVE ProcessTyped'
  BY <1>3 DEF Restores, RestoreStage, RestoreSwap, RestoreSync, Step, Return,
            RelinkSynced, Relink, At, Goto, durable, files, history, directory, process,
            lease, bounds
<1>4. ASSUME NEW p \in Process, Finishes(p) PROVE ProcessTyped'
  BY <1>4 DEF Finishes, FinishSave, FinishResult, FinishClearTemp, FinishClearPending,
            Return, Step, RelinkSynced, At, Goto, durable, files, history, directory,
            process, lease, bounds
<1>5. ASSUME NEW p \in Process, Plans(p) PROVE ProcessTyped'
  BY <1>5 DEF Plans, PlanPublish, PlanManaged, PlanRollback, PlanUnpublish,
            PlanReconcile, PlanRefused, Plan, Step, Return, At, Goto, durable, files,
            history, directory, process, lease, bounds
<1>6. ASSUME NEW p \in Process, Prepares(p) PROVE ProcessTyped'
  BY <1>6 DEF Prepares, CopyCandidate, Reacquire, ReacquireBusy, ArchiveIntent,
            WriteIntent, CreateCandidate, Step, MakeCandidate, Unchanged, Return,
            FreshName, At, Goto, durable, files, history, directory, process, lease,
            bounds
<1>7. ASSUME NEW p \in Process, Activates(p) PROVE ProcessTyped'
  BY <1>7 DEF Activates, ActivateCheck, ActivateStage, ActivateSwap, ActivateVerify,
            ActivateUndo, ActivateSync, Step, Return, RelinkSynced, Relink, At, Goto,
            durable, files, history, directory, process, lease, bounds
<1>8. ASSUME NEW p \in Process, Registers(p) PROVE ProcessTyped'
  BY <1>8 DEF Registers, RegisterSave, RegisterCheck, RegisterInstall, RegisterCommit,
            SaveEntry, Step, Return, RelinkSynced, At, Goto, durable, files, history,
            directory, process, lease, bounds
<1>9. ASSUME NEW p \in Process, Unlinks(p) PROVE ProcessTyped'
  BY <1>9 DEF Unlinks, UnlinkCheck, Unlink, MarkRemoved, Step, Return, RelinkSynced, At,
            Goto, durable, files, history, directory, process, lease, bounds
<1>10. ASSUME NEW p \in Process, Interrupts(p) PROVE ProcessTyped'
  BY <1>10 DEF Interrupts, RecordMissing, Crash, Return, At, Goto, durable, files,
            history, directory, process, lease, bounds
<1>11. ASSUME Environment PROVE ProcessTyped'
  BY <1>11 DEF Environment, Resolve, Admit, Retire, SiblingCommits, UserChangesLink,
            BundleDamaged, PowerFails, At, Goto, durable, files, history, directory,
            process, lease, bounds
<1> QED
  BY <1>1, <1>2, <1>3, <1>4, <1>5, <1>6, <1>7, <1>8, <1>9, <1>10, <1>11, StepKinds

\* The calls' local states.
LEMMA CallsKept == ASSUME IInv, Next PROVE CallsTyped'
<1>i. CallsTyped /\ RegistryTyped /\ FilesTyped /\ CallInv /\ HistoryTyped
  BY TypeIsParts DEF IInv
<1> USE <1>i
<1> USE Names, IdleIsTyped
<1> USE DEF CallsTyped, CallsTyped, RegistryTyped, FilesTyped
<1>1. ASSUME NEW p \in Process, Begin(p) PROVE CallsTyped'
  <2>1. CASE BeginPublish(p)
    <3>1. PICK op \in {"publish", "managed"}, e \in Revisions \cup {None} :
             mem' = [mem EXCEPT ![p] = [Idle EXCEPT !.op = op, !.expected = e, !.db = registry]]
      BY <2>1 DEF BeginPublish, Acquire
    <3>2. [Idle EXCEPT !.op = op, !.expected = e, !.db = registry] \in Calls
      BY AcquireIsTyped DEF Operations
    <3> QED
      BY <3>1, <3>2
  <2>2. CASE BeginRollback(p)
    <3>1. PICK op \in {"rollback"}, e \in Revisions \cup {None} :
             mem' = [mem EXCEPT ![p] = [Idle EXCEPT !.op = op, !.expected = e, !.db = registry]]
      BY <2>2 DEF BeginRollback, Acquire
    <3>2. [Idle EXCEPT !.op = op, !.expected = e, !.db = registry] \in Calls
      BY AcquireIsTyped DEF Operations
    <3> QED
      BY <3>1, <3>2
  <2>3. CASE BeginUnpublish(p)
    <3>1. PICK op \in {"unpublish"}, e \in Revisions \cup {None} :
             mem' = [mem EXCEPT ![p] = [Idle EXCEPT !.op = op, !.expected = e, !.db = registry]]
      BY <2>3 DEF BeginUnpublish, Acquire
    <3>2. [Idle EXCEPT !.op = op, !.expected = e, !.db = registry] \in Calls
      BY AcquireIsTyped DEF Operations
    <3> QED
      BY <3>1, <3>2
  <2>4. CASE BeginReconcile(p)
    <3>1. PICK op \in {"reconcile"}, e \in Revisions \cup {None} :
             mem' = [mem EXCEPT ![p] = [Idle EXCEPT !.op = op, !.expected = e, !.db = registry]]
      BY <2>4 DEF BeginReconcile, Acquire
    <3>2. [Idle EXCEPT !.op = op, !.expected = e, !.db = registry] \in Calls
      BY AcquireIsTyped DEF Operations
    <3> QED
      BY <3>1, <3>2
  <2>5. CASE BeginRegister(p)
    <3>1. PICK op \in {"register"}, e \in Revisions \cup {None} :
             mem' = [mem EXCEPT ![p] = [Idle EXCEPT !.op = op, !.expected = e, !.db = registry]]
      BY <2>5 DEF BeginRegister, Acquire
    <3>2. [Idle EXCEPT !.op = op, !.expected = e, !.db = registry] \in Calls
      BY AcquireIsTyped DEF Operations
    <3> QED
      BY <3>1, <3>2
  <2> QED
    BY <1>1, <2>1, <2>2, <2>3, <2>4, <2>5 DEF Begin
<1>2. ASSUME NEW p \in Process, Recovers(p) PROVE CallsTyped'
  <2>1. CASE RecoverNothing(p)
    BY <2>1 DEF RecoverNothing, Step, At, Goto, durable, files, history, directory,
             process, lease, bounds
  <2>2. CASE RecoverAbort(p)
    BY <2>2, MemoryUpdated DEF RecoverAbort, Decide, Outcomes
  <2>3. CASE RecoverCommit(p)
    BY <2>3, MemoryUpdated DEF RecoverCommit, Decide, Outcomes
  <2>4. CASE RecoverRestore(p)
    BY <2>4, MemoryUpdated DEF RecoverRestore, Decide, Outcomes
  <2>5. CASE RecoverRefuse(p)
    BY <2>5 DEF RecoverRefuse, Return, At, Goto, durable, files, history, directory,
             process, lease, bounds
  <2> QED
    BY <1>2, <2>1, <2>2, <2>3, <2>4, <2>5 DEF Recovers
<1>3. ASSUME NEW p \in Process, Restores(p) PROVE CallsTyped'
  BY <1>3 DEF Restores, RestoreStage, RestoreSwap, RestoreSync, Step, Return,
            RelinkSynced, Relink, At, Goto, durable, files, history, directory, process,
            lease, bounds
<1>4. ASSUME NEW p \in Process, Finishes(p) PROVE CallsTyped'
  <2>1. CASE FinishSave(p)
    <3>1. mem[p].intent # None => Finished(mem[p].intent, mem[p].outcome) \in Entries
      BY CallUpdated, FinishedIsTyped
    <3>2. [mem[p].db EXCEPT !.entry = Finished(mem[p].intent, mem[p].outcome)] \in Registries
      BY <2>1, <3>1, CallUpdated, RegistryUpdated DEF FinishSave, At, CallInv, Finishing
    <3> QED
      BY <2>1, <3>2, MemoryUpdated DEF FinishSave, Return
  <2>2. CASE FinishResult(p)
    BY <2>2 DEF FinishResult, Step, At, Goto, durable, files, history, directory,
             process, lease, bounds
  <2>3. CASE FinishClearTemp(p)
    BY <2>3 DEF FinishClearTemp, Step, Return, RelinkSynced, At, Goto, durable, files,
             history, directory, process, lease, bounds
  <2>4. CASE FinishClearPending(p)
    <3>1. \/ mem' = [mem EXCEPT ![p] = Idle]
          \/ mem' = [mem EXCEPT ![p].intent = None, ![p].outcome = "none"]
      BY <2>4 DEF FinishClearPending, Return
    <3>2. [mem EXCEPT ![p].intent = None, ![p].outcome = "none"] \in [Process -> Calls]
      BY MemoryUpdated DEF Outcomes
    <3> QED
      BY <3>1, <3>2
  <2> QED
    BY <1>4, <2>1, <2>2, <2>3, <2>4 DEF Finishes
<1>5. ASSUME NEW p \in Process, Plans(p) PROVE CallsTyped'
  <2>1. CASE PlanPublish(p)
    <3>1. PICK c \in {next} :
             /\ next \in Transactions
             /\ mem' = [mem EXCEPT ![p].intent = NewIntent(mem[p].db.entry, c), ![p].own = TRUE]
      BY <2>1, CallUpdated, RegistryUpdated DEF PlanPublish, Plan
    <3>2. NewIntent(mem[p].db.entry, c) \in Intents
      BY <3>1, IntentIsTyped, CallUpdated, RegistryUpdated
    <3> QED
      BY <3>1, <3>2, MemoryUpdated
  <2>2. CASE PlanManaged(p)
    <3>1. PICK c \in {next} :
             /\ next \in Transactions
             /\ mem' = [mem EXCEPT ![p].intent = NewIntent(mem[p].db.entry, c), ![p].own = TRUE]
      BY <2>2, CallUpdated, RegistryUpdated DEF PlanManaged, Plan
    <3>2. NewIntent(mem[p].db.entry, c) \in Intents
      BY <3>1, IntentIsTyped, CallUpdated, RegistryUpdated
    <3> QED
      BY <3>1, <3>2, MemoryUpdated
  <2>3. CASE PlanRollback(p)
    <3>1. PICK c \in Revisions :
             /\ next \in Transactions
             /\ mem' = [mem EXCEPT ![p].intent = NewIntent(mem[p].db.entry, c), ![p].own = TRUE]
      BY <2>3, CallUpdated, RegistryUpdated DEF PlanRollback, Plan, Loadable, HistoryTyped
    <3>2. NewIntent(mem[p].db.entry, c) \in Intents
      BY <3>1, IntentIsTyped, CallUpdated, RegistryUpdated
    <3> QED
      BY <3>1, <3>2, MemoryUpdated
  <2>4. CASE PlanUnpublish(p)
    <3>1. PICK c \in {None} :
             /\ next \in Transactions
             /\ mem' = [mem EXCEPT ![p].intent = NewIntent(mem[p].db.entry, c), ![p].own = TRUE]
      BY <2>4, CallUpdated, RegistryUpdated DEF PlanUnpublish, Plan
    <3>2. NewIntent(mem[p].db.entry, c) \in Intents
      BY <3>1, IntentIsTyped, CallUpdated, RegistryUpdated
    <3> QED
      BY <3>1, <3>2, MemoryUpdated
  <2>5. CASE PlanReconcile(p)
    BY <2>5 DEF PlanReconcile, Step, At, Goto, durable, files, history, directory,
             process, lease, bounds
  <2>6. CASE PlanRefused(p)
    BY <2>6 DEF PlanRefused, Return, At, Goto, durable, files, history, directory,
             process, lease, bounds
  <2> QED
    BY <1>5, <2>1, <2>2, <2>3, <2>4, <2>5, <2>6 DEF Plans
<1>6. ASSUME NEW p \in Process, Prepares(p) PROVE CallsTyped'
  BY <1>6 DEF Prepares, CopyCandidate, Reacquire, ReacquireBusy, ArchiveIntent,
            WriteIntent, CreateCandidate, Step, MakeCandidate, Unchanged, Return,
            FreshName, At, Goto, durable, files, history, directory, process, lease,
            bounds
<1>7. ASSUME NEW p \in Process, Activates(p) PROVE CallsTyped'
  <2>1. CASE ActivateCheck(p)
    BY <2>1 DEF ActivateCheck, Step, Return, At, Goto, durable, files, history,
             directory, process, lease, bounds
  <2>2. CASE ActivateStage(p)
    BY <2>2 DEF ActivateStage, Step, RelinkSynced, At, Goto, durable, files, history,
             directory, process, lease, bounds
  <2>3. CASE ActivateSwap(p)
    BY <2>3 DEF ActivateSwap, Step, Return, Relink, At, Goto, durable, files, history,
             directory, process, lease, bounds
  <2>4. CASE ActivateVerify(p)
    BY <2>4 DEF ActivateVerify, Step, Return, At, Goto, durable, files, history,
             directory, process, lease, bounds
  <2>5. CASE ActivateUndo(p)
    BY <2>5 DEF ActivateUndo, Return, RelinkSynced, At, Goto, durable, files, history,
             directory, process, lease, bounds
  <2>6. CASE ActivateSync(p)
    BY <2>6, MemoryUpdated DEF ActivateSync, Outcomes
  <2> QED
    BY <1>7, <2>1, <2>2, <2>3, <2>4, <2>5, <2>6 DEF Activates
<1>8. ASSUME NEW p \in Process, Registers(p) PROVE CallsTyped'
  <2>1. CASE RegisterSave(p)
    BY <2>1, MemoryUpdated, EntriesAreTyped DEF RegisterSave, SaveEntry, Legacy
  <2>2. CASE RegisterCheck(p)
    BY <2>2 DEF RegisterCheck, Step, Return, At, Goto, durable, files, history,
             directory, process, lease, bounds
  <2>3. CASE RegisterInstall(p)
    BY <2>3 DEF RegisterInstall, Step, Return, RelinkSynced, At, Goto, durable, files,
             history, directory, process, lease, bounds
  <2>4. CASE RegisterCommit(p)
    BY <2>4 DEF RegisterCommit, Return, At, Goto, durable, files, history, directory,
             process, lease, bounds
  <2> QED
    BY <1>8, <2>1, <2>2, <2>3, <2>4 DEF Registers
<1>9. ASSUME NEW p \in Process, Unlinks(p) PROVE CallsTyped'
  BY <1>9 DEF Unlinks, UnlinkCheck, Unlink, MarkRemoved, Step, Return, RelinkSynced, At,
            Goto, durable, files, history, directory, process, lease, bounds
<1>10. ASSUME NEW p \in Process, Interrupts(p) PROVE CallsTyped'
  BY <1>10 DEF Interrupts, RecordMissing, Crash, Return, At, Goto, durable, files,
            history, directory, process, lease, bounds
<1>11. ASSUME Environment PROVE CallsTyped'
  BY <1>11 DEF Environment, Resolve, Admit, Retire, SiblingCommits, UserChangesLink,
            BundleDamaged, PowerFails, At, Goto, durable, files, history, directory,
            process, lease, bounds
<1> QED
  BY <1>1, <1>2, <1>3, <1>4, <1>5, <1>6, <1>7, <1>8, <1>9, <1>10, <1>11, StepKinds

\* The registry.
LEMMA RegistryKept == ASSUME IInv, Next PROVE RegistryTyped'
<1>i. RegistryTyped /\ CallsTyped /\ CallInv /\ BoundsTyped /\ SiblingInv
  BY TypeIsParts DEF IInv
<1> USE <1>i
<1> USE Names
<1> USE DEF RegistryTyped, CallsTyped
<1>1. ASSUME NEW p \in Process, Begin(p) PROVE RegistryTyped'
  BY <1>1 DEF Begin, BeginPublish, BeginRollback, BeginUnpublish, BeginReconcile,
            BeginRegister, Acquire, At, Goto, durable, files, history, directory,
            process, lease, bounds
<1>2. ASSUME NEW p \in Process, Recovers(p) PROVE RegistryTyped'
  BY <1>2 DEF Recovers, RecoverNothing, RecoverAbort, RecoverCommit, RecoverRestore,
            RecoverRefuse, Step, Decide, Return, At, Goto, durable, files, history,
            directory, process, lease, bounds
<1>3. ASSUME NEW p \in Process, Restores(p) PROVE RegistryTyped'
  BY <1>3 DEF Restores, RestoreStage, RestoreSwap, RestoreSync, Step, Return,
            RelinkSynced, Relink, At, Goto, durable, files, history, directory, process,
            lease, bounds
<1>4. ASSUME NEW p \in Process, Finishes(p) PROVE RegistryTyped'
  <2>1. CASE FinishSave(p)
    <3>1. mem[p].intent # None => Finished(mem[p].intent, mem[p].outcome) \in Entries
      BY CallUpdated, FinishedIsTyped
    <3>2. [mem[p].db EXCEPT !.entry = Finished(mem[p].intent, mem[p].outcome)] \in Registries
      BY <2>1, <3>1, CallUpdated, RegistryUpdated DEF FinishSave, At, CallInv, Finishing
    <3> QED
      BY <2>1, <3>2 DEF FinishSave
  <2>2. CASE FinishResult(p)
    BY <2>2 DEF FinishResult, Step, At, Goto, durable, files, history, directory,
             process, lease, bounds
  <2>3. CASE FinishClearTemp(p)
    BY <2>3 DEF FinishClearTemp, Step, Return, RelinkSynced, At, Goto, durable, files,
             history, directory, process, lease, bounds
  <2>4. CASE FinishClearPending(p)
    BY <2>4 DEF FinishClearPending, Return, At, Goto, durable, files, history,
             directory, process, lease, bounds
  <2> QED
    BY <1>4, <2>1, <2>2, <2>3, <2>4 DEF Finishes
<1>5. ASSUME NEW p \in Process, Plans(p) PROVE RegistryTyped'
  BY <1>5 DEF Plans, PlanPublish, PlanManaged, PlanRollback, PlanUnpublish,
            PlanReconcile, PlanRefused, Plan, Step, Return, At, Goto, durable, files,
            history, directory, process, lease, bounds
<1>6. ASSUME NEW p \in Process, Prepares(p) PROVE RegistryTyped'
  BY <1>6 DEF Prepares, CopyCandidate, Reacquire, ReacquireBusy, ArchiveIntent,
            WriteIntent, CreateCandidate, Step, MakeCandidate, Unchanged, Return,
            FreshName, At, Goto, durable, files, history, directory, process, lease,
            bounds
<1>7. ASSUME NEW p \in Process, Activates(p) PROVE RegistryTyped'
  BY <1>7 DEF Activates, ActivateCheck, ActivateStage, ActivateSwap, ActivateVerify,
            ActivateUndo, ActivateSync, Step, Return, RelinkSynced, Relink, At, Goto,
            durable, files, history, directory, process, lease, bounds
<1>8. ASSUME NEW p \in Process, Registers(p) PROVE RegistryTyped'
  <2>1. CASE RegisterSave(p)
    BY <2>1, CallUpdated, RegistryUpdated, EntriesAreTyped DEF RegisterSave, SaveEntry, Legacy
  <2>2. CASE RegisterCheck(p)
    BY <2>2 DEF RegisterCheck, Step, Return, At, Goto, durable, files, history,
             directory, process, lease, bounds
  <2>3. CASE RegisterInstall(p)
    BY <2>3 DEF RegisterInstall, Step, Return, RelinkSynced, At, Goto, durable, files,
             history, directory, process, lease, bounds
  <2>4. CASE RegisterCommit(p)
    BY <2>4, CallUpdated, RegistryUpdated, EntriesAreTyped DEF RegisterCommit, Legacy
  <2> QED
    BY <1>8, <2>1, <2>2, <2>3, <2>4 DEF Registers
<1>9. ASSUME NEW p \in Process, Unlinks(p) PROVE RegistryTyped'
  <2>1. CASE UnlinkCheck(p)
    BY <2>1 DEF UnlinkCheck, Step, Return, At, Goto, durable, files, history, directory,
             process, lease, bounds
  <2>2. CASE Unlink(p)
    BY <2>2 DEF Unlink, Step, Return, RelinkSynced, At, Goto, durable, files, history,
             directory, process, lease, bounds
  <2>3. CASE MarkRemoved(p)
    BY <2>3, CallUpdated, RegistryUpdated DEF MarkRemoved
  <2> QED
    BY <1>9, <2>1, <2>2, <2>3 DEF Unlinks
<1>10. ASSUME NEW p \in Process, Interrupts(p) PROVE RegistryTyped'
  <2>1. CASE RecordMissing(p)
    BY <2>1, RegistryUpdated DEF RecordMissing
  <2>2. CASE Crash(p)
    BY <2>2 DEF Crash, Return, At, Goto, durable, files, history, directory, process,
             lease, bounds
  <2> QED
    BY <1>10, <2>1, <2>2 DEF Interrupts
<1>11. ASSUME Environment PROVE RegistryTyped'
  <2>1. CASE Resolve
    BY <2>1 DEF Resolve, At, Goto, durable, files, history, directory, process, lease,
             bounds
  <2>2. CASE Admit
    BY <2>2 DEF Admit, At, Goto, durable, files, history, directory, process, lease,
             bounds
  <2>3. CASE Retire
    BY <2>3 DEF Retire, At, Goto, durable, files, history, directory, process, lease,
             bounds
  <2>4. CASE SiblingCommits
    BY <2>4, SiblingCounted DEF SiblingCommits, SiblingInv, BoundsTyped
  <2>5. CASE UserChangesLink
    BY <2>5 DEF UserChangesLink, At, Goto, durable, files, history, directory, process,
             lease, bounds
  <2>6. CASE BundleDamaged
    BY <2>6 DEF BundleDamaged, At, Goto, durable, files, history, directory, process,
             lease, bounds
  <2>7. CASE PowerFails
    BY <2>7 DEF PowerFails, At, Goto, durable, files, history, directory, process,
             lease, bounds
  <2> QED
    BY <1>11, <2>1, <2>2, <2>3, <2>4, <2>5, <2>6, <2>7 DEF Environment
<1> QED
  BY <1>1, <1>2, <1>3, <1>4, <1>5, <1>6, <1>7, <1>8, <1>9, <1>10, <1>11, StepKinds

\* The intents and results on disk.
LEMMA FilesKept == ASSUME IInv, Next PROVE FilesTyped'
<1>i. FilesTyped /\ CallsTyped /\ CallInv
  BY TypeIsParts DEF IInv
<1> USE <1>i
<1> USE Names
<1> USE DEF FilesTyped, CallsTyped
<1>1. ASSUME NEW p \in Process, Begin(p) PROVE FilesTyped'
  BY <1>1 DEF Begin, BeginPublish, BeginRollback, BeginUnpublish, BeginReconcile,
            BeginRegister, Acquire, At, Goto, durable, files, history, directory,
            process, lease, bounds
<1>2. ASSUME NEW p \in Process, Recovers(p) PROVE FilesTyped'
  BY <1>2 DEF Recovers, RecoverNothing, RecoverAbort, RecoverCommit, RecoverRestore,
            RecoverRefuse, Step, Decide, Return, At, Goto, durable, files, history,
            directory, process, lease, bounds
<1>3. ASSUME NEW p \in Process, Restores(p) PROVE FilesTyped'
  BY <1>3 DEF Restores, RestoreStage, RestoreSwap, RestoreSync, Step, Return,
            RelinkSynced, Relink, At, Goto, durable, files, history, directory, process,
            lease, bounds
<1>4. ASSUME NEW p \in Process, Finishes(p) PROVE FilesTyped'
  <2>1. CASE FinishSave(p)
    BY <2>1 DEF FinishSave, Return, At, Goto, durable, files, history, directory,
             process, lease, bounds
  <2>2. CASE FinishResult(p)
    <3>1. mem[p].outcome \in Outcomes
      BY CallUpdated
    <3> QED
      BY <2>2, <3>1 DEF FinishResult, Step
  <2>3. CASE FinishClearTemp(p)
    BY <2>3 DEF FinishClearTemp, Step, Return, RelinkSynced, At, Goto, durable, files,
             history, directory, process, lease, bounds
  <2>4. CASE FinishClearPending(p)
    BY <2>4 DEF FinishClearPending, Return, At, Goto, durable, files, history,
             directory, process, lease, bounds
  <2> QED
    BY <1>4, <2>1, <2>2, <2>3, <2>4 DEF Finishes
<1>5. ASSUME NEW p \in Process, Plans(p) PROVE FilesTyped'
  BY <1>5 DEF Plans, PlanPublish, PlanManaged, PlanRollback, PlanUnpublish,
            PlanReconcile, PlanRefused, Plan, Step, Return, At, Goto, durable, files,
            history, directory, process, lease, bounds
<1>6. ASSUME NEW p \in Process, Prepares(p) PROVE FilesTyped'
  <2>1. CASE CopyCandidate(p)
    BY <2>1 DEF CopyCandidate, Step, MakeCandidate, At, Goto, durable, files, history,
             directory, process, lease, bounds
  <2>2. CASE Reacquire(p)
    BY <2>2 DEF Reacquire, Unchanged, Return, At, Goto, durable, files, history,
             directory, process, lease, bounds
  <2>3. CASE ReacquireBusy(p)
    BY <2>3 DEF ReacquireBusy, Return, At, Goto, durable, files, history, directory,
             process, lease, bounds
  <2>4. CASE ArchiveIntent(p)
    <3>1. mem[p].intent \in Intents
      BY <2>4, CallUpdated DEF ArchiveIntent, At, CallInv, Planned
    <3> QED
      BY <2>4, <3>1, IntentParts DEF ArchiveIntent
  <2>5. CASE WriteIntent(p)
    <3>1. mem[p].intent \in Intents
      BY <2>5, CallUpdated DEF WriteIntent, At, CallInv, Planned
    <3> QED
      BY <2>5, <3>1 DEF WriteIntent, FreshName, files
  <2>6. CASE CreateCandidate(p)
    BY <2>6 DEF CreateCandidate, Step, MakeCandidate, At, Goto, durable, files, history,
             directory, process, lease, bounds
  <2> QED
    BY <1>6, <2>1, <2>2, <2>3, <2>4, <2>5, <2>6 DEF Prepares
<1>7. ASSUME NEW p \in Process, Activates(p) PROVE FilesTyped'
  BY <1>7 DEF Activates, ActivateCheck, ActivateStage, ActivateSwap, ActivateVerify,
            ActivateUndo, ActivateSync, Step, Return, RelinkSynced, Relink, At, Goto,
            durable, files, history, directory, process, lease, bounds
<1>8. ASSUME NEW p \in Process, Registers(p) PROVE FilesTyped'
  BY <1>8 DEF Registers, RegisterSave, RegisterCheck, RegisterInstall, RegisterCommit,
            SaveEntry, Step, Return, RelinkSynced, At, Goto, durable, files, history,
            directory, process, lease, bounds
<1>9. ASSUME NEW p \in Process, Unlinks(p) PROVE FilesTyped'
  BY <1>9 DEF Unlinks, UnlinkCheck, Unlink, MarkRemoved, Step, Return, RelinkSynced, At,
            Goto, durable, files, history, directory, process, lease, bounds
<1>10. ASSUME NEW p \in Process, Interrupts(p) PROVE FilesTyped'
  BY <1>10 DEF Interrupts, RecordMissing, Crash, Return, At, Goto, durable, files,
            history, directory, process, lease, bounds
<1>11. ASSUME Environment PROVE FilesTyped'
  BY <1>11 DEF Environment, Resolve, Admit, Retire, SiblingCommits, UserChangesLink,
            BundleDamaged, PowerFails, At, Goto, durable, files, history, directory,
            process, lease, bounds
<1> QED
  BY <1>1, <1>2, <1>3, <1>4, <1>5, <1>6, <1>7, <1>8, <1>9, <1>10, <1>11, StepKinds

\* The revisions.
LEMMA HistoryKept == ASSUME IInv, Next PROVE HistoryTyped'
<1>i. HistoryTyped /\ CallsTyped /\ CallInv /\ PlanInv /\ SoundInv
  BY TypeIsParts DEF IInv
<1> USE <1>i
<1> USE Names
<1> USE DEF HistoryTyped, CallsTyped
<1>1. ASSUME NEW p \in Process, Begin(p) PROVE HistoryTyped'
  BY <1>1 DEF Begin, BeginPublish, BeginRollback, BeginUnpublish, BeginReconcile,
            BeginRegister, Acquire, At, Goto, durable, files, history, directory,
            process, lease, bounds
<1>2. ASSUME NEW p \in Process, Recovers(p) PROVE HistoryTyped'
  BY <1>2 DEF Recovers, RecoverNothing, RecoverAbort, RecoverCommit, RecoverRestore,
            RecoverRefuse, Step, Decide, Return, At, Goto, durable, files, history,
            directory, process, lease, bounds
<1>3. ASSUME NEW p \in Process, Restores(p) PROVE HistoryTyped'
  BY <1>3 DEF Restores, RestoreStage, RestoreSwap, RestoreSync, Step, Return,
            RelinkSynced, Relink, At, Goto, durable, files, history, directory, process,
            lease, bounds
<1>4. ASSUME NEW p \in Process, Finishes(p) PROVE HistoryTyped'
  BY <1>4 DEF Finishes, FinishSave, FinishResult, FinishClearTemp, FinishClearPending,
            Return, Step, RelinkSynced, At, Goto, durable, files, history, directory,
            process, lease, bounds
<1>5. ASSUME NEW p \in Process, Plans(p) PROVE HistoryTyped'
  <2>1. CASE PlanPublish(p)
    BY <2>1 DEF PlanPublish, Plan, Adopted, Legacy
  <2>2. CASE PlanManaged(p)
    BY <2>2 DEF PlanManaged, Plan, Adopted, Legacy
  <2>3. CASE PlanRollback(p)
    BY <2>3 DEF PlanRollback, Plan, Adopted, Legacy
  <2>4. CASE PlanUnpublish(p)
    BY <2>4 DEF PlanUnpublish, Plan, Adopted, Legacy
  <2>5. CASE PlanReconcile(p)
    BY <2>5 DEF PlanReconcile, Step, At, Goto, durable, files, history, directory,
             process, lease, bounds
  <2>6. CASE PlanRefused(p)
    BY <2>6 DEF PlanRefused, Return, At, Goto, durable, files, history, directory,
             process, lease, bounds
  <2> QED
    BY <1>5, <2>1, <2>2, <2>3, <2>4, <2>5, <2>6 DEF Plans
<1>6. ASSUME NEW p \in Process, Prepares(p) PROVE HistoryTyped'
  <2>1. CASE CopyCandidate(p)
    <3>1. mem[p].intent \in Intents
      BY <2>1, CallUpdated DEF CopyCandidate, At, CallInv, Planned, Acting
    <3>2. mem[p].intent.candidate \in Revisions
      BY <2>1, <3>1, IntentParts
         DEF CopyCandidate, At, PlanInv, CallInv, Planned, Acting, Making
    <3>3. mem[p].intent.entry # Absent => mem[p].intent.entry.rev \in Revisions
      BY <2>1, <3>1, IntentParts
         DEF CopyCandidate, At, CallInv, Planned, Acting, SoundInv, Sound, Known
    <3> QED
      BY <2>1, <3>2, <3>3 DEF CopyCandidate, MakeCandidate, history
  <2>2. CASE Reacquire(p)
    BY <2>2 DEF Reacquire, Unchanged, Return, At, Goto, durable, files, history,
             directory, process, lease, bounds
  <2>3. CASE ReacquireBusy(p)
    BY <2>3 DEF ReacquireBusy, Return, At, Goto, durable, files, history, directory,
             process, lease, bounds
  <2>4. CASE ArchiveIntent(p)
    BY <2>4 DEF ArchiveIntent, Step, At, Goto, durable, files, history, directory,
             process, lease, bounds
  <2>5. CASE WriteIntent(p)
    BY <2>5 DEF WriteIntent, Step, FreshName, At, Goto, durable, files, history,
             directory, process, lease, bounds
  <2>6. CASE CreateCandidate(p)
    <3>1. mem[p].intent \in Intents
      BY <2>6, CallUpdated DEF CreateCandidate, At, CallInv, Planned, Acting
    <3>2. mem[p].intent.candidate \in Revisions
      BY <2>6, <3>1, IntentParts
         DEF CreateCandidate, At, PlanInv, CallInv, Planned, Acting, Making
    <3>3. mem[p].intent.entry # Absent => mem[p].intent.entry.rev \in Revisions
      BY <2>6, <3>1, IntentParts
         DEF CreateCandidate, At, CallInv, Planned, Acting, SoundInv, Sound, Known
    <3> QED
      BY <2>6, <3>2, <3>3 DEF CreateCandidate, MakeCandidate, history
  <2> QED
    BY <1>6, <2>1, <2>2, <2>3, <2>4, <2>5, <2>6 DEF Prepares
<1>7. ASSUME NEW p \in Process, Activates(p) PROVE HistoryTyped'
  BY <1>7 DEF Activates, ActivateCheck, ActivateStage, ActivateSwap, ActivateVerify,
            ActivateUndo, ActivateSync, Step, Return, RelinkSynced, Relink, At, Goto,
            durable, files, history, directory, process, lease, bounds
<1>8. ASSUME NEW p \in Process, Registers(p) PROVE HistoryTyped'
  BY <1>8 DEF Registers, RegisterSave, RegisterCheck, RegisterInstall, RegisterCommit,
            SaveEntry, Step, Return, RelinkSynced, At, Goto, durable, files, history,
            directory, process, lease, bounds
<1>9. ASSUME NEW p \in Process, Unlinks(p) PROVE HistoryTyped'
  BY <1>9 DEF Unlinks, UnlinkCheck, Unlink, MarkRemoved, Step, Return, RelinkSynced, At,
            Goto, durable, files, history, directory, process, lease, bounds
<1>10. ASSUME NEW p \in Process, Interrupts(p) PROVE HistoryTyped'
  BY <1>10 DEF Interrupts, RecordMissing, Crash, Return, At, Goto, durable, files,
            history, directory, process, lease, bounds
<1>11. ASSUME Environment PROVE HistoryTyped'
  BY <1>11 DEF Environment, Resolve, Admit, Retire, SiblingCommits, UserChangesLink,
            BundleDamaged, PowerFails, At, Goto, durable, files, history, directory,
            process, lease, bounds
<1> QED
  BY <1>1, <1>2, <1>3, <1>4, <1>5, <1>6, <1>7, <1>8, <1>9, <1>10, <1>11, StepKinds

\* The link directory.
LEMMA DirectoryKept == ASSUME IInv, Next PROVE DirectoryTyped'
<1>i. DirectoryTyped /\ CallsTyped /\ CallInv
  BY TypeIsParts DEF IInv
<1> USE <1>i
<1> USE Names
<1> USE DEF DirectoryTyped, CallsTyped, Links, Targets
<1>1. ASSUME NEW p \in Process, Begin(p) PROVE DirectoryTyped'
  BY <1>1 DEF Begin, BeginPublish, BeginRollback, BeginUnpublish, BeginReconcile,
            BeginRegister, Acquire, At, Goto, durable, files, history, directory,
            process, lease, bounds
<1>2. ASSUME NEW p \in Process, Recovers(p) PROVE DirectoryTyped'
  BY <1>2 DEF Recovers, RecoverNothing, RecoverAbort, RecoverCommit, RecoverRestore,
            RecoverRefuse, Step, Decide, Return, At, Goto, durable, files, history,
            directory, process, lease, bounds
<1>3. ASSUME NEW p \in Process, Restores(p) PROVE DirectoryTyped'
  <2>1. CASE RestoreStage(p)
    <3>1. mem[p].intent.target \in Revisions \cup {None}
      BY <2>1, CallUpdated, IntentParts DEF RestoreStage, At, CallInv, Restoring
    <3> QED
      BY <2>1, <3>1 DEF RestoreStage, RelinkSynced, directory
  <2>2. CASE RestoreSwap(p)
    BY <2>2 DEF RestoreSwap, Step, Return, Relink, At, Goto, durable, files, history,
             directory, process, lease, bounds
  <2>3. CASE RestoreSync(p)
    BY <2>3 DEF RestoreSync, Step, RelinkSynced, At, Goto, durable, files, history,
             directory, process, lease, bounds
  <2> QED
    BY <1>3, <2>1, <2>2, <2>3 DEF Restores
<1>4. ASSUME NEW p \in Process, Finishes(p) PROVE DirectoryTyped'
  BY <1>4 DEF Finishes, FinishSave, FinishResult, FinishClearTemp, FinishClearPending,
            Return, Step, RelinkSynced, At, Goto, durable, files, history, directory,
            process, lease, bounds
<1>5. ASSUME NEW p \in Process, Plans(p) PROVE DirectoryTyped'
  BY <1>5 DEF Plans, PlanPublish, PlanManaged, PlanRollback, PlanUnpublish,
            PlanReconcile, PlanRefused, Plan, Step, Return, At, Goto, durable, files,
            history, directory, process, lease, bounds
<1>6. ASSUME NEW p \in Process, Prepares(p) PROVE DirectoryTyped'
  BY <1>6 DEF Prepares, CopyCandidate, Reacquire, ReacquireBusy, ArchiveIntent,
            WriteIntent, CreateCandidate, Step, MakeCandidate, Unchanged, Return,
            FreshName, At, Goto, durable, files, history, directory, process, lease,
            bounds
<1>7. ASSUME NEW p \in Process, Activates(p) PROVE DirectoryTyped'
  <2>1. CASE ActivateCheck(p)
    BY <2>1 DEF ActivateCheck, Step, Return, At, Goto, durable, files, history,
             directory, process, lease, bounds
  <2>2. CASE ActivateStage(p)
    <3>1. mem[p].intent.candidate \in Revisions \cup {None}
      BY <2>2, CallUpdated, IntentParts DEF ActivateStage, At, CallInv, Acting
    <3> QED
      BY <2>2, <3>1 DEF ActivateStage, RelinkSynced
  <2>3. CASE ActivateSwap(p)
    BY <2>3 DEF ActivateSwap, Step, Return, Relink, At, Goto, durable, files, history,
             directory, process, lease, bounds
  <2>4. CASE ActivateVerify(p)
    BY <2>4 DEF ActivateVerify, Step, Return, At, Goto, durable, files, history,
             directory, process, lease, bounds
  <2>5. CASE ActivateUndo(p)
    BY <2>5 DEF ActivateUndo, Return, RelinkSynced, At, Goto, durable, files, history,
             directory, process, lease, bounds
  <2>6. CASE ActivateSync(p)
    BY <2>6 DEF ActivateSync, RelinkSynced, At, Goto, durable, files, history,
             directory, process, lease, bounds
  <2> QED
    BY <1>7, <2>1, <2>2, <2>3, <2>4, <2>5, <2>6 DEF Activates
<1>8. ASSUME NEW p \in Process, Registers(p) PROVE DirectoryTyped'
  <2>1. CASE RegisterSave(p)
    BY <2>1 DEF RegisterSave, SaveEntry, At, Goto, durable, files, history, directory,
             process, lease, bounds
  <2>2. CASE RegisterCheck(p)
    BY <2>2 DEF RegisterCheck, Step, Return, At, Goto, durable, files, history,
             directory, process, lease, bounds
  <2>3. CASE RegisterInstall(p)
    BY <2>3 DEF RegisterInstall, RelinkSynced, directory, Legacy
  <2>4. CASE RegisterCommit(p)
    BY <2>4 DEF RegisterCommit, Return, At, Goto, durable, files, history, directory,
             process, lease, bounds
  <2> QED
    BY <1>8, <2>1, <2>2, <2>3, <2>4 DEF Registers
<1>9. ASSUME NEW p \in Process, Unlinks(p) PROVE DirectoryTyped'
  BY <1>9 DEF Unlinks, UnlinkCheck, Unlink, MarkRemoved, Step, Return, RelinkSynced, At,
            Goto, durable, files, history, directory, process, lease, bounds
<1>10. ASSUME NEW p \in Process, Interrupts(p) PROVE DirectoryTyped'
  BY <1>10 DEF Interrupts, RecordMissing, Crash, Return, At, Goto, durable, files,
            history, directory, process, lease, bounds
<1>11. ASSUME Environment PROVE DirectoryTyped'
  BY <1>11 DEF Environment, Resolve, Admit, Retire, SiblingCommits, UserChangesLink,
            BundleDamaged, PowerFails, At, Goto, durable, files, history, directory,
            process, lease, bounds
<1> QED
  BY <1>1, <1>2, <1>3, <1>4, <1>5, <1>6, <1>7, <1>8, <1>9, <1>10, <1>11, StepKinds

\* The admission and its lease.
LEMMA HostKept == ASSUME IInv, Next PROVE HostTyped'
<1>i. HostTyped /\ RegistryTyped
  BY TypeIsParts DEF IInv
<1> USE <1>i
<1> USE Names, EntriesAreTyped
<1> USE DEF HostTyped, RegistryTyped
<1>1. ASSUME NEW p \in Process, Begin(p) PROVE HostTyped'
  BY <1>1 DEF Begin, BeginPublish, BeginRollback, BeginUnpublish, BeginReconcile,
            BeginRegister, Acquire, At, Goto, durable, files, history, directory,
            process, lease, bounds
<1>2. ASSUME NEW p \in Process, Recovers(p) PROVE HostTyped'
  BY <1>2 DEF Recovers, RecoverNothing, RecoverAbort, RecoverCommit, RecoverRestore,
            RecoverRefuse, Step, Decide, Return, At, Goto, durable, files, history,
            directory, process, lease, bounds
<1>3. ASSUME NEW p \in Process, Restores(p) PROVE HostTyped'
  BY <1>3 DEF Restores, RestoreStage, RestoreSwap, RestoreSync, Step, Return,
            RelinkSynced, Relink, At, Goto, durable, files, history, directory, process,
            lease, bounds
<1>4. ASSUME NEW p \in Process, Finishes(p) PROVE HostTyped'
  BY <1>4 DEF Finishes, FinishSave, FinishResult, FinishClearTemp, FinishClearPending,
            Return, Step, RelinkSynced, At, Goto, durable, files, history, directory,
            process, lease, bounds
<1>5. ASSUME NEW p \in Process, Plans(p) PROVE HostTyped'
  BY <1>5 DEF Plans, PlanPublish, PlanManaged, PlanRollback, PlanUnpublish,
            PlanReconcile, PlanRefused, Plan, Step, Return, At, Goto, durable, files,
            history, directory, process, lease, bounds
<1>6. ASSUME NEW p \in Process, Prepares(p) PROVE HostTyped'
  BY <1>6 DEF Prepares, CopyCandidate, Reacquire, ReacquireBusy, ArchiveIntent,
            WriteIntent, CreateCandidate, Step, MakeCandidate, Unchanged, Return,
            FreshName, At, Goto, durable, files, history, directory, process, lease,
            bounds
<1>7. ASSUME NEW p \in Process, Activates(p) PROVE HostTyped'
  BY <1>7 DEF Activates, ActivateCheck, ActivateStage, ActivateSwap, ActivateVerify,
            ActivateUndo, ActivateSync, Step, Return, RelinkSynced, Relink, At, Goto,
            durable, files, history, directory, process, lease, bounds
<1>8. ASSUME NEW p \in Process, Registers(p) PROVE HostTyped'
  BY <1>8 DEF Registers, RegisterSave, RegisterCheck, RegisterInstall, RegisterCommit,
            SaveEntry, Step, Return, RelinkSynced, At, Goto, durable, files, history,
            directory, process, lease, bounds
<1>9. ASSUME NEW p \in Process, Unlinks(p) PROVE HostTyped'
  BY <1>9 DEF Unlinks, UnlinkCheck, Unlink, MarkRemoved, Step, Return, RelinkSynced, At,
            Goto, durable, files, history, directory, process, lease, bounds
<1>10. ASSUME NEW p \in Process, Interrupts(p) PROVE HostTyped'
  BY <1>10 DEF Interrupts, RecordMissing, Crash, Return, At, Goto, durable, files,
            history, directory, process, lease, bounds
<1>11. ASSUME Environment PROVE HostTyped'
  <2>1. CASE Resolve
    BY <2>1, RegistryUpdated DEF Resolve
  <2>2. CASE Admit
    BY <2>2 DEF Admit, At, Goto, durable, files, history, directory, process, lease,
             bounds
  <2>3. CASE Retire
    BY <2>3 DEF Retire, At, Goto, durable, files, history, directory, process, lease,
             bounds
  <2>4. CASE SiblingCommits
    BY <2>4 DEF SiblingCommits, At, Goto, durable, files, history, directory, process,
             lease, bounds
  <2>5. CASE UserChangesLink
    BY <2>5 DEF UserChangesLink, At, Goto, durable, files, history, directory, process,
             lease, bounds
  <2>6. CASE BundleDamaged
    BY <2>6 DEF BundleDamaged, At, Goto, durable, files, history, directory, process,
             lease, bounds
  <2>7. CASE PowerFails
    BY <2>7 DEF PowerFails, At, Goto, durable, files, history, directory, process,
             lease, bounds
  <2> QED
    BY <1>11, <2>1, <2>2, <2>3, <2>4, <2>5, <2>6, <2>7 DEF Environment
<1> QED
  BY <1>1, <1>2, <1>3, <1>4, <1>5, <1>6, <1>7, <1>8, <1>9, <1>10, <1>11, StepKinds

\* The counters.
LEMMA BoundsKept == ASSUME IInv, Next PROVE BoundsTyped'
<1>i. BoundsTyped /\ CallsTyped /\ CallInv
  BY TypeIsParts DEF IInv
<1> USE <1>i
<1> USE Names
<1> USE DEF BoundsTyped, CallsTyped
<1>1. ASSUME NEW p \in Process, Begin(p) PROVE BoundsTyped'
  BY <1>1 DEF Begin, BeginPublish, BeginRollback, BeginUnpublish, BeginReconcile,
            BeginRegister, Acquire, At, Goto, durable, files, history, directory,
            process, lease, bounds
<1>2. ASSUME NEW p \in Process, Recovers(p) PROVE BoundsTyped'
  BY <1>2 DEF Recovers, RecoverNothing, RecoverAbort, RecoverCommit, RecoverRestore,
            RecoverRefuse, Step, Decide, Return, At, Goto, durable, files, history,
            directory, process, lease, bounds
<1>3. ASSUME NEW p \in Process, Restores(p) PROVE BoundsTyped'
  BY <1>3 DEF Restores, RestoreStage, RestoreSwap, RestoreSync, Step, Return,
            RelinkSynced, Relink, At, Goto, durable, files, history, directory, process,
            lease, bounds
<1>4. ASSUME NEW p \in Process, Finishes(p) PROVE BoundsTyped'
  BY <1>4 DEF Finishes, FinishSave, FinishResult, FinishClearTemp, FinishClearPending,
            Return, Step, RelinkSynced, At, Goto, durable, files, history, directory,
            process, lease, bounds
<1>5. ASSUME NEW p \in Process, Plans(p) PROVE BoundsTyped'
  <2>1. CASE PlanPublish(p)
    BY <2>1, PublicationConstants DEF PlanPublish, Plan, Transactions
  <2>2. CASE PlanManaged(p)
    BY <2>2, PublicationConstants DEF PlanManaged, Plan, Transactions
  <2>3. CASE PlanRollback(p)
    BY <2>3, PublicationConstants DEF PlanRollback, Plan, Transactions
  <2>4. CASE PlanUnpublish(p)
    BY <2>4, PublicationConstants DEF PlanUnpublish, Plan, Transactions
  <2>5. CASE PlanReconcile(p)
    BY <2>5 DEF PlanReconcile, Step, At, Goto, durable, files, history, directory,
             process, lease, bounds
  <2>6. CASE PlanRefused(p)
    BY <2>6 DEF PlanRefused, Return, At, Goto, durable, files, history, directory,
             process, lease, bounds
  <2> QED
    BY <1>5, <2>1, <2>2, <2>3, <2>4, <2>5, <2>6 DEF Plans
<1>6. ASSUME NEW p \in Process, Prepares(p) PROVE BoundsTyped'
  BY <1>6 DEF Prepares, CopyCandidate, Reacquire, ReacquireBusy, ArchiveIntent,
            WriteIntent, CreateCandidate, Step, MakeCandidate, Unchanged, Return,
            FreshName, At, Goto, durable, files, history, directory, process, lease,
            bounds
<1>7. ASSUME NEW p \in Process, Activates(p) PROVE BoundsTyped'
  <2>1. CASE ActivateCheck(p)
    BY <2>1 DEF ActivateCheck, Step, Return, At, Goto, durable, files, history,
             directory, process, lease, bounds
  <2>2. CASE ActivateStage(p)
    BY <2>2 DEF ActivateStage, Step, RelinkSynced, At, Goto, durable, files, history,
             directory, process, lease, bounds
  <2>3. CASE ActivateSwap(p)
    <3>1. mem[p].intent.id \in Transactions
      BY <2>3, CallUpdated, IntentParts DEF ActivateSwap, At, CallInv, Acting
    <3> QED
      BY <2>3, <3>1 DEF ActivateSwap
  <2>4. CASE ActivateVerify(p)
    BY <2>4 DEF ActivateVerify, Step, Return, At, Goto, durable, files, history,
             directory, process, lease, bounds
  <2>5. CASE ActivateUndo(p)
    BY <2>5 DEF ActivateUndo, Return, RelinkSynced, At, Goto, durable, files, history,
             directory, process, lease, bounds
  <2>6. CASE ActivateSync(p)
    BY <2>6 DEF ActivateSync, RelinkSynced, At, Goto, durable, files, history,
             directory, process, lease, bounds
  <2> QED
    BY <1>7, <2>1, <2>2, <2>3, <2>4, <2>5, <2>6 DEF Activates
<1>8. ASSUME NEW p \in Process, Registers(p) PROVE BoundsTyped'
  BY <1>8 DEF Registers, RegisterSave, RegisterCheck, RegisterInstall, RegisterCommit,
            SaveEntry, Step, Return, RelinkSynced, At, Goto, durable, files, history,
            directory, process, lease, bounds
<1>9. ASSUME NEW p \in Process, Unlinks(p) PROVE BoundsTyped'
  BY <1>9 DEF Unlinks, UnlinkCheck, Unlink, MarkRemoved, Step, Return, RelinkSynced, At,
            Goto, durable, files, history, directory, process, lease, bounds
<1>10. ASSUME NEW p \in Process, Interrupts(p) PROVE BoundsTyped'
  <2>1. CASE RecordMissing(p)
    BY <2>1 DEF RecordMissing, At, Goto, durable, files, history, directory, process,
             lease, bounds
  <2>2. CASE Crash(p)
    BY <2>2, BudgetSpent DEF Crash
  <2> QED
    BY <1>10, <2>1, <2>2 DEF Interrupts
<1>11. ASSUME Environment PROVE BoundsTyped'
  <2>1. CASE Resolve
    BY <2>1 DEF Resolve, At, Goto, durable, files, history, directory, process, lease,
             bounds
  <2>2. CASE Admit
    BY <2>2 DEF Admit, At, Goto, durable, files, history, directory, process, lease,
             bounds
  <2>3. CASE Retire
    BY <2>3 DEF Retire, At, Goto, durable, files, history, directory, process, lease,
             bounds
  <2>4. CASE SiblingCommits
    BY <2>4, BudgetSpent DEF SiblingCommits
  <2>5. CASE UserChangesLink
    BY <2>5, BudgetSpent DEF UserChangesLink
  <2>6. CASE BundleDamaged
    BY <2>6, BudgetSpent DEF BundleDamaged
  <2>7. CASE PowerFails
    BY <2>7, BudgetSpent DEF PowerFails, Undoes
  <2> QED
    BY <1>11, <2>1, <2>2, <2>3, <2>4, <2>5, <2>6, <2>7 DEF Environment
<1> QED
  BY <1>1, <1>2, <1>3, <1>4, <1>5, <1>6, <1>7, <1>8, <1>9, <1>10, <1>11, StepKinds

\* What was retained, activated or given out stays so.
LEMMA Growth == ASSUME IInv, Next, TypeOK' PROVE HistoryGrows
<1>i. BoundsTyped
  BY TypeIsParts DEF IInv
<1> USE <1>i
<1> USE PublicationConstants
<1> USE DEF HistoryGrows, BoundsTyped
<1>1. ASSUME NEW p \in Process, Begin(p) PROVE HistoryGrows
  <2>1. CASE BeginPublish(p)
    BY <2>1 DEF BeginPublish, Acquire, At, Goto, durable, files, history, directory,
             process, lease, bounds
  <2>2. CASE BeginRollback(p)
    BY <2>2 DEF BeginRollback, Acquire, At, Goto, durable, files, history, directory,
             process, lease, bounds
  <2>3. CASE BeginUnpublish(p)
    BY <2>3 DEF BeginUnpublish, Acquire, At, Goto, durable, files, history, directory,
             process, lease, bounds
  <2>4. CASE BeginReconcile(p)
    BY <2>4 DEF BeginReconcile, Acquire, At, Goto, durable, files, history, directory,
             process, lease, bounds
  <2>5. CASE BeginRegister(p)
    BY <2>5 DEF BeginRegister, Acquire, At, Goto, durable, files, history, directory,
             process, lease, bounds
  <2> QED
    BY <1>1, <2>1, <2>2, <2>3, <2>4, <2>5 DEF Begin
<1>2. ASSUME NEW p \in Process, Recovers(p) PROVE HistoryGrows
  BY <1>2 DEF Recovers, RecoverNothing, RecoverAbort, RecoverCommit, RecoverRestore,
            RecoverRefuse, Step, Decide, Return, At, Goto, durable, files, history,
            directory, process, lease, bounds
<1>3. ASSUME NEW p \in Process, Restores(p) PROVE HistoryGrows
  BY <1>3 DEF Restores, RestoreStage, RestoreSwap, RestoreSync, Step, Return,
            RelinkSynced, Relink, At, Goto, durable, files, history, directory, process,
            lease, bounds
<1>4. ASSUME NEW p \in Process, Finishes(p) PROVE HistoryGrows
  BY <1>4 DEF Finishes, FinishSave, FinishResult, FinishClearTemp, FinishClearPending,
            Return, Step, RelinkSynced, At, Goto, durable, files, history, directory,
            process, lease, bounds
<1>5. ASSUME NEW p \in Process, Plans(p) PROVE HistoryGrows
  <2>1. CASE PlanPublish(p)
    BY <2>1 DEF PlanPublish, Plan, At, Goto, durable, files, history, directory,
             process, lease, bounds, Adopted
  <2>2. CASE PlanManaged(p)
    BY <2>2 DEF PlanManaged, Plan, At, Goto, durable, files, history, directory,
             process, lease, bounds, Adopted
  <2>3. CASE PlanRollback(p)
    BY <2>3 DEF PlanRollback, Plan, At, Goto, durable, files, history, directory,
             process, lease, bounds, Adopted
  <2>4. CASE PlanUnpublish(p)
    BY <2>4 DEF PlanUnpublish, Plan, At, Goto, durable, files, history, directory,
             process, lease, bounds, Adopted
  <2>5. CASE PlanReconcile(p)
    BY <2>5 DEF PlanReconcile, Step, At, Goto, durable, files, history, directory,
             process, lease, bounds
  <2>6. CASE PlanRefused(p)
    BY <2>6 DEF PlanRefused, Return, At, Goto, durable, files, history, directory,
             process, lease, bounds
  <2> QED
    BY <1>5, <2>1, <2>2, <2>3, <2>4, <2>5, <2>6 DEF Plans
<1>6. ASSUME NEW p \in Process, Prepares(p) PROVE HistoryGrows
  BY <1>6 DEF Prepares, CopyCandidate, Reacquire, ReacquireBusy, ArchiveIntent,
            WriteIntent, CreateCandidate, Step, MakeCandidate, Unchanged, Return,
            FreshName, At, Goto, durable, files, history, directory, process, lease,
            bounds
<1>7. ASSUME NEW p \in Process, Activates(p) PROVE HistoryGrows
  BY <1>7 DEF Activates, ActivateCheck, ActivateStage, ActivateSwap, ActivateVerify,
            ActivateUndo, ActivateSync, Step, Return, RelinkSynced, Relink, At, Goto,
            durable, files, history, directory, process, lease, bounds
<1>8. ASSUME NEW p \in Process, Registers(p) PROVE HistoryGrows
  <2>1. CASE RegisterSave(p)
    BY <2>1 DEF RegisterSave, SaveEntry, At, Goto, durable, files, history, directory,
             process, lease, bounds
  <2>2. CASE RegisterCheck(p)
    BY <2>2 DEF RegisterCheck, Step, Return, At, Goto, durable, files, history,
             directory, process, lease, bounds
  <2>3. CASE RegisterInstall(p)
    BY <2>3 DEF RegisterInstall, Step, Return, RelinkSynced, At, Goto, durable, files,
             history, directory, process, lease, bounds
  <2>4. CASE RegisterCommit(p)
    BY <2>4 DEF RegisterCommit, Return, At, Goto, durable, files, history, directory,
             process, lease, bounds
  <2> QED
    BY <1>8, <2>1, <2>2, <2>3, <2>4 DEF Registers
<1>9. ASSUME NEW p \in Process, Unlinks(p) PROVE HistoryGrows
  BY <1>9 DEF Unlinks, UnlinkCheck, Unlink, MarkRemoved, Step, Return, RelinkSynced, At,
            Goto, durable, files, history, directory, process, lease, bounds
<1>10. ASSUME NEW p \in Process, Interrupts(p) PROVE HistoryGrows
  BY <1>10 DEF Interrupts, RecordMissing, Crash, Return, At, Goto, durable, files,
            history, directory, process, lease, bounds
<1>11. ASSUME Environment PROVE HistoryGrows
  BY <1>11 DEF Environment, Resolve, Admit, Retire, SiblingCommits, UserChangesLink,
            BundleDamaged, PowerFails, At, Goto, durable, files, history, directory,
            process, lease, bounds
<1> QED
  BY <1>1, <1>2, <1>3, <1>4, <1>5, <1>6, <1>7, <1>8, <1>9, <1>10, <1>11, StepKinds

\* What the user changed stays counted, and so does the death of a process.
LEMMA MeddlingStep == ASSUME IInv, Next, TypeOK' PROVE MeddlingGrows
<1>i. BoundsTyped
  BY TypeIsParts DEF IInv
<1> USE <1>i
<1> USE PublicationConstants
<1> USE DEF MeddlingGrows, Meddled, Died, BoundsTyped, Budgets
<1>1. ASSUME NEW p \in Process, Begin(p) PROVE MeddlingGrows
  BY <1>1 DEF Begin, BeginPublish, BeginRollback, BeginUnpublish, BeginReconcile,
            BeginRegister, Acquire, At, Goto, durable, files, history, directory,
            process, lease, bounds
<1>2. ASSUME NEW p \in Process, Recovers(p) PROVE MeddlingGrows
  BY <1>2 DEF Recovers, RecoverNothing, RecoverAbort, RecoverCommit, RecoverRestore,
            RecoverRefuse, Step, Decide, Return, At, Goto, durable, files, history,
            directory, process, lease, bounds
<1>3. ASSUME NEW p \in Process, Restores(p) PROVE MeddlingGrows
  BY <1>3 DEF Restores, RestoreStage, RestoreSwap, RestoreSync, Step, Return,
            RelinkSynced, Relink, At, Goto, durable, files, history, directory, process,
            lease, bounds
<1>4. ASSUME NEW p \in Process, Finishes(p) PROVE MeddlingGrows
  BY <1>4 DEF Finishes, FinishSave, FinishResult, FinishClearTemp, FinishClearPending,
            Return, Step, RelinkSynced, At, Goto, durable, files, history, directory,
            process, lease, bounds
<1>5. ASSUME NEW p \in Process, Plans(p) PROVE MeddlingGrows
  BY <1>5 DEF Plans, PlanPublish, PlanManaged, PlanRollback, PlanUnpublish,
            PlanReconcile, PlanRefused, Plan, Step, Return, At, Goto, durable, files,
            history, directory, process, lease, bounds
<1>6. ASSUME NEW p \in Process, Prepares(p) PROVE MeddlingGrows
  BY <1>6 DEF Prepares, CopyCandidate, Reacquire, ReacquireBusy, ArchiveIntent,
            WriteIntent, CreateCandidate, Step, MakeCandidate, Unchanged, Return,
            FreshName, At, Goto, durable, files, history, directory, process, lease,
            bounds
<1>7. ASSUME NEW p \in Process, Activates(p) PROVE MeddlingGrows
  BY <1>7 DEF Activates, ActivateCheck, ActivateStage, ActivateSwap, ActivateVerify,
            ActivateUndo, ActivateSync, Step, Return, RelinkSynced, Relink, At, Goto,
            durable, files, history, directory, process, lease, bounds
<1>8. ASSUME NEW p \in Process, Registers(p) PROVE MeddlingGrows
  BY <1>8 DEF Registers, RegisterSave, RegisterCheck, RegisterInstall, RegisterCommit,
            SaveEntry, Step, Return, RelinkSynced, At, Goto, durable, files, history,
            directory, process, lease, bounds
<1>9. ASSUME NEW p \in Process, Unlinks(p) PROVE MeddlingGrows
  BY <1>9 DEF Unlinks, UnlinkCheck, Unlink, MarkRemoved, Step, Return, RelinkSynced, At,
            Goto, durable, files, history, directory, process, lease, bounds
<1>10. ASSUME NEW p \in Process, Interrupts(p) PROVE MeddlingGrows
  BY <1>10 DEF Interrupts, RecordMissing, Crash, Return, At, Goto, durable, files,
            history, directory, process, lease, bounds
<1>11. ASSUME Environment PROVE MeddlingGrows
  BY <1>11 DEF Environment, Resolve, Admit, Retire, SiblingCommits, UserChangesLink,
            BundleDamaged, PowerFails, At, Goto, durable, files, history, directory,
            process, lease, bounds
<1> QED
  BY <1>1, <1>2, <1>3, <1>4, <1>5, <1>6, <1>7, <1>8, <1>9, <1>10, <1>11, StepKinds

\* A sibling commit costs one of its budget.
LEMMA SiblingKept == ASSUME IInv, Next, TypeOK' PROVE SiblingInv'
<1>t. /\ pc \in [Process -> Labels]
      /\ mem \in [Process -> Calls]
  BY DEF IInv, TypeOK
<1>i. SiblingInv /\ RegistryTyped /\ BoundsTyped /\ CopyInv /\ LockInv
  BY TypeIsParts DEF IInv
<1> USE <1>t, <1>i
<1> USE Names
<1> USE DEF SiblingInv, CopyInv, LockInv, Outside, Calls, RegistryTyped, Registries,
           BoundsTyped, Budgets
<1>1. ASSUME NEW p \in Process, Begin(p) PROVE SiblingInv'
  BY <1>1 DEF Begin, BeginPublish, BeginRollback, BeginUnpublish, BeginReconcile,
            BeginRegister, Acquire, At, Goto, durable, files, history, directory,
            process, lease, bounds
<1>2. ASSUME NEW p \in Process, Recovers(p) PROVE SiblingInv'
  BY <1>2 DEF Recovers, RecoverNothing, RecoverAbort, RecoverCommit, RecoverRestore,
            RecoverRefuse, Step, Decide, Return, At, Goto, durable, files, history,
            directory, process, lease, bounds
<1>3. ASSUME NEW p \in Process, Restores(p) PROVE SiblingInv'
  BY <1>3 DEF Restores, RestoreStage, RestoreSwap, RestoreSync, Step, Return,
            RelinkSynced, Relink, At, Goto, durable, files, history, directory, process,
            lease, bounds
<1>4. ASSUME NEW p \in Process, Finishes(p) PROVE SiblingInv'
  BY <1>4 DEF Finishes, FinishSave, FinishResult, FinishClearTemp, FinishClearPending,
            Return, Step, RelinkSynced, At, Goto, durable, files, history, directory,
            process, lease, bounds
<1>5. ASSUME NEW p \in Process, Plans(p) PROVE SiblingInv'
  BY <1>5 DEF Plans, PlanPublish, PlanManaged, PlanRollback, PlanUnpublish,
            PlanReconcile, PlanRefused, Plan, Step, Return, At, Goto, durable, files,
            history, directory, process, lease, bounds
<1>6. ASSUME NEW p \in Process, Prepares(p) PROVE SiblingInv'
  BY <1>6 DEF Prepares, CopyCandidate, Reacquire, ReacquireBusy, ArchiveIntent,
            WriteIntent, CreateCandidate, Step, MakeCandidate, Unchanged, Return,
            FreshName, At, Goto, durable, files, history, directory, process, lease,
            bounds
<1>7. ASSUME NEW p \in Process, Activates(p) PROVE SiblingInv'
  BY <1>7 DEF Activates, ActivateCheck, ActivateStage, ActivateSwap, ActivateVerify,
            ActivateUndo, ActivateSync, Step, Return, RelinkSynced, Relink, At, Goto,
            durable, files, history, directory, process, lease, bounds
<1>8. ASSUME NEW p \in Process, Registers(p) PROVE SiblingInv'
  <2>1. CASE RegisterSave(p)
    BY <2>1 DEF RegisterSave, SaveEntry, At, Goto, durable, files, history, directory,
             process, lease, bounds
  <2>2. CASE RegisterCheck(p)
    BY <2>2 DEF RegisterCheck, Step, Return, At, Goto, durable, files, history,
             directory, process, lease, bounds
  <2>3. CASE RegisterInstall(p)
    BY <2>3 DEF RegisterInstall, Step, Return, RelinkSynced, At, Goto, durable, files,
             history, directory, process, lease, bounds
  <2>4. CASE RegisterCommit(p)
    BY <2>4 DEF RegisterCommit, Return, At, Goto, durable, files, history, directory,
             process, lease, bounds
  <2> QED
    BY <1>8, <2>1, <2>2, <2>3, <2>4 DEF Registers
<1>9. ASSUME NEW p \in Process, Unlinks(p) PROVE SiblingInv'
  BY <1>9 DEF Unlinks, UnlinkCheck, Unlink, MarkRemoved, Step, Return, RelinkSynced, At,
            Goto, durable, files, history, directory, process, lease, bounds
<1>10. ASSUME NEW p \in Process, Interrupts(p) PROVE SiblingInv'
  BY <1>10 DEF Interrupts, RecordMissing, Crash, Return, At, Goto, durable, files,
            history, directory, process, lease, bounds
<1>11. ASSUME Environment PROVE SiblingInv'
  BY <1>11 DEF Environment, Resolve, Admit, Retire, SiblingCommits, UserChangesLink,
            BundleDamaged, PowerFails, At, Goto, durable, files, history, directory,
            process, lease, bounds
<1> QED
  BY <1>1, <1>2, <1>3, <1>4, <1>5, <1>6, <1>7, <1>8, <1>9, <1>10, <1>11, StepKinds

\* Only the holder of the lock is past taking it, and before giving it up.
LEMMA LockKept == ASSUME IInv, Next, TypeOK' PROVE LockInv'
<1>t. /\ pc \in [Process -> Labels]
      /\ mem \in [Process -> Calls]
      /\ lock \in Process \cup {None}
  BY DEF IInv, TypeOK
<1>i. LockInv
  BY DEF IInv
<1> USE <1>t, <1>i
<1> USE Names
<1> USE DEF LockInv, Outside, Labels
<1>1. ASSUME NEW p \in Process, Begin(p) PROVE LockInv'
  <2>1. CASE BeginPublish(p)
    BY <2>1 DEF BeginPublish, Acquire, At, Goto, durable, files, history, directory,
             process, lease, bounds
  <2>2. CASE BeginRollback(p)
    BY <2>2 DEF BeginRollback, Acquire, At, Goto, durable, files, history, directory,
             process, lease, bounds
  <2>3. CASE BeginUnpublish(p)
    BY <2>3 DEF BeginUnpublish, Acquire, At, Goto, durable, files, history, directory,
             process, lease, bounds
  <2>4. CASE BeginReconcile(p)
    BY <2>4 DEF BeginReconcile, Acquire, At, Goto, durable, files, history, directory,
             process, lease, bounds
  <2>5. CASE BeginRegister(p)
    BY <2>5 DEF BeginRegister, Acquire, At, Goto, durable, files, history, directory,
             process, lease, bounds
  <2> QED
    BY <1>1, <2>1, <2>2, <2>3, <2>4, <2>5 DEF Begin
<1>2. ASSUME NEW p \in Process, Recovers(p) PROVE LockInv'
  BY <1>2 DEF Recovers, RecoverNothing, RecoverAbort, RecoverCommit, RecoverRestore,
            RecoverRefuse, Step, Decide, Return, At, Goto, durable, files, history,
            directory, process, lease, bounds
<1>3. ASSUME NEW p \in Process, Restores(p) PROVE LockInv'
  BY <1>3 DEF Restores, RestoreStage, RestoreSwap, RestoreSync, Step, Return,
            RelinkSynced, Relink, At, Goto, durable, files, history, directory, process,
            lease, bounds
<1>4. ASSUME NEW p \in Process, Finishes(p) PROVE LockInv'
  BY <1>4 DEF Finishes, FinishSave, FinishResult, FinishClearTemp, FinishClearPending,
            Return, Step, RelinkSynced, At, Goto, durable, files, history, directory,
            process, lease, bounds
<1>5. ASSUME NEW p \in Process, Plans(p) PROVE LockInv'
  <2>1. CASE PlanPublish(p)
    BY <2>1 DEF PlanPublish, Plan, At, Goto, durable, files, history, directory,
             process, lease, bounds
  <2>2. CASE PlanManaged(p)
    BY <2>2 DEF PlanManaged, Plan, At, Goto, durable, files, history, directory,
             process, lease, bounds
  <2>3. CASE PlanRollback(p)
    BY <2>3 DEF PlanRollback, Plan, At, Goto, durable, files, history, directory,
             process, lease, bounds
  <2>4. CASE PlanUnpublish(p)
    BY <2>4 DEF PlanUnpublish, Plan, At, Goto, durable, files, history, directory,
             process, lease, bounds
  <2>5. CASE PlanReconcile(p)
    BY <2>5 DEF PlanReconcile, Step, At, Goto, durable, files, history, directory,
             process, lease, bounds
  <2>6. CASE PlanRefused(p)
    BY <2>6 DEF PlanRefused, Return, At, Goto, durable, files, history, directory,
             process, lease, bounds
  <2> QED
    BY <1>5, <2>1, <2>2, <2>3, <2>4, <2>5, <2>6 DEF Plans
<1>6. ASSUME NEW p \in Process, Prepares(p) PROVE LockInv'
  BY <1>6 DEF Prepares, CopyCandidate, Reacquire, ReacquireBusy, ArchiveIntent,
            WriteIntent, CreateCandidate, Step, MakeCandidate, Unchanged, Return,
            FreshName, At, Goto, durable, files, history, directory, process, lease,
            bounds
<1>7. ASSUME NEW p \in Process, Activates(p) PROVE LockInv'
  BY <1>7 DEF Activates, ActivateCheck, ActivateStage, ActivateSwap, ActivateVerify,
            ActivateUndo, ActivateSync, Step, Return, RelinkSynced, Relink, At, Goto,
            durable, files, history, directory, process, lease, bounds
<1>8. ASSUME NEW p \in Process, Registers(p) PROVE LockInv'
  <2>1. CASE RegisterSave(p)
    BY <2>1 DEF RegisterSave, SaveEntry, At, Goto, durable, files, history, directory,
             process, lease, bounds
  <2>2. CASE RegisterCheck(p)
    BY <2>2 DEF RegisterCheck, Step, Return, At, Goto, durable, files, history,
             directory, process, lease, bounds
  <2>3. CASE RegisterInstall(p)
    BY <2>3 DEF RegisterInstall, Step, Return, RelinkSynced, At, Goto, durable, files,
             history, directory, process, lease, bounds
  <2>4. CASE RegisterCommit(p)
    BY <2>4 DEF RegisterCommit, Return, At, Goto, durable, files, history, directory,
             process, lease, bounds
  <2> QED
    BY <1>8, <2>1, <2>2, <2>3, <2>4 DEF Registers
<1>9. ASSUME NEW p \in Process, Unlinks(p) PROVE LockInv'
  BY <1>9 DEF Unlinks, UnlinkCheck, Unlink, MarkRemoved, Step, Return, RelinkSynced, At,
            Goto, durable, files, history, directory, process, lease, bounds
<1>10. ASSUME NEW p \in Process, Interrupts(p) PROVE LockInv'
  BY <1>10 DEF Interrupts, RecordMissing, Crash, Return, At, Goto, durable, files,
            history, directory, process, lease, bounds
<1>11. ASSUME Environment PROVE LockInv'
  BY <1>11 DEF Environment, Resolve, Admit, Retire, SiblingCommits, UserChangesLink,
            BundleDamaged, PowerFails, At, Goto, durable, files, history, directory,
            process, lease, bounds
<1> QED
  BY <1>1, <1>2, <1>3, <1>4, <1>5, <1>6, <1>7, <1>8, <1>9, <1>10, <1>11, StepKinds

\* Nobody else writes the registry while a call holds the lock, and the call keeps its copy.
LEMMA CopyKept == ASSUME IInv, Next, TypeOK' PROVE CopyInv'
<1>t. /\ pc \in [Process -> Labels]
      /\ mem \in [Process -> Calls]
  BY DEF IInv, TypeOK
<1>i. LockInv /\ CopyInv /\ RegistryTyped
  BY TypeIsParts DEF IInv
<1> USE <1>t, <1>i
<1> USE Names
<1> USE DEF CopyInv, LockInv, Outside, Calls, RegistryTyped, Registries
<1>1. ASSUME NEW p \in Process, Begin(p) PROVE CopyInv'
  <2>1. CASE BeginPublish(p)
    BY <2>1 DEF BeginPublish, Acquire, At, Goto, durable, files, history, directory,
             process, lease, bounds
  <2>2. CASE BeginRollback(p)
    BY <2>2 DEF BeginRollback, Acquire, At, Goto, durable, files, history, directory,
             process, lease, bounds
  <2>3. CASE BeginUnpublish(p)
    BY <2>3 DEF BeginUnpublish, Acquire, At, Goto, durable, files, history, directory,
             process, lease, bounds
  <2>4. CASE BeginReconcile(p)
    BY <2>4 DEF BeginReconcile, Acquire, At, Goto, durable, files, history, directory,
             process, lease, bounds
  <2>5. CASE BeginRegister(p)
    BY <2>5 DEF BeginRegister, Acquire, At, Goto, durable, files, history, directory,
             process, lease, bounds
  <2> QED
    BY <1>1, <2>1, <2>2, <2>3, <2>4, <2>5 DEF Begin
<1>2. ASSUME NEW p \in Process, Recovers(p) PROVE CopyInv'
  BY <1>2 DEF Recovers, RecoverNothing, RecoverAbort, RecoverCommit, RecoverRestore,
            RecoverRefuse, Step, Decide, Return, At, Goto, durable, files, history,
            directory, process, lease, bounds
<1>3. ASSUME NEW p \in Process, Restores(p) PROVE CopyInv'
  BY <1>3 DEF Restores, RestoreStage, RestoreSwap, RestoreSync, Step, Return,
            RelinkSynced, Relink, At, Goto, durable, files, history, directory, process,
            lease, bounds
<1>4. ASSUME NEW p \in Process, Finishes(p) PROVE CopyInv'
  BY <1>4 DEF Finishes, FinishSave, FinishResult, FinishClearTemp, FinishClearPending,
            Return, Step, RelinkSynced, At, Goto, durable, files, history, directory,
            process, lease, bounds
<1>5. ASSUME NEW p \in Process, Plans(p) PROVE CopyInv'
  <2>1. CASE PlanPublish(p)
    BY <2>1 DEF PlanPublish, Plan, At, Goto, durable, files, history, directory,
             process, lease, bounds
  <2>2. CASE PlanManaged(p)
    BY <2>2 DEF PlanManaged, Plan, At, Goto, durable, files, history, directory,
             process, lease, bounds
  <2>3. CASE PlanRollback(p)
    BY <2>3 DEF PlanRollback, Plan, At, Goto, durable, files, history, directory,
             process, lease, bounds
  <2>4. CASE PlanUnpublish(p)
    BY <2>4 DEF PlanUnpublish, Plan, At, Goto, durable, files, history, directory,
             process, lease, bounds
  <2>5. CASE PlanReconcile(p)
    BY <2>5 DEF PlanReconcile, Step, At, Goto, durable, files, history, directory,
             process, lease, bounds
  <2>6. CASE PlanRefused(p)
    BY <2>6 DEF PlanRefused, Return, At, Goto, durable, files, history, directory,
             process, lease, bounds
  <2> QED
    BY <1>5, <2>1, <2>2, <2>3, <2>4, <2>5, <2>6 DEF Plans
<1>6. ASSUME NEW p \in Process, Prepares(p) PROVE CopyInv'
  BY <1>6 DEF Prepares, CopyCandidate, Reacquire, ReacquireBusy, ArchiveIntent,
            WriteIntent, CreateCandidate, Step, MakeCandidate, Unchanged, Return,
            FreshName, At, Goto, durable, files, history, directory, process, lease,
            bounds
<1>7. ASSUME NEW p \in Process, Activates(p) PROVE CopyInv'
  BY <1>7 DEF Activates, ActivateCheck, ActivateStage, ActivateSwap, ActivateVerify,
            ActivateUndo, ActivateSync, Step, Return, RelinkSynced, Relink, At, Goto,
            durable, files, history, directory, process, lease, bounds
<1>8. ASSUME NEW p \in Process, Registers(p) PROVE CopyInv'
  <2>1. CASE RegisterSave(p)
    BY <2>1 DEF RegisterSave, SaveEntry, At, Goto, durable, files, history, directory,
             process, lease, bounds
  <2>2. CASE RegisterCheck(p)
    BY <2>2 DEF RegisterCheck, Step, Return, At, Goto, durable, files, history,
             directory, process, lease, bounds
  <2>3. CASE RegisterInstall(p)
    BY <2>3 DEF RegisterInstall, Step, Return, RelinkSynced, At, Goto, durable, files,
             history, directory, process, lease, bounds
  <2>4. CASE RegisterCommit(p)
    BY <2>4 DEF RegisterCommit, Return, At, Goto, durable, files, history, directory,
             process, lease, bounds
  <2> QED
    BY <1>8, <2>1, <2>2, <2>3, <2>4 DEF Registers
<1>9. ASSUME NEW p \in Process, Unlinks(p) PROVE CopyInv'
  BY <1>9 DEF Unlinks, UnlinkCheck, Unlink, MarkRemoved, Step, Return, RelinkSynced, At,
            Goto, durable, files, history, directory, process, lease, bounds
<1>10. ASSUME NEW p \in Process, Interrupts(p) PROVE CopyInv'
  BY <1>10 DEF Interrupts, RecordMissing, Crash, Return, At, Goto, durable, files,
            history, directory, process, lease, bounds
<1>11. ASSUME Environment PROVE CopyInv'
  BY <1>11 DEF Environment, Resolve, Admit, Retire, SiblingCommits, UserChangesLink,
            BundleDamaged, PowerFails, At, Goto, durable, files, history, directory,
            process, lease, bounds
<1> QED
  BY <1>1, <1>2, <1>3, <1>4, <1>5, <1>6, <1>7, <1>8, <1>9, <1>10, <1>11, StepKinds

\* Every step of a call is one of its operation, and carries the intent it is about.
LEMMA CallKept == ASSUME IInv, Next, TypeOK' PROVE CallInv'
<1>t. /\ pc \in [Process -> Labels]
      /\ mem \in [Process -> Calls]
  BY DEF IInv, TypeOK
<1>i. LockInv /\ CallInv
  BY DEF IInv
<1> USE <1>t, <1>i
<1> USE Names
<1> USE DEF CallInv, LockInv, Outside, Making, Restoring, Finishing, Planned, Acting,
           Plain, Unlinking, Guarded, Calls
<1>1. ASSUME NEW p \in Process, Begin(p) PROVE CallInv'
  <2>1. CASE BeginPublish(p)
    BY <2>1 DEF BeginPublish, Acquire, At, Goto, durable, files, history, directory,
             process, lease, bounds, Idle
  <2>2. CASE BeginRollback(p)
    BY <2>2 DEF BeginRollback, Acquire, At, Goto, durable, files, history, directory,
             process, lease, bounds, Idle
  <2>3. CASE BeginUnpublish(p)
    BY <2>3 DEF BeginUnpublish, Acquire, At, Goto, durable, files, history, directory,
             process, lease, bounds, Idle
  <2>4. CASE BeginReconcile(p)
    BY <2>4 DEF BeginReconcile, Acquire, At, Goto, durable, files, history, directory,
             process, lease, bounds, Idle
  <2>5. CASE BeginRegister(p)
    BY <2>5 DEF BeginRegister, Acquire, At, Goto, durable, files, history, directory,
             process, lease, bounds, Idle
  <2> QED
    BY <1>1, <2>1, <2>2, <2>3, <2>4, <2>5 DEF Begin
<1>2. ASSUME NEW p \in Process, Recovers(p) PROVE CallInv'
  BY <1>2 DEF Recovers, RecoverNothing, RecoverAbort, RecoverCommit, RecoverRestore,
            RecoverRefuse, Step, Decide, Return, At, Goto, durable, files, history,
            directory, process, lease, bounds
<1>3. ASSUME NEW p \in Process, Restores(p) PROVE CallInv'
  BY <1>3 DEF Restores, RestoreStage, RestoreSwap, RestoreSync, Step, Return,
            RelinkSynced, Relink, At, Goto, durable, files, history, directory, process,
            lease, bounds
<1>4. ASSUME NEW p \in Process, Finishes(p) PROVE CallInv'
  BY <1>4 DEF Finishes, FinishSave, FinishResult, FinishClearTemp, FinishClearPending,
            Return, Step, RelinkSynced, At, Goto, durable, files, history, directory,
            process, lease, bounds
<1>5. ASSUME NEW p \in Process, Plans(p) PROVE CallInv'
  <2>1. CASE PlanPublish(p)
    BY <2>1 DEF PlanPublish, Plan, At, Goto, durable, files, history, directory,
             process, lease, bounds
  <2>2. CASE PlanManaged(p)
    BY <2>2 DEF PlanManaged, Plan, At, Goto, durable, files, history, directory,
             process, lease, bounds
  <2>3. CASE PlanRollback(p)
    BY <2>3 DEF PlanRollback, Plan, At, Goto, durable, files, history, directory,
             process, lease, bounds
  <2>4. CASE PlanUnpublish(p)
    BY <2>4 DEF PlanUnpublish, Plan, At, Goto, durable, files, history, directory,
             process, lease, bounds
  <2>5. CASE PlanReconcile(p)
    BY <2>5 DEF PlanReconcile, Step, At, Goto, durable, files, history, directory,
             process, lease, bounds
  <2>6. CASE PlanRefused(p)
    BY <2>6 DEF PlanRefused, Return, At, Goto, durable, files, history, directory,
             process, lease, bounds
  <2> QED
    BY <1>5, <2>1, <2>2, <2>3, <2>4, <2>5, <2>6 DEF Plans
<1>6. ASSUME NEW p \in Process, Prepares(p) PROVE CallInv'
  BY <1>6 DEF Prepares, CopyCandidate, Reacquire, ReacquireBusy, ArchiveIntent,
            WriteIntent, CreateCandidate, Step, MakeCandidate, Unchanged, Return,
            FreshName, At, Goto, durable, files, history, directory, process, lease,
            bounds
<1>7. ASSUME NEW p \in Process, Activates(p) PROVE CallInv'
  BY <1>7 DEF Activates, ActivateCheck, ActivateStage, ActivateSwap, ActivateVerify,
            ActivateUndo, ActivateSync, Step, Return, RelinkSynced, Relink, At, Goto,
            durable, files, history, directory, process, lease, bounds
<1>8. ASSUME NEW p \in Process, Registers(p) PROVE CallInv'
  <2>1. CASE RegisterSave(p)
    BY <2>1 DEF RegisterSave, SaveEntry, At, Goto, durable, files, history, directory,
             process, lease, bounds
  <2>2. CASE RegisterCheck(p)
    BY <2>2 DEF RegisterCheck, Step, Return, At, Goto, durable, files, history,
             directory, process, lease, bounds
  <2>3. CASE RegisterInstall(p)
    BY <2>3 DEF RegisterInstall, Step, Return, RelinkSynced, At, Goto, durable, files,
             history, directory, process, lease, bounds
  <2>4. CASE RegisterCommit(p)
    BY <2>4 DEF RegisterCommit, Return, At, Goto, durable, files, history, directory,
             process, lease, bounds
  <2> QED
    BY <1>8, <2>1, <2>2, <2>3, <2>4 DEF Registers
<1>9. ASSUME NEW p \in Process, Unlinks(p) PROVE CallInv'
  BY <1>9 DEF Unlinks, UnlinkCheck, Unlink, MarkRemoved, Step, Return, RelinkSynced, At,
            Goto, durable, files, history, directory, process, lease, bounds
<1>10. ASSUME NEW p \in Process, Interrupts(p) PROVE CallInv'
  BY <1>10 DEF Interrupts, RecordMissing, Crash, Return, At, Goto, durable, files,
            history, directory, process, lease, bounds
<1>11. ASSUME Environment PROVE CallInv'
  BY <1>11 DEF Environment, Resolve, Admit, Retire, SiblingCommits, UserChangesLink,
            BundleDamaged, PowerFails, At, Goto, durable, files, history, directory,
            process, lease, bounds
<1> QED
  BY <1>1, <1>2, <1>3, <1>4, <1>5, <1>6, <1>7, <1>8, <1>9, <1>10, <1>11, StepKinds

\* A call of its own keeps its plan.
LEMMA PlanKept == ASSUME IInv, Next, TypeOK' PROVE PlanInv'
<1>t. /\ pc \in [Process -> Labels]
      /\ mem \in [Process -> Calls]
  BY DEF IInv, TypeOK
<1>i. LockInv /\ CallInv /\ PlanInv /\ CopyInv
  BY DEF IInv
<1> USE <1>t, <1>i
<1> USE Names
<1> USE DEF PlanInv, CallInv, LockInv, CopyInv, Outside, Making, Restoring, Finishing,
           Planned, Acting, Plain, Unlinking, Guarded, Calls
<1>1. ASSUME NEW p \in Process, Begin(p) PROVE PlanInv'
  <2>1. CASE BeginPublish(p)
    BY <2>1 DEF BeginPublish, Acquire, At, Goto, durable, files, history, directory,
             process, lease, bounds, Idle
  <2>2. CASE BeginRollback(p)
    BY <2>2 DEF BeginRollback, Acquire, At, Goto, durable, files, history, directory,
             process, lease, bounds, Idle
  <2>3. CASE BeginUnpublish(p)
    BY <2>3 DEF BeginUnpublish, Acquire, At, Goto, durable, files, history, directory,
             process, lease, bounds, Idle
  <2>4. CASE BeginReconcile(p)
    BY <2>4 DEF BeginReconcile, Acquire, At, Goto, durable, files, history, directory,
             process, lease, bounds, Idle
  <2>5. CASE BeginRegister(p)
    BY <2>5 DEF BeginRegister, Acquire, At, Goto, durable, files, history, directory,
             process, lease, bounds, Idle
  <2> QED
    BY <1>1, <2>1, <2>2, <2>3, <2>4, <2>5 DEF Begin
<1>2. ASSUME NEW p \in Process, Recovers(p) PROVE PlanInv'
  BY <1>2 DEF Recovers, RecoverNothing, RecoverAbort, RecoverCommit, RecoverRestore,
            RecoverRefuse, Step, Decide, Return, Idle, At, Goto, durable, files,
            history, directory, process, lease, bounds
<1>3. ASSUME NEW p \in Process, Restores(p) PROVE PlanInv'
  BY <1>3 DEF Restores, RestoreStage, RestoreSwap, RestoreSync, Step, Return,
            RelinkSynced, Idle, Relink, At, Goto, durable, files, history, directory,
            process, lease, bounds
<1>4. ASSUME NEW p \in Process, Finishes(p) PROVE PlanInv'
  <2>1. CASE FinishSave(p)
    BY <2>1 DEF FinishSave, Return, At, Goto, durable, files, history, directory,
             process, lease, bounds, Idle
  <2>2. CASE FinishResult(p)
    BY <2>2 DEF FinishResult, Step, At, Goto, durable, files, history, directory,
             process, lease, bounds
  <2>3. CASE FinishClearTemp(p)
    BY <2>3 DEF FinishClearTemp, Step, Return, RelinkSynced, At, Goto, durable, files,
             history, directory, process, lease, bounds, Idle
  <2>4. CASE FinishClearPending(p)
    BY <2>4 DEF FinishClearPending, Return, At, Goto, durable, files, history,
             directory, process, lease, bounds, Idle
  <2> QED
    BY <1>4, <2>1, <2>2, <2>3, <2>4 DEF Finishes
<1>5. ASSUME NEW p \in Process, Plans(p) PROVE PlanInv'
  <2>1. CASE PlanPublish(p)
    BY <2>1 DEF PlanPublish, Plan, At, Goto, durable, files, history, directory,
             process, lease, bounds, NewIntent
  <2>2. CASE PlanManaged(p)
    BY <2>2 DEF PlanManaged, Plan, At, Goto, durable, files, history, directory,
             process, lease, bounds, NewIntent
  <2>3. CASE PlanRollback(p)
    BY <2>3 DEF PlanRollback, Plan, At, Goto, durable, files, history, directory,
             process, lease, bounds, NewIntent
  <2>4. CASE PlanUnpublish(p)
    BY <2>4 DEF PlanUnpublish, Plan, At, Goto, durable, files, history, directory,
             process, lease, bounds, NewIntent
  <2>5. CASE PlanReconcile(p)
    BY <2>5 DEF PlanReconcile, Step, At, Goto, durable, files, history, directory,
             process, lease, bounds
  <2>6. CASE PlanRefused(p)
    BY <2>6 DEF PlanRefused, Return, At, Goto, durable, files, history, directory,
             process, lease, bounds, Idle
  <2> QED
    BY <1>5, <2>1, <2>2, <2>3, <2>4, <2>5, <2>6 DEF Plans
<1>6. ASSUME NEW p \in Process, Prepares(p) PROVE PlanInv'
  BY <1>6 DEF Prepares, CopyCandidate, Reacquire, ReacquireBusy, ArchiveIntent,
            WriteIntent, CreateCandidate, Step, MakeCandidate, Unchanged, Return, Idle,
            FreshName, At, Goto, durable, files, history, directory, process, lease,
            bounds
<1>7. ASSUME NEW p \in Process, Activates(p) PROVE PlanInv'
  BY <1>7 DEF Activates, ActivateCheck, ActivateStage, ActivateSwap, ActivateVerify,
            ActivateUndo, ActivateSync, Step, Return, Idle, RelinkSynced, Relink, At,
            Goto, durable, files, history, directory, process, lease, bounds
<1>8. ASSUME NEW p \in Process, Registers(p) PROVE PlanInv'
  <2>1. CASE RegisterSave(p)
    BY <2>1 DEF RegisterSave, SaveEntry, At, Goto, durable, files, history, directory,
             process, lease, bounds
  <2>2. CASE RegisterCheck(p)
    BY <2>2 DEF RegisterCheck, Step, Return, At, Goto, durable, files, history,
             directory, process, lease, bounds, Idle
  <2>3. CASE RegisterInstall(p)
    BY <2>3 DEF RegisterInstall, Step, Return, RelinkSynced, At, Goto, durable, files,
             history, directory, process, lease, bounds, Idle
  <2>4. CASE RegisterCommit(p)
    BY <2>4 DEF RegisterCommit, Return, At, Goto, durable, files, history, directory,
             process, lease, bounds, Idle
  <2> QED
    BY <1>8, <2>1, <2>2, <2>3, <2>4 DEF Registers
<1>9. ASSUME NEW p \in Process, Unlinks(p) PROVE PlanInv'
  BY <1>9 DEF Unlinks, UnlinkCheck, Unlink, MarkRemoved, Step, Return, Idle,
            RelinkSynced, At, Goto, durable, files, history, directory, process, lease,
            bounds
<1>10. ASSUME NEW p \in Process, Interrupts(p) PROVE PlanInv'
  BY <1>10 DEF Interrupts, RecordMissing, Crash, Return, Idle, At, Goto, durable, files,
            history, directory, process, lease, bounds
<1>11. ASSUME Environment PROVE PlanInv'
  BY <1>11 DEF Environment, Resolve, Admit, Retire, SiblingCommits, UserChangesLink,
            BundleDamaged, PowerFails, Idle, At, Goto, durable, files, history,
            directory, process, lease, bounds
<1> QED
  BY <1>1, <1>2, <1>3, <1>4, <1>5, <1>6, <1>7, <1>8, <1>9, <1>10, <1>11, StepKinds

\* The outcome is decided before a call finishes; the older operations see no managed entry.
LEMMA OutcomeKept == ASSUME IInv, Next, TypeOK' PROVE OutcomeInv'
<1>t. /\ pc \in [Process -> Labels]
      /\ mem \in [Process -> Calls]
  BY DEF IInv, TypeOK
<1>i. LockInv /\ CallInv /\ OutcomeInv /\ CopyInv /\ RegistryTyped /\ EntryInv
  BY TypeIsParts DEF IInv
<1> USE <1>t, <1>i
<1> USE Names
<1> USE DEF OutcomeInv, CallInv, LockInv, CopyInv, RegistryTyped, Registries, Outside,
           Making, Restoring, Finishing, Planned, Acting, Plain, Unlinking, Guarded,
           Calls
<1>1. ASSUME NEW p \in Process, Begin(p) PROVE OutcomeInv'
  <2>1. CASE BeginPublish(p)
    BY <2>1 DEF BeginPublish, Acquire, At, Goto, durable, files, history, directory,
             process, lease, bounds, Idle
  <2>2. CASE BeginRollback(p)
    BY <2>2 DEF BeginRollback, Acquire, At, Goto, durable, files, history, directory,
             process, lease, bounds, Idle
  <2>3. CASE BeginUnpublish(p)
    BY <2>3 DEF BeginUnpublish, Acquire, At, Goto, durable, files, history, directory,
             process, lease, bounds, Idle
  <2>4. CASE BeginReconcile(p)
    BY <2>4 DEF BeginReconcile, Acquire, At, Goto, durable, files, history, directory,
             process, lease, bounds, Idle
  <2>5. CASE BeginRegister(p)
    BY <2>5 DEF BeginRegister, Acquire, At, Goto, durable, files, history, directory,
             process, lease, bounds, Idle
  <2> QED
    BY <1>1, <2>1, <2>2, <2>3, <2>4, <2>5 DEF Begin
<1>2. ASSUME NEW p \in Process, Recovers(p) PROVE OutcomeInv'
  BY <1>2 DEF Recovers, RecoverNothing, RecoverAbort, RecoverCommit, RecoverRestore,
            RecoverRefuse, Step, Decide, Return, Idle, At, Goto, durable, files,
            history, directory, process, lease, bounds
<1>3. ASSUME NEW p \in Process, Restores(p) PROVE OutcomeInv'
  BY <1>3 DEF Restores, RestoreStage, RestoreSwap, RestoreSync, Step, Return,
            RelinkSynced, Idle, Relink, At, Goto, durable, files, history, directory,
            process, lease, bounds
<1>4. ASSUME NEW p \in Process, Finishes(p) PROVE OutcomeInv'
  BY <1>4 DEF Finishes, FinishSave, FinishResult, FinishClearTemp, FinishClearPending,
            Return, Idle, Step, RelinkSynced, At, Goto, durable, files, history,
            directory, process, lease, bounds
<1>5. ASSUME NEW p \in Process, Plans(p) PROVE OutcomeInv'
  <2>1. CASE PlanPublish(p)
    BY <2>1 DEF PlanPublish, Plan, At, Goto, durable, files, history, directory,
             process, lease, bounds
  <2>2. CASE PlanManaged(p)
    BY <2>2 DEF PlanManaged, Plan, At, Goto, durable, files, history, directory,
             process, lease, bounds
  <2>3. CASE PlanRollback(p)
    BY <2>3 DEF PlanRollback, Plan, At, Goto, durable, files, history, directory,
             process, lease, bounds
  <2>4. CASE PlanUnpublish(p)
    BY <2>4 DEF PlanUnpublish, Plan, At, Goto, durable, files, history, directory,
             process, lease, bounds
  <2>5. CASE PlanReconcile(p)
    BY <2>5 DEF PlanReconcile, Step, At, Goto, durable, files, history, directory,
             process, lease, bounds, EntryInv, Known
  <2>6. CASE PlanRefused(p)
    BY <2>6 DEF PlanRefused, Return, At, Goto, durable, files, history, directory,
             process, lease, bounds, Idle
  <2> QED
    BY <1>5, <2>1, <2>2, <2>3, <2>4, <2>5, <2>6 DEF Plans
<1>6. ASSUME NEW p \in Process, Prepares(p) PROVE OutcomeInv'
  BY <1>6 DEF Prepares, CopyCandidate, Reacquire, ReacquireBusy, ArchiveIntent,
            WriteIntent, CreateCandidate, Step, MakeCandidate, Unchanged, Return, Idle,
            FreshName, At, Goto, durable, files, history, directory, process, lease,
            bounds
<1>7. ASSUME NEW p \in Process, Activates(p) PROVE OutcomeInv'
  BY <1>7 DEF Activates, ActivateCheck, ActivateStage, ActivateSwap, ActivateVerify,
            ActivateUndo, ActivateSync, Step, Return, Idle, RelinkSynced, Relink, At,
            Goto, durable, files, history, directory, process, lease, bounds
<1>8. ASSUME NEW p \in Process, Registers(p) PROVE OutcomeInv'
  BY <1>8 DEF Registers, RegisterSave, RegisterCheck, RegisterInstall, RegisterCommit,
            SaveEntry, Entry, Step, Return, Idle, RelinkSynced, At, Goto, durable,
            files, history, directory, process, lease, bounds
<1>9. ASSUME NEW p \in Process, Unlinks(p) PROVE OutcomeInv'
  BY <1>9 DEF Unlinks, UnlinkCheck, Unlink, MarkRemoved, Step, Return, Idle,
            RelinkSynced, At, Goto, durable, files, history, directory, process, lease,
            bounds
<1>10. ASSUME NEW p \in Process, Interrupts(p) PROVE OutcomeInv'
  BY <1>10 DEF Interrupts, RecordMissing, Crash, Return, Idle, At, Goto, durable, files,
            history, directory, process, lease, bounds
<1>11. ASSUME Environment PROVE OutcomeInv'
  BY <1>11 DEF Environment, Resolve, Admit, Retire, SiblingCommits, UserChangesLink,
            BundleDamaged, PowerFails, Idle, At, Goto, durable, files, history,
            directory, process, lease, bounds
<1> QED
  BY <1>1, <1>2, <1>3, <1>4, <1>5, <1>6, <1>7, <1>8, <1>9, <1>10, <1>11, StepKinds

\* What FinishSave wrote stays until the call has cleared its intent.
LEMMA SavedKept == ASSUME IInv, Next, TypeOK' PROVE SavedInv'
<1>t. /\ pc \in [Process -> Labels]
      /\ mem \in [Process -> Calls]
  BY DEF IInv, TypeOK
<1>i. LockInv /\ CallInv /\ SavedInv /\ CopyInv /\ RegistryTyped
  BY TypeIsParts DEF IInv
<1> USE <1>t, <1>i
<1> USE Names
<1> USE DEF SavedInv, CallInv, LockInv, CopyInv, RegistryTyped, Registries, Saved,
           Finished, Entry, Outside, Making, Restoring, Finishing, Planned, Acting,
           Plain, Unlinking, Guarded, Calls
<1>1. ASSUME NEW p \in Process, Begin(p) PROVE SavedInv'
  <2>1. CASE BeginPublish(p)
    BY <2>1 DEF BeginPublish, Acquire, At, Goto, durable, files, history, directory,
             process, lease, bounds, Idle
  <2>2. CASE BeginRollback(p)
    BY <2>2 DEF BeginRollback, Acquire, At, Goto, durable, files, history, directory,
             process, lease, bounds, Idle
  <2>3. CASE BeginUnpublish(p)
    BY <2>3 DEF BeginUnpublish, Acquire, At, Goto, durable, files, history, directory,
             process, lease, bounds, Idle
  <2>4. CASE BeginReconcile(p)
    BY <2>4 DEF BeginReconcile, Acquire, At, Goto, durable, files, history, directory,
             process, lease, bounds, Idle
  <2>5. CASE BeginRegister(p)
    BY <2>5 DEF BeginRegister, Acquire, At, Goto, durable, files, history, directory,
             process, lease, bounds, Idle
  <2> QED
    BY <1>1, <2>1, <2>2, <2>3, <2>4, <2>5 DEF Begin
<1>2. ASSUME NEW p \in Process, Recovers(p) PROVE SavedInv'
  BY <1>2 DEF Recovers, RecoverNothing, RecoverAbort, RecoverCommit, RecoverRestore,
            RecoverRefuse, Step, Decide, Return, Idle, At, Goto, durable, files,
            history, directory, process, lease, bounds
<1>3. ASSUME NEW p \in Process, Restores(p) PROVE SavedInv'
  BY <1>3 DEF Restores, RestoreStage, RestoreSwap, RestoreSync, Step, Return,
            RelinkSynced, Idle, Relink, At, Goto, durable, files, history, directory,
            process, lease, bounds
<1>4. ASSUME NEW p \in Process, Finishes(p) PROVE SavedInv'
  <2>1. CASE FinishSave(p)
    <3>1. CASE Return(p)
      BY <2>1, <3>1 DEF FinishSave, Return, At, Goto
    <3>2. CASE /\ registry' = [mem[p].db EXCEPT !.entry = Finished(mem[p].intent, mem[p].outcome)]
               /\ mem' = [mem EXCEPT ![p].db = registry']
               /\ Goto(p, "result")
      <4>1. registry'.entry = Finished(mem[p].intent, mem[p].outcome)
        BY <3>2
      <4>2. /\ mem'[p].intent = mem[p].intent /\ mem'[p].outcome = mem[p].outcome
            /\ \A q \in Process \ {p} : pc'[q] = pc[q] /\ pc[q] \in Outside
        BY <2>1, <3>2 DEF FinishSave, At, Goto
      <4>3. SUFFICES ASSUME NEW q \in Process, q = p
                     PROVE  registry'.entry = Finished(mem'[q].intent, mem'[q].outcome)
        BY <4>2
      <4> QED
        BY ONLY <4>1, <4>2, <4>3
    <3> QED
      BY <2>1, <3>1, <3>2 DEF FinishSave
  <2>2. CASE FinishResult(p)
    BY <2>2 DEF FinishResult, Step, At, Goto, durable, files, history, directory,
             process, lease, bounds
  <2>3. CASE FinishClearTemp(p)
    BY <2>3 DEF FinishClearTemp, Step, Return, RelinkSynced, At, Goto, durable, files,
             history, directory, process, lease, bounds, Idle
  <2>4. CASE FinishClearPending(p)
    BY <2>4 DEF FinishClearPending, Return, At, Goto, durable, files, history,
             directory, process, lease, bounds, Idle
  <2> QED
    BY <1>4, <2>1, <2>2, <2>3, <2>4 DEF Finishes
<1>5. ASSUME NEW p \in Process, Plans(p) PROVE SavedInv'
  <2>1. CASE PlanPublish(p)
    BY <2>1 DEF PlanPublish, Plan, At, Goto, durable, files, history, directory,
             process, lease, bounds
  <2>2. CASE PlanManaged(p)
    BY <2>2 DEF PlanManaged, Plan, At, Goto, durable, files, history, directory,
             process, lease, bounds
  <2>3. CASE PlanRollback(p)
    BY <2>3 DEF PlanRollback, Plan, At, Goto, durable, files, history, directory,
             process, lease, bounds
  <2>4. CASE PlanUnpublish(p)
    BY <2>4 DEF PlanUnpublish, Plan, At, Goto, durable, files, history, directory,
             process, lease, bounds
  <2>5. CASE PlanReconcile(p)
    BY <2>5 DEF PlanReconcile, Step, At, Goto, durable, files, history, directory,
             process, lease, bounds
  <2>6. CASE PlanRefused(p)
    BY <2>6 DEF PlanRefused, Return, At, Goto, durable, files, history, directory,
             process, lease, bounds, Idle
  <2> QED
    BY <1>5, <2>1, <2>2, <2>3, <2>4, <2>5, <2>6 DEF Plans
<1>6. ASSUME NEW p \in Process, Prepares(p) PROVE SavedInv'
  <2>1. CASE CopyCandidate(p)
    BY <2>1 DEF CopyCandidate, Step, MakeCandidate, At, Goto, durable, files, history,
             directory, process, lease, bounds
  <2>2. CASE Reacquire(p)
    BY <2>2 DEF Reacquire, Unchanged, Return, At, Goto, durable, files, history,
             directory, process, lease, bounds, Idle
  <2>3. CASE ReacquireBusy(p)
    BY <2>3 DEF ReacquireBusy, Return, At, Goto, durable, files, history, directory,
             process, lease, bounds, Idle
  <2>4. CASE ArchiveIntent(p)
    BY <2>4 DEF ArchiveIntent, Step, At, Goto, durable, files, history, directory,
             process, lease, bounds
  <2>5. CASE WriteIntent(p)
    BY <2>5 DEF WriteIntent, Step, FreshName, At, Goto, durable, files, history,
             directory, process, lease, bounds
  <2>6. CASE CreateCandidate(p)
    BY <2>6 DEF CreateCandidate, Step, MakeCandidate, At, Goto, durable, files, history,
             directory, process, lease, bounds
  <2> QED
    BY <1>6, <2>1, <2>2, <2>3, <2>4, <2>5, <2>6 DEF Prepares
<1>7. ASSUME NEW p \in Process, Activates(p) PROVE SavedInv'
  BY <1>7 DEF Activates, ActivateCheck, ActivateStage, ActivateSwap, ActivateVerify,
            ActivateUndo, ActivateSync, Step, Return, Idle, RelinkSynced, Relink, At,
            Goto, durable, files, history, directory, process, lease, bounds
<1>8. ASSUME NEW p \in Process, Registers(p) PROVE SavedInv'
  BY <1>8 DEF Registers, RegisterSave, RegisterCheck, RegisterInstall, RegisterCommit,
            SaveEntry, Step, Return, Idle, RelinkSynced, At, Goto, durable, files,
            history, directory, process, lease, bounds
<1>9. ASSUME NEW p \in Process, Unlinks(p) PROVE SavedInv'
  BY <1>9 DEF Unlinks, UnlinkCheck, Unlink, MarkRemoved, Step, Return, Idle,
            RelinkSynced, At, Goto, durable, files, history, directory, process, lease,
            bounds
<1>10. ASSUME NEW p \in Process, Interrupts(p) PROVE SavedInv'
  <2>1. CASE RecordMissing(p)
    BY <2>1 DEF RecordMissing, At, Goto, durable, files, history, directory, process,
             lease, bounds
  <2>2. CASE Crash(p)
    BY <2>2 DEF Crash, Return, At, Goto, durable, files, history, directory, process,
             lease, bounds, Idle
  <2> QED
    BY <1>10, <2>1, <2>2 DEF Interrupts
<1>11. ASSUME Environment PROVE SavedInv'
  <2>1. CASE Resolve
    BY <2>1 DEF Resolve, At, Goto, durable, files, history, directory, process, lease,
             bounds
  <2>2. CASE Admit
    BY <2>2 DEF Admit, At, Goto, durable, files, history, directory, process, lease,
             bounds
  <2>3. CASE Retire
    BY <2>3 DEF Retire, At, Goto, durable, files, history, directory, process, lease,
             bounds
  <2>4. CASE SiblingCommits
    BY <2>4 DEF SiblingCommits, At, Goto, durable, files, history, directory, process,
             lease, bounds
  <2>5. CASE UserChangesLink
    BY <2>5 DEF UserChangesLink, At, Goto, durable, files, history, directory, process,
             lease, bounds
  <2>6. CASE BundleDamaged
    BY <2>6 DEF BundleDamaged, At, Goto, durable, files, history, directory, process,
             lease, bounds
  <2>7. CASE PowerFails
    BY <2>7 DEF PowerFails, At, Goto, durable, files, history, directory, process,
             lease, bounds, Idle
  <2> QED
    BY <1>11, <2>1, <2>2, <2>3, <2>4, <2>5, <2>6, <2>7 DEF Environment
<1> QED
  BY <1>1, <1>2, <1>3, <1>4, <1>5, <1>6, <1>7, <1>8, <1>9, <1>10, <1>11, StepKinds

\* No save leaves an entry behind that stands for a revision never activated.
LEMMA EntryKept == ASSUME IInv, Next, TypeOK' PROVE EntryInv'
<1>t. /\ pc \in [Process -> Labels]
      /\ mem \in [Process -> Calls]
  BY DEF IInv, TypeOK
<1>i. LockInv /\ CopyInv /\ EntryInv /\ SoundInv /\ ActiveInv /\ CallInv /\ OutcomeInv /\
          RegistryTyped /\ FilesTyped
  BY TypeIsParts DEF IInv
<1> USE <1>t, <1>i
<1> USE Names
<1> USE DEF EntryInv, CopyInv, LockInv, Outside, Calls, RegistryTyped, Registries,
           Entries, FilesTyped, Known, Proven
<1>1. ASSUME NEW p \in Process, Begin(p) PROVE EntryInv'
  BY <1>1 DEF Begin, BeginPublish, BeginRollback, BeginUnpublish, BeginReconcile,
            BeginRegister, Acquire, At, Goto, durable, files, history, directory,
            process, lease, bounds
<1>2. ASSUME NEW p \in Process, Recovers(p) PROVE EntryInv'
  BY <1>2 DEF Recovers, RecoverNothing, RecoverAbort, RecoverCommit, RecoverRestore,
            RecoverRefuse, Step, Decide, Return, At, Goto, durable, files, history,
            directory, process, lease, bounds
<1>3. ASSUME NEW p \in Process, Restores(p) PROVE EntryInv'
  BY <1>3 DEF Restores, RestoreStage, RestoreSwap, RestoreSync, Step, Return,
            RelinkSynced, Relink, At, Goto, durable, files, history, directory, process,
            lease, bounds
<1>4. ASSUME NEW p \in Process, Finishes(p) PROVE EntryInv'
  <2>1. CASE FinishSave(p)
    <3>1. CASE UNCHANGED registry
      BY <3>1, <2>1 DEF FinishSave, bounds
    <3>2. CASE registry' = [mem[p].db EXCEPT !.entry = Finished(mem[p].intent, mem[p].outcome)]
      <4>1. /\ mem[p].intent # None /\ Sound(mem[p].intent) /\ mem[p].intent \in Intents
            /\ mem[p].outcome \in {"committed", "aborted"}
            /\ mem[p].outcome = "committed" => Proven(mem[p].intent.candidate)
        BY <2>1 DEF FinishSave, At, CallInv, OutcomeInv, SoundInv, ActiveInv, Finishing
      <4>2. Known(Finished(mem[p].intent, mem[p].outcome))
        BY <4>1, IntentParts DEF Finished, Sound, Entry, Absent
      <4>3. registry'.entry = Finished(mem[p].intent, mem[p].outcome) /\ activated' = activated
        BY <3>2, <2>1 DEF FinishSave, bounds
      <4> QED
        BY ONLY <4>2, <4>3 DEF EntryInv, Known, Proven
    <3> QED
      BY <2>1, <3>1, <3>2 DEF FinishSave
  <2>2. CASE FinishResult(p)
    BY <2>2 DEF FinishResult, Step, At, Goto, durable, files, history, directory,
             process, lease, bounds
  <2>3. CASE FinishClearTemp(p)
    BY <2>3 DEF FinishClearTemp, Step, Return, RelinkSynced, At, Goto, durable, files,
             history, directory, process, lease, bounds
  <2>4. CASE FinishClearPending(p)
    BY <2>4 DEF FinishClearPending, Return, At, Goto, durable, files, history,
             directory, process, lease, bounds
  <2> QED
    BY <1>4, <2>1, <2>2, <2>3, <2>4 DEF Finishes
<1>5. ASSUME NEW p \in Process, Plans(p) PROVE EntryInv'
  BY <1>5 DEF Plans, PlanPublish, PlanManaged, PlanRollback, PlanUnpublish,
            PlanReconcile, PlanRefused, Plan, Step, Return, At, Goto, durable, files,
            history, directory, process, lease, bounds
<1>6. ASSUME NEW p \in Process, Prepares(p) PROVE EntryInv'
  BY <1>6 DEF Prepares, CopyCandidate, Reacquire, ReacquireBusy, ArchiveIntent,
            WriteIntent, CreateCandidate, Step, MakeCandidate, Unchanged, Return,
            FreshName, At, Goto, durable, files, history, directory, process, lease,
            bounds
<1>7. ASSUME NEW p \in Process, Activates(p) PROVE EntryInv'
  BY <1>7 DEF Activates, ActivateCheck, ActivateStage, ActivateSwap, ActivateVerify,
            ActivateUndo, ActivateSync, Step, Return, RelinkSynced, Relink, At, Goto,
            durable, files, history, directory, process, lease, bounds
<1>8. ASSUME NEW p \in Process, Registers(p) PROVE EntryInv'
  BY <1>8 DEF Registers, RegisterSave, RegisterCheck, RegisterInstall, RegisterCommit,
            SaveEntry, Entry, Legacy, Step, Return, RelinkSynced, At, Goto, durable,
            files, history, directory, process, lease, bounds
<1>9. ASSUME NEW p \in Process, Unlinks(p) PROVE EntryInv'
  BY <1>9 DEF Unlinks, UnlinkCheck, Unlink, MarkRemoved, Step, Return, RelinkSynced,
            OutcomeInv, Unlinking, At, Goto, durable, files, history, directory,
            process, lease, bounds
<1>10. ASSUME NEW p \in Process, Interrupts(p) PROVE EntryInv'
  <2>1. CASE RecordMissing(p)
    BY <2>1 DEF RecordMissing, At, Goto, durable, files, history, directory, process,
             lease, bounds, Absent
  <2>2. CASE Crash(p)
    BY <2>2 DEF Crash, Return, At, Goto, durable, files, history, directory, process,
             lease, bounds
  <2> QED
    BY <1>10, <2>1, <2>2 DEF Interrupts
<1>11. ASSUME Environment PROVE EntryInv'
  BY <1>11 DEF Environment, Resolve, Admit, Retire, SiblingCommits, UserChangesLink,
            BundleDamaged, PowerFails, At, Goto, durable, files, history, directory,
            process, lease, bounds
<1> QED
  BY <1>1, <1>2, <1>3, <1>4, <1>5, <1>6, <1>7, <1>8, <1>9, <1>10, <1>11, StepKinds

\* A step takes over a copy of the registry, drops it or leaves it.
LEMMA CopiesStep == ASSUME IInv, Next, TypeOK' PROVE CopiesFollow
<1>t. /\ pc \in [Process -> Labels]
      /\ mem \in [Process -> Calls]
  BY DEF IInv, TypeOK
<1>i. RegistryTyped
  BY TypeIsParts DEF IInv
<1> USE <1>t, <1>i
<1> USE DEF CopiesFollow, Calls, RegistryTyped, Registries
<1>1. ASSUME NEW p \in Process, Begin(p) PROVE CopiesFollow
  <2>1. CASE BeginPublish(p)
    BY <2>1 DEF BeginPublish, Acquire, At, Goto, durable, files, history, directory,
             process, lease, bounds, Idle
  <2>2. CASE BeginRollback(p)
    BY <2>2 DEF BeginRollback, Acquire, At, Goto, durable, files, history, directory,
             process, lease, bounds, Idle
  <2>3. CASE BeginUnpublish(p)
    BY <2>3 DEF BeginUnpublish, Acquire, At, Goto, durable, files, history, directory,
             process, lease, bounds, Idle
  <2>4. CASE BeginReconcile(p)
    BY <2>4 DEF BeginReconcile, Acquire, At, Goto, durable, files, history, directory,
             process, lease, bounds, Idle
  <2>5. CASE BeginRegister(p)
    BY <2>5 DEF BeginRegister, Acquire, At, Goto, durable, files, history, directory,
             process, lease, bounds, Idle
  <2> QED
    BY <1>1, <2>1, <2>2, <2>3, <2>4, <2>5 DEF Begin
<1>2. ASSUME NEW p \in Process, Recovers(p) PROVE CopiesFollow
  BY <1>2 DEF Recovers, RecoverNothing, RecoverAbort, RecoverCommit, RecoverRestore,
            RecoverRefuse, Step, Decide, Return, Idle, At, Goto, durable, files,
            history, directory, process, lease, bounds
<1>3. ASSUME NEW p \in Process, Restores(p) PROVE CopiesFollow
  BY <1>3 DEF Restores, RestoreStage, RestoreSwap, RestoreSync, Step, Return,
            RelinkSynced, Idle, Relink, At, Goto, durable, files, history, directory,
            process, lease, bounds
<1>4. ASSUME NEW p \in Process, Finishes(p) PROVE CopiesFollow
  BY <1>4 DEF Finishes, FinishSave, FinishResult, FinishClearTemp, FinishClearPending,
            Return, Idle, Step, RelinkSynced, At, Goto, durable, files, history,
            directory, process, lease, bounds
<1>5. ASSUME NEW p \in Process, Plans(p) PROVE CopiesFollow
  <2>1. CASE PlanPublish(p)
    BY <2>1 DEF PlanPublish, Plan, At, Goto, durable, files, history, directory,
             process, lease, bounds
  <2>2. CASE PlanManaged(p)
    BY <2>2 DEF PlanManaged, Plan, At, Goto, durable, files, history, directory,
             process, lease, bounds
  <2>3. CASE PlanRollback(p)
    BY <2>3 DEF PlanRollback, Plan, At, Goto, durable, files, history, directory,
             process, lease, bounds
  <2>4. CASE PlanUnpublish(p)
    BY <2>4 DEF PlanUnpublish, Plan, At, Goto, durable, files, history, directory,
             process, lease, bounds
  <2>5. CASE PlanReconcile(p)
    BY <2>5 DEF PlanReconcile, Step, At, Goto, durable, files, history, directory,
             process, lease, bounds
  <2>6. CASE PlanRefused(p)
    BY <2>6 DEF PlanRefused, Return, At, Goto, durable, files, history, directory,
             process, lease, bounds, Idle
  <2> QED
    BY <1>5, <2>1, <2>2, <2>3, <2>4, <2>5, <2>6 DEF Plans
<1>6. ASSUME NEW p \in Process, Prepares(p) PROVE CopiesFollow
  BY <1>6 DEF Prepares, CopyCandidate, Reacquire, ReacquireBusy, ArchiveIntent,
            WriteIntent, CreateCandidate, Step, MakeCandidate, Unchanged, Return, Idle,
            FreshName, At, Goto, durable, files, history, directory, process, lease,
            bounds
<1>7. ASSUME NEW p \in Process, Activates(p) PROVE CopiesFollow
  BY <1>7 DEF Activates, ActivateCheck, ActivateStage, ActivateSwap, ActivateVerify,
            ActivateUndo, ActivateSync, Step, Return, Idle, RelinkSynced, Relink, At,
            Goto, durable, files, history, directory, process, lease, bounds
<1>8. ASSUME NEW p \in Process, Registers(p) PROVE CopiesFollow
  <2>1. CASE RegisterSave(p)
    BY <2>1 DEF RegisterSave, SaveEntry, At, Goto, durable, files, history, directory,
             process, lease, bounds
  <2>2. CASE RegisterCheck(p)
    BY <2>2 DEF RegisterCheck, Step, Return, At, Goto, durable, files, history,
             directory, process, lease, bounds, Idle
  <2>3. CASE RegisterInstall(p)
    BY <2>3 DEF RegisterInstall, Step, Return, RelinkSynced, At, Goto, durable, files,
             history, directory, process, lease, bounds, Idle
  <2>4. CASE RegisterCommit(p)
    BY <2>4 DEF RegisterCommit, Return, At, Goto, durable, files, history, directory,
             process, lease, bounds, Idle
  <2> QED
    BY <1>8, <2>1, <2>2, <2>3, <2>4 DEF Registers
<1>9. ASSUME NEW p \in Process, Unlinks(p) PROVE CopiesFollow
  BY <1>9 DEF Unlinks, UnlinkCheck, Unlink, MarkRemoved, Step, Return, Idle,
            RelinkSynced, At, Goto, durable, files, history, directory, process, lease,
            bounds
<1>10. ASSUME NEW p \in Process, Interrupts(p) PROVE CopiesFollow
  BY <1>10 DEF Interrupts, RecordMissing, Crash, Return, Idle, At, Goto, durable, files,
            history, directory, process, lease, bounds
<1>11. ASSUME Environment PROVE CopiesFollow
  BY <1>11 DEF Environment, Resolve, Admit, Retire, SiblingCommits, UserChangesLink,
            BundleDamaged, PowerFails, Idle, At, Goto, durable, files, history,
            directory, process, lease, bounds
<1> QED
  BY <1>1, <1>2, <1>3, <1>4, <1>5, <1>6, <1>7, <1>8, <1>9, <1>10, <1>11, StepKinds

\* Every copy of the registry still holds an entry that is known.
LEMMA CopiesKept == ASSUME IInv, Next, TypeOK' PROVE CopiesInv'
<1>1. EntryInv' /\ CopiesFollow /\ HistoryGrows
  BY EntryKept, CopiesStep, Growth
<1>2. CopiesInv /\ Known(Absent)
  BY Names DEF IInv, Known, Proven, Absent
<1>3. ASSUME NEW e, Known(e) PROVE Known(e)'
  BY <1>1, <1>3 DEF Known, Proven, HistoryGrows
<1>4. SUFFICES ASSUME NEW q \in Process PROVE Known(mem[q].db.entry)'
  BY DEF CopiesInv
<1> QED
  BY <1>1, <1>2, <1>3, <1>4 DEF CopiesInv, CopiesFollow, EntryInv, Known, Proven, HistoryGrows

\* The ancestors of a new candidate are the prior's and the prior itself.
LEMMA LineageKept == ASSUME IInv, Next, TypeOK' PROVE LineageInv'
<1>t. /\ pc \in [Process -> Labels]
      /\ mem \in [Process -> Calls]
  BY DEF IInv, TypeOK
<1>i. LockInv /\ LineageInv /\ SoundInv /\ CallInv /\ PlanInv /\ HistoryTyped
  BY TypeIsParts DEF IInv
<1> USE <1>t, <1>i
<1> USE Names
<1> USE DEF LineageInv, HistoryTyped, Proven
<1>1. ASSUME NEW p \in Process, Begin(p) PROVE LineageInv'
  BY <1>1 DEF Begin, BeginPublish, BeginRollback, BeginUnpublish, BeginReconcile,
            BeginRegister, Acquire, At, Goto, durable, files, history, directory,
            process, lease, bounds
<1>2. ASSUME NEW p \in Process, Recovers(p) PROVE LineageInv'
  BY <1>2 DEF Recovers, RecoverNothing, RecoverAbort, RecoverCommit, RecoverRestore,
            RecoverRefuse, Step, Decide, Return, At, Goto, durable, files, history,
            directory, process, lease, bounds
<1>3. ASSUME NEW p \in Process, Restores(p) PROVE LineageInv'
  BY <1>3 DEF Restores, RestoreStage, RestoreSwap, RestoreSync, Step, Return,
            RelinkSynced, Relink, At, Goto, durable, files, history, directory, process,
            lease, bounds
<1>4. ASSUME NEW p \in Process, Finishes(p) PROVE LineageInv'
  BY <1>4 DEF Finishes, FinishSave, FinishResult, FinishClearTemp, FinishClearPending,
            Return, Step, RelinkSynced, At, Goto, durable, files, history, directory,
            process, lease, bounds
<1>5. ASSUME NEW p \in Process, Plans(p) PROVE LineageInv'
  BY <1>5 DEF Plans, PlanPublish, PlanManaged, PlanRollback, PlanUnpublish,
            PlanReconcile, PlanRefused, Plan, Step, Return, At, Goto, durable, files,
            history, directory, process, lease, bounds
<1>6. ASSUME NEW p \in Process, Prepares(p) PROVE LineageInv'
  <2>1. CASE CopyCandidate(p)
    <3> DEFINE i == mem[p].intent
    <3>1. i # None /\ Sound(i)
      BY <2>1 DEF CopyCandidate, At, CallInv, SoundInv, Planned, Acting
    <3>2. i.entry # Absent => i.entry.rev \in Revisions /\ Proven(i.entry.rev)
      BY <3>1 DEF Sound, Known
    <3>3. /\ lineage' = [lineage EXCEPT ![i.candidate] =
                IF i.entry = Absent THEN {} ELSE {i.entry.rev} \cup lineage[i.entry.rev]]
          /\ activated' = activated
      BY <2>1 DEF CopyCandidate, MakeCandidate, bounds
    <3> QED
      BY <3>2, <3>3
  <2>2. CASE Reacquire(p)
    BY <2>2 DEF Reacquire, Unchanged, Return, At, Goto, durable, files, history,
             directory, process, lease, bounds
  <2>3. CASE ReacquireBusy(p)
    BY <2>3 DEF ReacquireBusy, Return, At, Goto, durable, files, history, directory,
             process, lease, bounds
  <2>4. CASE ArchiveIntent(p)
    BY <2>4 DEF ArchiveIntent, Step, At, Goto, durable, files, history, directory,
             process, lease, bounds
  <2>5. CASE WriteIntent(p)
    BY <2>5 DEF WriteIntent, Step, FreshName, At, Goto, durable, files, history,
             directory, process, lease, bounds
  <2>6. CASE CreateCandidate(p)
    <3> DEFINE i == mem[p].intent
    <3>1. i # None /\ Sound(i)
      BY <2>6 DEF CreateCandidate, At, CallInv, SoundInv, Planned, Acting
    <3>2. i.entry # Absent => i.entry.rev \in Revisions /\ Proven(i.entry.rev)
      BY <3>1 DEF Sound, Known
    <3>3. /\ lineage' = [lineage EXCEPT ![i.candidate] =
                IF i.entry = Absent THEN {} ELSE {i.entry.rev} \cup lineage[i.entry.rev]]
          /\ activated' = activated
      BY <2>6 DEF CreateCandidate, MakeCandidate, bounds
    <3> QED
      BY <3>2, <3>3
  <2> QED
    BY <1>6, <2>1, <2>2, <2>3, <2>4, <2>5, <2>6 DEF Prepares
<1>7. ASSUME NEW p \in Process, Activates(p) PROVE LineageInv'
  BY <1>7 DEF Activates, ActivateCheck, ActivateStage, ActivateSwap, ActivateVerify,
            ActivateUndo, ActivateSync, Step, Return, RelinkSynced, Relink, At, Goto,
            durable, files, history, directory, process, lease, bounds
<1>8. ASSUME NEW p \in Process, Registers(p) PROVE LineageInv'
  BY <1>8 DEF Registers, RegisterSave, RegisterCheck, RegisterInstall, RegisterCommit,
            SaveEntry, Step, Return, RelinkSynced, At, Goto, durable, files, history,
            directory, process, lease, bounds
<1>9. ASSUME NEW p \in Process, Unlinks(p) PROVE LineageInv'
  BY <1>9 DEF Unlinks, UnlinkCheck, Unlink, MarkRemoved, Step, Return, RelinkSynced, At,
            Goto, durable, files, history, directory, process, lease, bounds
<1>10. ASSUME NEW p \in Process, Interrupts(p) PROVE LineageInv'
  BY <1>10 DEF Interrupts, RecordMissing, Crash, Return, At, Goto, durable, files,
            history, directory, process, lease, bounds
<1>11. ASSUME Environment PROVE LineageInv'
  BY <1>11 DEF Environment, Resolve, Admit, Retire, SiblingCommits, UserChangesLink,
            BundleDamaged, PowerFails, At, Goto, durable, files, history, directory,
            process, lease, bounds
<1> QED
  BY <1>1, <1>2, <1>3, <1>4, <1>5, <1>6, <1>7, <1>8, <1>9, <1>10, <1>11, StepKinds

\* A step takes over an intent from the disk, writes it there, makes a new one or drops it.
LEMMA IntentsStep == ASSUME IInv, Next, TypeOK' PROVE IntentsFollow
<1>t. /\ pc \in [Process -> Labels]
      /\ mem \in [Process -> Calls]
  BY DEF IInv, TypeOK
<1>i. CallInv /\ LockInv /\ CopyInv /\ EntryInv /\ LineageInv /\ HistoryTyped
  BY TypeIsParts DEF IInv
<1> USE <1>t, <1>i
<1> USE Names
<1> USE DEF IntentsFollow, Fresh, CallInv, Outside, Making, Restoring, Finishing,
           Planned, Acting, Plain, Unlinking, Guarded, Calls
<1>1. ASSUME NEW p \in Process, Begin(p) PROVE IntentsFollow
  <2>1. CASE BeginPublish(p)
    BY <2>1 DEF BeginPublish, Acquire, At, Goto, durable, files, history, directory,
             process, lease, bounds, Idle
  <2>2. CASE BeginRollback(p)
    BY <2>2 DEF BeginRollback, Acquire, At, Goto, durable, files, history, directory,
             process, lease, bounds, Idle
  <2>3. CASE BeginUnpublish(p)
    BY <2>3 DEF BeginUnpublish, Acquire, At, Goto, durable, files, history, directory,
             process, lease, bounds, Idle
  <2>4. CASE BeginReconcile(p)
    BY <2>4 DEF BeginReconcile, Acquire, At, Goto, durable, files, history, directory,
             process, lease, bounds, Idle
  <2>5. CASE BeginRegister(p)
    BY <2>5 DEF BeginRegister, Acquire, At, Goto, durable, files, history, directory,
             process, lease, bounds, Idle
  <2> QED
    BY <1>1, <2>1, <2>2, <2>3, <2>4, <2>5 DEF Begin
<1>2. ASSUME NEW p \in Process, Recovers(p) PROVE IntentsFollow
  BY <1>2 DEF Recovers, RecoverNothing, RecoverAbort, RecoverCommit, RecoverRestore,
            RecoverRefuse, Step, Decide, Return, Idle, At, Goto, durable, files,
            history, directory, process, lease, bounds
<1>3. ASSUME NEW p \in Process, Restores(p) PROVE IntentsFollow
  BY <1>3 DEF Restores, RestoreStage, RestoreSwap, RestoreSync, Step, Return,
            RelinkSynced, Idle, Relink, At, Goto, durable, files, history, directory,
            process, lease, bounds
<1>4. ASSUME NEW p \in Process, Finishes(p) PROVE IntentsFollow
  BY <1>4 DEF Finishes, FinishSave, FinishResult, FinishClearTemp, FinishClearPending,
            Return, Idle, Step, RelinkSynced, At, Goto, durable, files, history,
            directory, process, lease, bounds
<1>5. ASSUME NEW p \in Process, Plans(p) PROVE IntentsFollow
  <2>1. CASE PlanPublish(p)
    BY <2>1 DEF PlanPublish, Plan, At, Goto, durable, files, history, directory,
             process, lease, bounds, NewIntent, LockInv, CopyInv
  <2>2. CASE PlanManaged(p)
    BY <2>2 DEF PlanManaged, Plan, At, Goto, durable, files, history, directory,
             process, lease, bounds, NewIntent, LockInv, CopyInv
  <2>3. CASE PlanRollback(p)
    <3>1. lock = p /\ mem[p].db = registry
      BY <2>3 DEF PlanRollback, At, LockInv, CopyInv, Outside
    <3>2. PICK r \in {registry.entry.rev} \cup lineage[registry.entry.rev] :
             registry.entry.managed /\ Loadable(r) /\ Plan(p, r, "archive")
      BY <2>3, <3>1 DEF PlanRollback
    <3>3. r # None
      BY <3>2, Names DEF Loadable, HistoryTyped
    <3>4. registry.entry.rev \in Revisions /\ Proven(registry.entry.rev)
      BY <3>2 DEF EntryInv, Known, Absent
    <3>5. Proven(r)
      BY <3>2, <3>4 DEF LineageInv
    <3> QED
      BY <3>1, <3>2, <3>3, <3>5 DEF Plan, NewIntent, Goto
  <2>4. CASE PlanUnpublish(p)
    BY <2>4 DEF PlanUnpublish, Plan, At, Goto, durable, files, history, directory,
             process, lease, bounds, NewIntent, LockInv, CopyInv, Proven
  <2>5. CASE PlanReconcile(p)
    BY <2>5 DEF PlanReconcile, Step, At, Goto, durable, files, history, directory,
             process, lease, bounds
  <2>6. CASE PlanRefused(p)
    BY <2>6 DEF PlanRefused, Return, At, Goto, durable, files, history, directory,
             process, lease, bounds, Idle
  <2> QED
    BY <1>5, <2>1, <2>2, <2>3, <2>4, <2>5, <2>6 DEF Plans
<1>6. ASSUME NEW p \in Process, Prepares(p) PROVE IntentsFollow
  BY <1>6 DEF Prepares, CopyCandidate, Reacquire, ReacquireBusy, ArchiveIntent,
            WriteIntent, CreateCandidate, Step, MakeCandidate, Unchanged, Return, Idle,
            FreshName, At, Goto, durable, files, history, directory, process, lease,
            bounds
<1>7. ASSUME NEW p \in Process, Activates(p) PROVE IntentsFollow
  BY <1>7 DEF Activates, ActivateCheck, ActivateStage, ActivateSwap, ActivateVerify,
            ActivateUndo, ActivateSync, Step, Return, Idle, RelinkSynced, Relink, At,
            Goto, durable, files, history, directory, process, lease, bounds
<1>8. ASSUME NEW p \in Process, Registers(p) PROVE IntentsFollow
  <2>1. CASE RegisterSave(p)
    BY <2>1 DEF RegisterSave, SaveEntry, At, Goto, durable, files, history, directory,
             process, lease, bounds, At
  <2>2. CASE RegisterCheck(p)
    BY <2>2 DEF RegisterCheck, Step, Return, At, Goto, durable, files, history,
             directory, process, lease, bounds, Idle
  <2>3. CASE RegisterInstall(p)
    BY <2>3 DEF RegisterInstall, Step, Return, RelinkSynced, At, Goto, durable, files,
             history, directory, process, lease, bounds, Idle
  <2>4. CASE RegisterCommit(p)
    BY <2>4 DEF RegisterCommit, Return, At, Goto, durable, files, history, directory,
             process, lease, bounds, Idle
  <2> QED
    BY <1>8, <2>1, <2>2, <2>3, <2>4 DEF Registers
<1>9. ASSUME NEW p \in Process, Unlinks(p) PROVE IntentsFollow
  BY <1>9 DEF Unlinks, UnlinkCheck, Unlink, MarkRemoved, Step, Return, Idle,
            RelinkSynced, At, Goto, durable, files, history, directory, process, lease,
            bounds
<1>10. ASSUME NEW p \in Process, Interrupts(p) PROVE IntentsFollow
  BY <1>10 DEF Interrupts, RecordMissing, Crash, Return, Idle, At, Goto, durable, files,
            history, directory, process, lease, bounds
<1>11. ASSUME Environment PROVE IntentsFollow
  BY <1>11 DEF Environment, Resolve, Admit, Retire, SiblingCommits, UserChangesLink,
            BundleDamaged, PowerFails, Idle, At, Goto, durable, files, history,
            directory, process, lease, bounds
<1> QED
  BY <1>1, <1>2, <1>3, <1>4, <1>5, <1>6, <1>7, <1>8, <1>9, <1>10, <1>11, StepKinds

\* Only adopt_prior and make_candidate add a revision.
LEMMA RevisionsStep == ASSUME IInv, Next, TypeOK' PROVE RevisionsFollow
<1>i. CallInv /\ PlanInv
  BY DEF IInv
<1> USE <1>i
<1> USE DEF RevisionsFollow
<1>1. ASSUME NEW p \in Process, Begin(p) PROVE RevisionsFollow
  BY <1>1 DEF Begin, BeginPublish, BeginRollback, BeginUnpublish, BeginReconcile,
            BeginRegister, Acquire, At, Goto, durable, files, history, directory,
            process, lease, bounds
<1>2. ASSUME NEW p \in Process, Recovers(p) PROVE RevisionsFollow
  BY <1>2 DEF Recovers, RecoverNothing, RecoverAbort, RecoverCommit, RecoverRestore,
            RecoverRefuse, Step, Decide, Return, At, Goto, durable, files, history,
            directory, process, lease, bounds
<1>3. ASSUME NEW p \in Process, Restores(p) PROVE RevisionsFollow
  BY <1>3 DEF Restores, RestoreStage, RestoreSwap, RestoreSync, Step, Return,
            RelinkSynced, Relink, At, Goto, durable, files, history, directory, process,
            lease, bounds
<1>4. ASSUME NEW p \in Process, Finishes(p) PROVE RevisionsFollow
  BY <1>4 DEF Finishes, FinishSave, FinishResult, FinishClearTemp, FinishClearPending,
            Return, Step, RelinkSynced, At, Goto, durable, files, history, directory,
            process, lease, bounds
<1>5. ASSUME NEW p \in Process, Plans(p) PROVE RevisionsFollow
  BY <1>5 DEF Plans, PlanPublish, PlanManaged, PlanRollback, PlanUnpublish,
            PlanReconcile, PlanRefused, Plan, Adopted, Step, Return, At, Goto, durable,
            files, history, directory, process, lease, bounds
<1>6. ASSUME NEW p \in Process, Prepares(p) PROVE RevisionsFollow
  BY <1>6 DEF Prepares, CopyCandidate, Reacquire, ReacquireBusy, ArchiveIntent,
            WriteIntent, CreateCandidate, Step, MakeCandidate, CallInv, PlanInv,
            Planned, Acting, Making, Unchanged, Return, FreshName, At, Goto, durable,
            files, history, directory, process, lease, bounds
<1>7. ASSUME NEW p \in Process, Activates(p) PROVE RevisionsFollow
  BY <1>7 DEF Activates, ActivateCheck, ActivateStage, ActivateSwap, ActivateVerify,
            ActivateUndo, ActivateSync, Step, Return, RelinkSynced, Relink, At, Goto,
            durable, files, history, directory, process, lease, bounds
<1>8. ASSUME NEW p \in Process, Registers(p) PROVE RevisionsFollow
  BY <1>8 DEF Registers, RegisterSave, RegisterCheck, RegisterInstall, RegisterCommit,
            SaveEntry, Step, Return, RelinkSynced, At, Goto, durable, files, history,
            directory, process, lease, bounds
<1>9. ASSUME NEW p \in Process, Unlinks(p) PROVE RevisionsFollow
  BY <1>9 DEF Unlinks, UnlinkCheck, Unlink, MarkRemoved, Step, Return, RelinkSynced, At,
            Goto, durable, files, history, directory, process, lease, bounds
<1>10. ASSUME NEW p \in Process, Interrupts(p) PROVE RevisionsFollow
  BY <1>10 DEF Interrupts, RecordMissing, Crash, Return, At, Goto, durable, files,
            history, directory, process, lease, bounds
<1>11. ASSUME Environment PROVE RevisionsFollow
  BY <1>11 DEF Environment, Resolve, Admit, Retire, SiblingCommits, UserChangesLink,
            BundleDamaged, PowerFails, At, Goto, durable, files, history, directory,
            process, lease, bounds
<1> QED
  BY <1>1, <1>2, <1>3, <1>4, <1>5, <1>6, <1>7, <1>8, <1>9, <1>10, <1>11, StepKinds

\* An intent stays sound: only its own candidate gets its number.
LEMMA SoundStays ==
    ASSUME IInv, TypeOK', HistoryGrows, RevisionsFollow, NEW i \in Intents, Sound(i),
           \A q \in Process : mem[q].intent # None /\ mem[q].intent.id = i.id => mem[q].intent = i
    PROVE  Sound(i)'
<1>1. i.candidate # i.id => i.id \notin retained'
  BY IntentParts, Names DEF Sound, RevisionsFollow, Legacy
<1>2. Known(i.entry)'
  BY DEF Sound, Known, Proven, HistoryGrows
<1>3. i.id < next'
  <2>1. next \in Nat /\ next' \in Nat
    BY PublicationConstants DEF IInv, TypeOK
  <2>2. i.id < next /\ i.id \in Nat
    BY IntentParts, Names DEF Sound
  <2> QED
    BY <2>1, <2>2 DEF HistoryGrows
<1> QED
  BY <1>1, <1>2, <1>3 DEF Sound, HistoryGrows, Proven

\* Every intent stays sound, and a new one is.
LEMMA SoundKept == ASSUME IInv, Next, TypeOK' PROVE SoundInv'
<1>1. HistoryGrows /\ RevisionsFollow /\ IntentsFollow
  BY Growth, RevisionsStep, IntentsStep
<1>2. pending \in Intents \cup {None} /\ \A q \in Process : mem[q].intent \in Intents \cup {None}
  BY CallUpdated DEF IInv, TypeOK
<1>3. SoundInv /\ UniqueInv /\ FreshInv /\ EntryInv
  BY DEF IInv
<1>4. ASSUME NEW i, i # None, i = pending \/ \E q \in Process : i = mem[q].intent
      PROVE  Sound(i)'
  <2>1. i \in Intents /\ Sound(i)
    BY <1>2, <1>3, <1>4 DEF SoundInv
  <2>2. \A q \in Process : mem[q].intent # None /\ mem[q].intent.id = i.id => mem[q].intent = i
    BY <1>3, <1>4 DEF UniqueInv
  <2> QED
    BY <1>1, <2>1, <2>2, SoundStays
<1>5. ASSUME NEW q \in Process, Fresh(q), NEW i, i = mem'[q].intent PROVE Sound(i)'
  <2>1. /\ i # None /\ i.id = next /\ i.entry = registry.entry /\ i.target = TargetOf(i.entry)
        /\ i.candidate = i.id \/ Proven(i.candidate)
        /\ i.candidate = None => i.entry.managed /\ i.entry.state = "published"
        /\ next' = next + 1 /\ next \in Nat /\ i \in Intents
    <3>1. next \in Nat
      BY PublicationConstants DEF IInv, TypeOK
    <3>2. mem'[q].intent \in Intents \cup {None}
      <4>1. mem'[q] \in Calls
        BY DEF TypeOK
      <4> QED
        BY <4>1, CallUpdated
    <3> QED
      BY <1>5, <3>1, <3>2 DEF Fresh
  <2>2. Known(i.entry) /\ (i.candidate = None => i.target # None)
    BY <1>3, <2>1, Names DEF EntryInv, Known, TargetOf, Absent
  <2>3. next \notin retained'
    <3>1. next \in Transactions /\ next \notin retained
      BY <1>3, <2>1, IntentParts DEF FreshInv
    <3>2. ASSUME NEW r \in Process, mem[r].intent # None PROVE mem[r].intent.id # next
      BY <1>2, <1>3, <2>1, <3>2, IntentParts, Names DEF SoundInv, Sound
    <3> QED
      BY <1>1, <3>1, <3>2, Names DEF RevisionsFollow, Legacy
  <2>4. Known(i.entry) /\ Known(i.entry)'
    BY <1>1, <2>2 DEF Known, Proven, HistoryGrows
  <2> QED
    BY <1>1, <2>1, <2>2, <2>3 DEF Sound, Known, Proven, HistoryGrows
<1> QED
  BY <1>1, <1>4, <1>5 DEF SoundInv, IntentsFollow, Sound, Known, Proven

\* A new intent has a number no other intent has.
LEMMA UniqueKept == ASSUME IInv, Next, TypeOK' PROVE UniqueInv'
<1>1. IntentsFollow
  BY IntentsStep
<1>2. SoundInv /\ UniqueInv
  BY DEF IInv
<1>3. \A q \in Process : mem[q].intent # None => mem[q].intent \in Intents
  BY CallUpdated DEF IInv, TypeOK
<1>4. CASE \E q \in Process : Fresh(q)
  BY <1>2, <1>3, <1>4, IntentParts, Names, PublicationConstants
     DEF UniqueInv, SoundInv, Sound, Fresh, IInv, TypeOK
<1>5. CASE \A q \in Process : ~Fresh(q)
  BY <1>1, <1>2, <1>5 DEF UniqueInv, IntentsFollow
<1> QED
  BY <1>4, <1>5

\* An identity not given out yet names no revision and no result.
LEMMA FreshKept == ASSUME IInv, Next, TypeOK' PROVE FreshInv'
<1>t. /\ pc \in [Process -> Labels]
      /\ mem \in [Process -> Calls]
  BY DEF IInv, TypeOK
<1>i. FreshInv /\ SoundInv /\ CallInv /\ PlanInv /\ BoundsTyped /\ FilesTyped /\ HistoryTyped
  BY TypeIsParts DEF IInv
<1> USE <1>t, <1>i
<1> USE Names, PublicationConstants
<1> USE DEF FreshInv, BoundsTyped, Transactions
<1>1. ASSUME NEW p \in Process, Begin(p) PROVE FreshInv'
  BY <1>1 DEF Begin, BeginPublish, BeginRollback, BeginUnpublish, BeginReconcile,
            BeginRegister, Acquire, At, Goto, durable, files, history, directory,
            process, lease, bounds
<1>2. ASSUME NEW p \in Process, Recovers(p) PROVE FreshInv'
  BY <1>2 DEF Recovers, RecoverNothing, RecoverAbort, RecoverCommit, RecoverRestore,
            RecoverRefuse, Step, Decide, Return, At, Goto, durable, files, history,
            directory, process, lease, bounds
<1>3. ASSUME NEW p \in Process, Restores(p) PROVE FreshInv'
  BY <1>3 DEF Restores, RestoreStage, RestoreSwap, RestoreSync, Step, Return,
            RelinkSynced, Relink, At, Goto, durable, files, history, directory, process,
            lease, bounds
<1>4. ASSUME NEW p \in Process, Finishes(p) PROVE FreshInv'
  BY <1>4 DEF Finishes, FinishSave, FinishResult, FinishClearTemp, FinishClearPending,
            Return, Step, CallInv, PlanInv, SoundInv, Sound, Planned, Acting, Making,
            Finishing, FilesTyped, RelinkSynced, At, Goto, durable, files, history,
            directory, process, lease, bounds
<1>5. ASSUME NEW p \in Process, Plans(p) PROVE FreshInv'
  <2>1. CASE PlanPublish(p)
    BY <2>1 DEF PlanPublish, Plan, At, Goto, durable, files, history, directory,
             process, lease, bounds, Adopted, Legacy
  <2>2. CASE PlanManaged(p)
    BY <2>2 DEF PlanManaged, Plan, At, Goto, durable, files, history, directory,
             process, lease, bounds, Adopted, Legacy
  <2>3. CASE PlanRollback(p)
    BY <2>3 DEF PlanRollback, Plan, At, Goto, durable, files, history, directory,
             process, lease, bounds, Adopted, Legacy
  <2>4. CASE PlanUnpublish(p)
    BY <2>4 DEF PlanUnpublish, Plan, At, Goto, durable, files, history, directory,
             process, lease, bounds, Adopted, Legacy
  <2>5. CASE PlanReconcile(p)
    BY <2>5 DEF PlanReconcile, Step, At, Goto, durable, files, history, directory,
             process, lease, bounds
  <2>6. CASE PlanRefused(p)
    BY <2>6 DEF PlanRefused, Return, At, Goto, durable, files, history, directory,
             process, lease, bounds
  <2> QED
    BY <1>5, <2>1, <2>2, <2>3, <2>4, <2>5, <2>6 DEF Plans
<1>6. ASSUME NEW p \in Process, Prepares(p) PROVE FreshInv'
  BY <1>6 DEF Prepares, CopyCandidate, Reacquire, ReacquireBusy, ArchiveIntent,
            WriteIntent, CreateCandidate, Step, MakeCandidate, CallInv, PlanInv,
            SoundInv, Sound, Planned, Acting, Making, Finishing, FilesTyped, Unchanged,
            Return, FreshName, At, Goto, durable, files, history, directory, process,
            lease, bounds
<1>7. ASSUME NEW p \in Process, Activates(p) PROVE FreshInv'
  BY <1>7 DEF Activates, ActivateCheck, ActivateStage, ActivateSwap, ActivateVerify,
            ActivateUndo, ActivateSync, Step, Return, RelinkSynced, Relink, At, Goto,
            durable, files, history, directory, process, lease, bounds
<1>8. ASSUME NEW p \in Process, Registers(p) PROVE FreshInv'
  BY <1>8 DEF Registers, RegisterSave, RegisterCheck, RegisterInstall, RegisterCommit,
            SaveEntry, Step, Return, RelinkSynced, At, Goto, durable, files, history,
            directory, process, lease, bounds
<1>9. ASSUME NEW p \in Process, Unlinks(p) PROVE FreshInv'
  BY <1>9 DEF Unlinks, UnlinkCheck, Unlink, MarkRemoved, Step, Return, RelinkSynced, At,
            Goto, durable, files, history, directory, process, lease, bounds
<1>10. ASSUME NEW p \in Process, Interrupts(p) PROVE FreshInv'
  BY <1>10 DEF Interrupts, RecordMissing, Crash, Return, At, Goto, durable, files,
            history, directory, process, lease, bounds
<1>11. ASSUME Environment PROVE FreshInv'
  BY <1>11 DEF Environment, Resolve, Admit, Retire, SiblingCommits, UserChangesLink,
            BundleDamaged, PowerFails, At, Goto, durable, files, history, directory,
            process, lease, bounds
<1> QED
  BY <1>1, <1>2, <1>3, <1>4, <1>5, <1>6, <1>7, <1>8, <1>9, <1>10, <1>11, StepKinds

\* The intent of a call that copies is its own; no result is written before the candidate.
LEMMA PrivateKept == ASSUME IInv, Next, TypeOK' PROVE PrivateInv'
<1>t. /\ pc \in [Process -> Labels]
      /\ mem \in [Process -> Calls]
  BY DEF IInv, TypeOK
<1>i. LockInv /\ PrivateInv /\ CallInv /\ SoundInv /\ UniqueInv /\ FreshInv /\ FilesTyped /\
          BoundsTyped
  BY TypeIsParts DEF IInv
<1> USE <1>t, <1>i
<1> USE Names
<1> USE DEF PrivateInv, LockInv, CallInv, Outside, Making, Restoring, Finishing,
           Planned, Acting, Plain, Unlinking, Guarded, Calls
<1>1. ASSUME NEW p \in Process, Begin(p) PROVE PrivateInv'
  <2>1. CASE BeginPublish(p)
    BY <2>1 DEF BeginPublish, Acquire, At, Goto, durable, files, history, directory,
             process, lease, bounds, Idle
  <2>2. CASE BeginRollback(p)
    BY <2>2 DEF BeginRollback, Acquire, At, Goto, durable, files, history, directory,
             process, lease, bounds, Idle
  <2>3. CASE BeginUnpublish(p)
    BY <2>3 DEF BeginUnpublish, Acquire, At, Goto, durable, files, history, directory,
             process, lease, bounds, Idle
  <2>4. CASE BeginReconcile(p)
    BY <2>4 DEF BeginReconcile, Acquire, At, Goto, durable, files, history, directory,
             process, lease, bounds, Idle
  <2>5. CASE BeginRegister(p)
    BY <2>5 DEF BeginRegister, Acquire, At, Goto, durable, files, history, directory,
             process, lease, bounds, Idle
  <2> QED
    BY <1>1, <2>1, <2>2, <2>3, <2>4, <2>5 DEF Begin
<1>2. ASSUME NEW p \in Process, Recovers(p) PROVE PrivateInv'
  BY <1>2 DEF Recovers, RecoverNothing, RecoverAbort, RecoverCommit, RecoverRestore,
            RecoverRefuse, Step, Decide, Return, Idle, At, Goto, durable, files,
            history, directory, process, lease, bounds
<1>3. ASSUME NEW p \in Process, Restores(p) PROVE PrivateInv'
  <2>1. CASE RestoreStage(p)
    BY <2>1 DEF RestoreStage, Step, Return, RelinkSynced, At, Goto, durable, files,
             history, directory, process, lease, bounds, Idle
  <2>2. CASE RestoreSwap(p)
    BY <2>2 DEF RestoreSwap, Step, Return, Relink, At, Goto, durable, files, history,
             directory, process, lease, bounds, Idle
  <2>3. CASE RestoreSync(p)
    BY <2>3 DEF RestoreSync, Step, RelinkSynced, At, Goto, durable, files, history,
             directory, process, lease, bounds
  <2> QED
    BY <1>3, <2>1, <2>2, <2>3 DEF Restores
<1>4. ASSUME NEW p \in Process, Finishes(p) PROVE PrivateInv'
  <2>1. CASE FinishSave(p)
    <3>1. CASE Return(p)
      BY <2>1, <3>1 DEF FinishSave, Return, At, Goto, Idle, files, history, bounds
    <3>2. CASE mem' = [mem EXCEPT ![p].db = registry'] /\ Goto(p, "result")
      BY <2>1, <3>2 DEF FinishSave, At, Goto, files, history, bounds
    <3> QED
      BY <2>1, <3>1, <3>2 DEF FinishSave
  <2>2. CASE FinishResult(p)
    <3>1. /\ pc[p] = "result" /\ lock = p /\ pending = mem[p].intent /\ pending # None
          /\ pc' = [pc EXCEPT ![p] = "clear_temp"] /\ UNCHANGED <<mem, pending>>
      BY <2>2 DEF FinishResult, At, Goto, Step
    <3>2. \A t \in Transactions : t # mem[p].intent.id => results'[t] = results[t]
      BY <2>2 DEF FinishResult, FilesTyped
    <3>3. ASSUME NEW q \in Process, pc'[q] \in Planned \cup {"create"}
          PROVE  results'[mem[q].intent.id] = "none"
      <4>1. q # p /\ pc[q] = pc'[q] /\ pc[q] \in Making /\ mem[q].intent # None
        BY <3>1, <3>3
      <4>2. mem[q].intent.id # mem[p].intent.id
        BY <3>1, <4>1 DEF UniqueInv
      <4>3. mem[q].intent \in Intents
        BY <4>1
      <4>4. mem[q].intent.id \in Transactions
        BY <4>3, IntentParts
      <4> QED
        BY <3>2, <4>1, <4>2, <4>4
    <3> QED
      BY <3>1, <3>3
  <2>3. CASE FinishClearTemp(p)
    BY <2>3 DEF FinishClearTemp, Step, Return, RelinkSynced, At, Goto, durable, files,
             history, directory, process, lease, bounds, Idle
  <2>4. CASE FinishClearPending(p)
    BY <2>4 DEF FinishClearPending, Return, At, Goto, durable, files, history,
             directory, process, lease, bounds, Idle
  <2> QED
    BY <1>4, <2>1, <2>2, <2>3, <2>4 DEF Finishes
<1>5. ASSUME NEW p \in Process, Plans(p) PROVE PrivateInv'
  <2>1. CASE PlanPublish(p)
    BY <2>1 DEF PlanPublish, Plan, At, Goto, durable, files, history, directory,
             process, lease, bounds, NewIntent, FreshInv, SoundInv, Sound, BoundsTyped
  <2>2. CASE PlanManaged(p)
    BY <2>2 DEF PlanManaged, Plan, At, Goto, durable, files, history, directory,
             process, lease, bounds, NewIntent, FreshInv, SoundInv, Sound, BoundsTyped
  <2>3. CASE PlanRollback(p)
    BY <2>3 DEF PlanRollback, Plan, At, Goto, durable, files, history, directory,
             process, lease, bounds, NewIntent, FreshInv, SoundInv, Sound, BoundsTyped
  <2>4. CASE PlanUnpublish(p)
    BY <2>4 DEF PlanUnpublish, Plan, At, Goto, durable, files, history, directory,
             process, lease, bounds, NewIntent, FreshInv, SoundInv, Sound, BoundsTyped
  <2>5. CASE PlanReconcile(p)
    BY <2>5 DEF PlanReconcile, Step, At, Goto, durable, files, history, directory,
             process, lease, bounds
  <2>6. CASE PlanRefused(p)
    BY <2>6 DEF PlanRefused, Return, At, Goto, durable, files, history, directory,
             process, lease, bounds, Idle
  <2> QED
    BY <1>5, <2>1, <2>2, <2>3, <2>4, <2>5, <2>6 DEF Plans
<1>6. ASSUME NEW p \in Process, Prepares(p) PROVE PrivateInv'
  BY <1>6 DEF Prepares, CopyCandidate, Reacquire, ReacquireBusy, ArchiveIntent,
            WriteIntent, CreateCandidate, Step, MakeCandidate, Unchanged, Return, Idle,
            FreshName, UniqueInv, At, Goto, durable, files, history, directory, process,
            lease, bounds
<1>7. ASSUME NEW p \in Process, Activates(p) PROVE PrivateInv'
  BY <1>7 DEF Activates, ActivateCheck, ActivateStage, ActivateSwap, ActivateVerify,
            ActivateUndo, ActivateSync, Step, Return, Idle, RelinkSynced, Relink, At,
            Goto, durable, files, history, directory, process, lease, bounds
<1>8. ASSUME NEW p \in Process, Registers(p) PROVE PrivateInv'
  <2>1. CASE RegisterSave(p)
    BY <2>1 DEF RegisterSave, SaveEntry, At, Goto, durable, files, history, directory,
             process, lease, bounds
  <2>2. CASE RegisterCheck(p)
    BY <2>2 DEF RegisterCheck, Step, Return, At, Goto, durable, files, history,
             directory, process, lease, bounds, Idle
  <2>3. CASE RegisterInstall(p)
    BY <2>3 DEF RegisterInstall, Step, Return, RelinkSynced, At, Goto, durable, files,
             history, directory, process, lease, bounds, Idle
  <2>4. CASE RegisterCommit(p)
    BY <2>4 DEF RegisterCommit, Return, At, Goto, durable, files, history, directory,
             process, lease, bounds, Idle
  <2> QED
    BY <1>8, <2>1, <2>2, <2>3, <2>4 DEF Registers
<1>9. ASSUME NEW p \in Process, Unlinks(p) PROVE PrivateInv'
  BY <1>9 DEF Unlinks, UnlinkCheck, Unlink, MarkRemoved, Step, Return, Idle,
            RelinkSynced, At, Goto, durable, files, history, directory, process, lease,
            bounds
<1>10. ASSUME NEW p \in Process, Interrupts(p) PROVE PrivateInv'
  BY <1>10 DEF Interrupts, RecordMissing, Crash, Return, Idle, At, Goto, durable, files,
            history, directory, process, lease, bounds
<1>11. ASSUME Environment PROVE PrivateInv'
  BY <1>11 DEF Environment, Resolve, Admit, Retire, SiblingCommits, UserChangesLink,
            BundleDamaged, PowerFails, Idle, At, Goto, durable, files, history,
            directory, process, lease, bounds
<1> QED
  BY <1>1, <1>2, <1>3, <1>4, <1>5, <1>6, <1>7, <1>8, <1>9, <1>10, <1>11, StepKinds

\* An outcome is committed only of what was activated.
LEMMA ActiveKept == ASSUME IInv, Next, TypeOK' PROVE ActiveInv'
<1>t. /\ pc \in [Process -> Labels]
      /\ mem \in [Process -> Calls]
  BY DEF IInv, TypeOK
<1>i. LockInv /\ PrivateInv /\ CallInv /\ SoundInv /\ ActiveInv /\ PlanInv /\ OutcomeInv /\
          CompleteInv /\ VisibleInv /\ FilesTyped /\ HistoryTyped
  BY TypeIsParts DEF IInv
<1> USE <1>t, <1>i
<1> USE Names DEF Legacy
<1> USE DEF ActiveInv, CommittedWasActivated, LockInv, CallInv, Proven, Outside, Making,
           Restoring, Finishing, Planned, Acting, Plain, Unlinking, Guarded, Calls
<1>1. ASSUME NEW p \in Process, Begin(p) PROVE ActiveInv'
  <2>1. CASE BeginPublish(p)
    BY <2>1 DEF BeginPublish, Acquire, At, Goto, durable, files, history, directory,
             process, lease, bounds, Idle
  <2>2. CASE BeginRollback(p)
    BY <2>2 DEF BeginRollback, Acquire, At, Goto, durable, files, history, directory,
             process, lease, bounds, Idle
  <2>3. CASE BeginUnpublish(p)
    BY <2>3 DEF BeginUnpublish, Acquire, At, Goto, durable, files, history, directory,
             process, lease, bounds, Idle
  <2>4. CASE BeginReconcile(p)
    BY <2>4 DEF BeginReconcile, Acquire, At, Goto, durable, files, history, directory,
             process, lease, bounds, Idle
  <2>5. CASE BeginRegister(p)
    BY <2>5 DEF BeginRegister, Acquire, At, Goto, durable, files, history, directory,
             process, lease, bounds, Idle
  <2> QED
    BY <1>1, <2>1, <2>2, <2>3, <2>4, <2>5 DEF Begin
<1>2. ASSUME NEW p \in Process, Recovers(p) PROVE ActiveInv'
  BY <1>2 DEF Recovers, RecoverNothing, RecoverAbort, RecoverCommit, RecoverRestore,
            RecoverRefuse, Step, Decide, CompleteInv, VisibleInv, Return, Idle, At,
            Goto, durable, files, history, directory, process, lease, bounds
<1>3. ASSUME NEW p \in Process, Restores(p) PROVE ActiveInv'
  BY <1>3 DEF Restores, RestoreStage, RestoreSwap, RestoreSync, Step, Return,
            RelinkSynced, Idle, Relink, OutcomeInv, At, Goto, durable, files, history,
            directory, process, lease, bounds
<1>4. ASSUME NEW p \in Process, Finishes(p) PROVE ActiveInv'
  <2>1. CASE FinishSave(p)
    <3>1. CASE Return(p)
      BY <2>1, <3>1 DEF FinishSave, Return, At, Goto, Idle, files, history, bounds
    <3>2. CASE mem' = [mem EXCEPT ![p].db = registry'] /\ Goto(p, "result")
      BY <2>1, <3>2 DEF FinishSave, At, Goto, files, history, bounds
    <3> QED
      BY <2>1, <3>1, <3>2 DEF FinishSave
  <2>2. CASE FinishResult(p)
    <3> DEFINE i == mem[p].intent
    <3>1. /\ pc[p] = "result" /\ lock = p /\ i # None
          /\ pc' = [pc EXCEPT ![p] = "clear_temp"] /\ UNCHANGED <<mem, activated, retained>>
      BY <2>2 DEF FinishResult, At, Goto, Step, bounds, history
    <3>2. i \in Intents /\ Sound(i)
      BY <3>1 DEF SoundInv
    <3>3. i.id \in Transactions
      BY <3>2, IntentParts
    <3>4. \A t \in Transactions : results'[t] # results[t] =>
                                     t = i.id /\ results'[t] = mem[p].outcome
      BY <2>2 DEF FinishResult, FilesTyped
    <3>5. mem[p].outcome = "committed" /\ i.id \in retained => i.id \in activated
      BY <3>1, <3>2, <3>3 DEF Sound
    <3>6. CommittedWasActivated'
      BY <3>1, <3>4, <3>5, Names DEF HistoryTyped
    <3> QED
      BY <3>1, <3>6
  <2>3. CASE FinishClearTemp(p)
    BY <2>3 DEF FinishClearTemp, Step, Return, RelinkSynced, At, Goto, durable, files,
             history, directory, process, lease, bounds, Idle
  <2>4. CASE FinishClearPending(p)
    BY <2>4 DEF FinishClearPending, Return, At, Goto, durable, files, history,
             directory, process, lease, bounds, Idle
  <2> QED
    BY <1>4, <2>1, <2>2, <2>3, <2>4 DEF Finishes
<1>5. ASSUME NEW p \in Process, Plans(p) PROVE ActiveInv'
  <2>1. CASE PlanPublish(p)
    BY <2>1 DEF PlanPublish, Plan, At, Goto, durable, files, history, directory,
             process, lease, bounds, Adopted
  <2>2. CASE PlanManaged(p)
    BY <2>2 DEF PlanManaged, Plan, At, Goto, durable, files, history, directory,
             process, lease, bounds, Adopted
  <2>3. CASE PlanRollback(p)
    BY <2>3 DEF PlanRollback, Plan, At, Goto, durable, files, history, directory,
             process, lease, bounds, Adopted
  <2>4. CASE PlanUnpublish(p)
    BY <2>4 DEF PlanUnpublish, Plan, At, Goto, durable, files, history, directory,
             process, lease, bounds, Adopted
  <2>5. CASE PlanReconcile(p)
    BY <2>5 DEF PlanReconcile, Step, At, Goto, durable, files, history, directory,
             process, lease, bounds
  <2>6. CASE PlanRefused(p)
    BY <2>6 DEF PlanRefused, Return, At, Goto, durable, files, history, directory,
             process, lease, bounds, Idle
  <2> QED
    BY <1>5, <2>1, <2>2, <2>3, <2>4, <2>5, <2>6 DEF Plans
<1>6. ASSUME NEW p \in Process, Prepares(p) PROVE ActiveInv'
  BY <1>6 DEF Prepares, CopyCandidate, Reacquire, ReacquireBusy, ArchiveIntent,
            WriteIntent, CreateCandidate, Step, MakeCandidate, PrivateInv, PlanInv,
            HistoryTyped, Unchanged, Return, Idle, FreshName, At, Goto, durable, files,
            history, directory, process, lease, bounds
<1>7. ASSUME NEW p \in Process, Activates(p) PROVE ActiveInv'
  BY <1>7 DEF Activates, ActivateCheck, ActivateStage, ActivateSwap, ActivateVerify,
            ActivateUndo, ActivateSync, Step, Return, Idle, RelinkSynced, Relink,
            SoundInv, Sound, At, Goto, durable, files, history, directory, process,
            lease, bounds
<1>8. ASSUME NEW p \in Process, Registers(p) PROVE ActiveInv'
  <2>1. CASE RegisterSave(p)
    BY <2>1 DEF RegisterSave, SaveEntry, At, Goto, durable, files, history, directory,
             process, lease, bounds
  <2>2. CASE RegisterCheck(p)
    BY <2>2 DEF RegisterCheck, Step, Return, At, Goto, durable, files, history,
             directory, process, lease, bounds, Idle
  <2>3. CASE RegisterInstall(p)
    BY <2>3 DEF RegisterInstall, Step, Return, RelinkSynced, At, Goto, durable, files,
             history, directory, process, lease, bounds, Idle
  <2>4. CASE RegisterCommit(p)
    BY <2>4 DEF RegisterCommit, Return, At, Goto, durable, files, history, directory,
             process, lease, bounds, Idle
  <2> QED
    BY <1>8, <2>1, <2>2, <2>3, <2>4 DEF Registers
<1>9. ASSUME NEW p \in Process, Unlinks(p) PROVE ActiveInv'
  BY <1>9 DEF Unlinks, UnlinkCheck, Unlink, MarkRemoved, Step, Return, Idle,
            RelinkSynced, At, Goto, durable, files, history, directory, process, lease,
            bounds
<1>10. ASSUME NEW p \in Process, Interrupts(p) PROVE ActiveInv'
  BY <1>10 DEF Interrupts, RecordMissing, Crash, Return, Idle, At, Goto, durable, files,
            history, directory, process, lease, bounds
<1>11. ASSUME Environment PROVE ActiveInv'
  BY <1>11 DEF Environment, Resolve, Admit, Retire, SiblingCommits, UserChangesLink,
            BundleDamaged, PowerFails, Idle, At, Goto, durable, files, history,
            directory, process, lease, bounds
<1> QED
  BY <1>1, <1>2, <1>3, <1>4, <1>5, <1>6, <1>7, <1>8, <1>9, <1>10, <1>11, StepKinds

\* No host gets its lease while a call that asked for leases holds the lock.
LEMMA LeaseKept == ASSUME IInv, Next, TypeOK' PROVE LeaseInv'
<1>t. /\ pc \in [Process -> Labels]
      /\ mem \in [Process -> Calls]
  BY DEF IInv, TypeOK
<1>i. LockInv /\ LeaseInv /\ CallInv
  BY DEF IInv
<1> USE <1>t, <1>i
<1> USE Names
<1> USE DEF LeaseInv, LockInv, Outside, Making, Restoring, Finishing, Planned, Acting,
           Plain, Unlinking, Guarded, Calls
<1>1. ASSUME NEW p \in Process, Begin(p) PROVE LeaseInv'
  <2>1. CASE BeginPublish(p)
    BY <2>1 DEF BeginPublish, Acquire, At, Goto, durable, files, history, directory,
             process, lease, bounds, Idle, Inactive
  <2>2. CASE BeginRollback(p)
    BY <2>2 DEF BeginRollback, Acquire, At, Goto, durable, files, history, directory,
             process, lease, bounds, Idle, Inactive
  <2>3. CASE BeginUnpublish(p)
    BY <2>3 DEF BeginUnpublish, Acquire, At, Goto, durable, files, history, directory,
             process, lease, bounds, Idle, Inactive
  <2>4. CASE BeginReconcile(p)
    BY <2>4 DEF BeginReconcile, Acquire, At, Goto, durable, files, history, directory,
             process, lease, bounds, Idle
  <2>5. CASE BeginRegister(p)
    BY <2>5 DEF BeginRegister, Acquire, At, Goto, durable, files, history, directory,
             process, lease, bounds, Idle
  <2> QED
    BY <1>1, <2>1, <2>2, <2>3, <2>4, <2>5 DEF Begin
<1>2. ASSUME NEW p \in Process, Recovers(p) PROVE LeaseInv'
  BY <1>2 DEF Recovers, RecoverNothing, RecoverAbort, RecoverCommit, RecoverRestore,
            RecoverRefuse, Step, Decide, Inactive, Return, Idle, At, Goto, durable,
            files, history, directory, process, lease, bounds
<1>3. ASSUME NEW p \in Process, Restores(p) PROVE LeaseInv'
  BY <1>3 DEF Restores, RestoreStage, RestoreSwap, RestoreSync, Step, Return,
            RelinkSynced, Idle, Relink, At, Goto, durable, files, history, directory,
            process, lease, bounds
<1>4. ASSUME NEW p \in Process, Finishes(p) PROVE LeaseInv'
  BY <1>4 DEF Finishes, FinishSave, FinishResult, FinishClearTemp, FinishClearPending,
            Return, Idle, Step, RelinkSynced, At, Goto, durable, files, history,
            directory, process, lease, bounds
<1>5. ASSUME NEW p \in Process, Plans(p) PROVE LeaseInv'
  BY <1>5 DEF Plans, PlanPublish, PlanManaged, PlanRollback, PlanUnpublish,
            PlanReconcile, PlanRefused, Plan, Step, Return, Idle, At, Goto, durable,
            files, history, directory, process, lease, bounds
<1>6. ASSUME NEW p \in Process, Prepares(p) PROVE LeaseInv'
  BY <1>6 DEF Prepares, CopyCandidate, Reacquire, ReacquireBusy, ArchiveIntent,
            WriteIntent, CreateCandidate, Step, MakeCandidate, Unchanged, Return, Idle,
            Inactive, FreshName, At, Goto, durable, files, history, directory, process,
            lease, bounds
<1>7. ASSUME NEW p \in Process, Activates(p) PROVE LeaseInv'
  BY <1>7 DEF Activates, ActivateCheck, ActivateStage, ActivateSwap, ActivateVerify,
            ActivateUndo, ActivateSync, Step, Return, Idle, RelinkSynced, Relink, At,
            Goto, durable, files, history, directory, process, lease, bounds
<1>8. ASSUME NEW p \in Process, Registers(p) PROVE LeaseInv'
  <2>1. CASE RegisterSave(p)
    BY <2>1 DEF RegisterSave, SaveEntry, At, Goto, durable, files, history, directory,
             process, lease, bounds
  <2>2. CASE RegisterCheck(p)
    BY <2>2 DEF RegisterCheck, Step, Return, At, Goto, durable, files, history,
             directory, process, lease, bounds, Idle
  <2>3. CASE RegisterInstall(p)
    BY <2>3 DEF RegisterInstall, Step, Return, RelinkSynced, At, Goto, durable, files,
             history, directory, process, lease, bounds, Idle
  <2>4. CASE RegisterCommit(p)
    BY <2>4 DEF RegisterCommit, Return, At, Goto, durable, files, history, directory,
             process, lease, bounds, Idle
  <2> QED
    BY <1>8, <2>1, <2>2, <2>3, <2>4 DEF Registers
<1>9. ASSUME NEW p \in Process, Unlinks(p) PROVE LeaseInv'
  BY <1>9 DEF Unlinks, UnlinkCheck, Unlink, MarkRemoved, Step, Return, Idle,
            RelinkSynced, At, Goto, durable, files, history, directory, process, lease,
            bounds
<1>10. ASSUME NEW p \in Process, Interrupts(p) PROVE LeaseInv'
  BY <1>10 DEF Interrupts, RecordMissing, Crash, Return, Idle, At, Goto, durable, files,
            history, directory, process, lease, bounds
<1>11. ASSUME Environment PROVE LeaseInv'
  BY <1>11 DEF Environment, Resolve, Admit, Retire, SiblingCommits, UserChangesLink,
            BundleDamaged, PowerFails, Idle, At, Goto, durable, files, history,
            directory, process, lease, bounds
<1> QED
  BY <1>1, <1>2, <1>3, <1>4, <1>5, <1>6, <1>7, <1>8, <1>9, <1>10, <1>11, StepKinds

\* What is visible is among what a power failure may leave.
LEMMA VisibleKept == ASSUME IInv, Next, TypeOK' PROVE VisibleInv'
<1>i. VisibleInv /\ DirectoryTyped
  BY TypeIsParts DEF IInv
<1> USE <1>i
<1> USE DEF VisibleInv, VisibleInv, DirectoryTyped
<1>1. ASSUME NEW p \in Process, Begin(p) PROVE VisibleInv'
  <2>1. CASE BeginPublish(p)
    BY <2>1 DEF BeginPublish, Acquire, At, Goto, durable, files, history, directory,
             process, lease, bounds
  <2>2. CASE BeginRollback(p)
    BY <2>2 DEF BeginRollback, Acquire, At, Goto, durable, files, history, directory,
             process, lease, bounds
  <2>3. CASE BeginUnpublish(p)
    BY <2>3 DEF BeginUnpublish, Acquire, At, Goto, durable, files, history, directory,
             process, lease, bounds
  <2>4. CASE BeginReconcile(p)
    BY <2>4 DEF BeginReconcile, Acquire, At, Goto, durable, files, history, directory,
             process, lease, bounds
  <2>5. CASE BeginRegister(p)
    BY <2>5 DEF BeginRegister, Acquire, At, Goto, durable, files, history, directory,
             process, lease, bounds
  <2> QED
    BY <1>1, <2>1, <2>2, <2>3, <2>4, <2>5 DEF Begin
<1>2. ASSUME NEW p \in Process, Recovers(p) PROVE VisibleInv'
  BY <1>2 DEF Recovers, RecoverNothing, RecoverAbort, RecoverCommit, RecoverRestore,
            RecoverRefuse, Step, Decide, Return, At, Goto, durable, files, history,
            directory, process, lease, bounds
<1>3. ASSUME NEW p \in Process, Restores(p) PROVE VisibleInv'
  BY <1>3 DEF Restores, RestoreStage, RestoreSwap, RestoreSync, Step, Return,
            RelinkSynced, Relink, At, Goto, durable, files, history, directory, process,
            lease, bounds
<1>4. ASSUME NEW p \in Process, Finishes(p) PROVE VisibleInv'
  BY <1>4 DEF Finishes, FinishSave, FinishResult, FinishClearTemp, FinishClearPending,
            Return, Step, RelinkSynced, At, Goto, durable, files, history, directory,
            process, lease, bounds
<1>5. ASSUME NEW p \in Process, Plans(p) PROVE VisibleInv'
  <2>1. CASE PlanPublish(p)
    BY <2>1 DEF PlanPublish, Plan, At, Goto, durable, files, history, directory,
             process, lease, bounds
  <2>2. CASE PlanManaged(p)
    BY <2>2 DEF PlanManaged, Plan, At, Goto, durable, files, history, directory,
             process, lease, bounds
  <2>3. CASE PlanRollback(p)
    BY <2>3 DEF PlanRollback, Plan, At, Goto, durable, files, history, directory,
             process, lease, bounds
  <2>4. CASE PlanUnpublish(p)
    BY <2>4 DEF PlanUnpublish, Plan, At, Goto, durable, files, history, directory,
             process, lease, bounds
  <2>5. CASE PlanReconcile(p)
    BY <2>5 DEF PlanReconcile, Step, At, Goto, durable, files, history, directory,
             process, lease, bounds
  <2>6. CASE PlanRefused(p)
    BY <2>6 DEF PlanRefused, Return, At, Goto, durable, files, history, directory,
             process, lease, bounds
  <2> QED
    BY <1>5, <2>1, <2>2, <2>3, <2>4, <2>5, <2>6 DEF Plans
<1>6. ASSUME NEW p \in Process, Prepares(p) PROVE VisibleInv'
  BY <1>6 DEF Prepares, CopyCandidate, Reacquire, ReacquireBusy, ArchiveIntent,
            WriteIntent, CreateCandidate, Step, MakeCandidate, Unchanged, Return,
            FreshName, At, Goto, durable, files, history, directory, process, lease,
            bounds
<1>7. ASSUME NEW p \in Process, Activates(p) PROVE VisibleInv'
  BY <1>7 DEF Activates, ActivateCheck, ActivateStage, ActivateSwap, ActivateVerify,
            ActivateUndo, ActivateSync, Step, Return, RelinkSynced, Relink, At, Goto,
            durable, files, history, directory, process, lease, bounds
<1>8. ASSUME NEW p \in Process, Registers(p) PROVE VisibleInv'
  <2>1. CASE RegisterSave(p)
    BY <2>1 DEF RegisterSave, SaveEntry, At, Goto, durable, files, history, directory,
             process, lease, bounds
  <2>2. CASE RegisterCheck(p)
    BY <2>2 DEF RegisterCheck, Step, Return, At, Goto, durable, files, history,
             directory, process, lease, bounds
  <2>3. CASE RegisterInstall(p)
    BY <2>3 DEF RegisterInstall, Step, Return, RelinkSynced, At, Goto, durable, files,
             history, directory, process, lease, bounds
  <2>4. CASE RegisterCommit(p)
    BY <2>4 DEF RegisterCommit, Return, At, Goto, durable, files, history, directory,
             process, lease, bounds
  <2> QED
    BY <1>8, <2>1, <2>2, <2>3, <2>4 DEF Registers
<1>9. ASSUME NEW p \in Process, Unlinks(p) PROVE VisibleInv'
  BY <1>9 DEF Unlinks, UnlinkCheck, Unlink, MarkRemoved, Step, Return, RelinkSynced, At,
            Goto, durable, files, history, directory, process, lease, bounds
<1>10. ASSUME NEW p \in Process, Interrupts(p) PROVE VisibleInv'
  BY <1>10 DEF Interrupts, RecordMissing, Crash, Return, At, Goto, durable, files,
            history, directory, process, lease, bounds
<1>11. ASSUME Environment PROVE VisibleInv'
  BY <1>11 DEF Environment, Resolve, Admit, Retire, SiblingCommits, UserChangesLink,
            BundleDamaged, PowerFails, At, Goto, durable, files, history, directory,
            process, lease, bounds
<1> QED
  BY <1>1, <1>2, <1>3, <1>4, <1>5, <1>6, <1>7, <1>8, <1>9, <1>10, <1>11, StepKinds

\* Activation and restoration stage a complete revision before they name it.
LEMMA CompleteKept == ASSUME IInv, Next, TypeOK' PROVE CompleteInv'
<1>t. /\ pc \in [Process -> Labels]
      /\ mem \in [Process -> Calls]
  BY DEF IInv, TypeOK
<1>i. VisibleInv /\ DirectoryTyped /\ CompleteInv /\ StagingInv /\ ExchangedInv /\
          RestoringInv /\ CallInv /\ SoundInv
  BY TypeIsParts DEF IInv
<1> USE <1>t, <1>i
<1>m. MeddlingGrows /\ HistoryGrows
  BY MeddlingStep, Growth
<1> USE Names, <1>m DEF MeddlingGrows, HistoryGrows
<1> USE DEF CompleteInv, VisibleInv, Proven, DirectoryTyped
<1>1. ASSUME NEW p \in Process, Begin(p) PROVE CompleteInv'
  BY <1>1 DEF Begin, BeginPublish, BeginRollback, BeginUnpublish, BeginReconcile,
            BeginRegister, Acquire, At, Goto, durable, files, history, directory,
            process, lease, bounds
<1>2. ASSUME NEW p \in Process, Recovers(p) PROVE CompleteInv'
  BY <1>2 DEF Recovers, RecoverNothing, RecoverAbort, RecoverCommit, RecoverRestore,
            RecoverRefuse, Step, Decide, Return, At, Goto, durable, files, history,
            directory, process, lease, bounds
<1>3. ASSUME NEW p \in Process, Restores(p) PROVE CompleteInv'
  BY <1>3 DEF Restores, RestoreStage, RestoreSwap, RestoreSync, Step, Return,
            RelinkSynced, RestoringInv, Relink, CallInv, Restoring, SoundInv, Sound,
            Known, TargetOf, At, Goto, durable, files, history, directory, process,
            lease, bounds
<1>4. ASSUME NEW p \in Process, Finishes(p) PROVE CompleteInv'
  BY <1>4 DEF Finishes, FinishSave, FinishResult, FinishClearTemp, FinishClearPending,
            Return, Step, RelinkSynced, At, Goto, durable, files, history, directory,
            process, lease, bounds
<1>5. ASSUME NEW p \in Process, Plans(p) PROVE CompleteInv'
  BY <1>5 DEF Plans, PlanPublish, PlanManaged, PlanRollback, PlanUnpublish,
            PlanReconcile, PlanRefused, Plan, Step, Return, At, Goto, durable, files,
            history, directory, process, lease, bounds
<1>6. ASSUME NEW p \in Process, Prepares(p) PROVE CompleteInv'
  BY <1>6 DEF Prepares, CopyCandidate, Reacquire, ReacquireBusy, ArchiveIntent,
            WriteIntent, CreateCandidate, Step, MakeCandidate, Unchanged, Return,
            FreshName, At, Goto, durable, files, history, directory, process, lease,
            bounds
<1>7. ASSUME NEW p \in Process, Activates(p) PROVE CompleteInv'
  BY <1>7 DEF Activates, ActivateCheck, ActivateStage, ActivateSwap, ActivateVerify,
            ActivateUndo, ActivateSync, Step, Return, RelinkSynced, StagingInv, Relink,
            CallInv, Acting, SoundInv, Sound, ExchangedInv, At, Goto, durable, files,
            history, directory, process, lease, bounds
<1>8. ASSUME NEW p \in Process, Registers(p) PROVE CompleteInv'
  <2>1. CASE RegisterSave(p)
    BY <2>1 DEF RegisterSave, SaveEntry, At, Goto, durable, files, history, directory,
             process, lease, bounds
  <2>2. CASE RegisterCheck(p)
    BY <2>2 DEF RegisterCheck, Step, Return, At, Goto, durable, files, history,
             directory, process, lease, bounds
  <2>3. CASE RegisterInstall(p)
    BY <2>3 DEF RegisterInstall, Step, Return, RelinkSynced, At, Goto, durable, files,
             history, directory, process, lease, bounds, Legacy
  <2>4. CASE RegisterCommit(p)
    BY <2>4 DEF RegisterCommit, Return, At, Goto, durable, files, history, directory,
             process, lease, bounds
  <2> QED
    BY <1>8, <2>1, <2>2, <2>3, <2>4 DEF Registers
<1>9. ASSUME NEW p \in Process, Unlinks(p) PROVE CompleteInv'
  BY <1>9 DEF Unlinks, UnlinkCheck, Unlink, MarkRemoved, Step, Return, RelinkSynced, At,
            Goto, durable, files, history, directory, process, lease, bounds
<1>10. ASSUME NEW p \in Process, Interrupts(p) PROVE CompleteInv'
  BY <1>10 DEF Interrupts, RecordMissing, Crash, Return, At, Goto, durable, files,
            history, directory, process, lease, bounds
<1>11. ASSUME Environment PROVE CompleteInv'
  BY <1>11 DEF Environment, Resolve, Admit, Retire, SiblingCommits, UserChangesLink,
            BundleDamaged, PowerFails, At, Goto, durable, files, history, directory,
            process, lease, bounds
<1> QED
  BY <1>1, <1>2, <1>3, <1>4, <1>5, <1>6, <1>7, <1>8, <1>9, <1>10, <1>11, StepKinds

\* Whenever no temporary name or no intent is left, all but a first publication is synced.
LEMMA TakenBackKept == ASSUME IInv, Next, TypeOK' PROVE TakenBackInv'
<1>t. /\ pc \in [Process -> Labels]
      /\ mem \in [Process -> Calls]
  BY DEF IInv, TypeOK
<1>i. VisibleInv /\ DirectoryTyped /\ TakenBackInv /\ StagingInv /\ CallInv /\ FinishingInv /\
          FilesTyped
  BY TypeIsParts DEF IInv
<1> USE <1>t, <1>i
<1> USE Names
<1> USE DEF TakenBackInv, VisibleInv, DirectoryTyped
<1>1. ASSUME NEW p \in Process, Begin(p) PROVE TakenBackInv'
  BY <1>1 DEF Begin, BeginPublish, BeginRollback, BeginUnpublish, BeginReconcile,
            BeginRegister, Acquire, At, Goto, durable, files, history, directory,
            process, lease, bounds
<1>2. ASSUME NEW p \in Process, Recovers(p) PROVE TakenBackInv'
  BY <1>2 DEF Recovers, RecoverNothing, RecoverAbort, RecoverCommit, RecoverRestore,
            RecoverRefuse, Step, Decide, Return, At, Goto, durable, files, history,
            directory, process, lease, bounds
<1>3. ASSUME NEW p \in Process, Restores(p) PROVE TakenBackInv'
  BY <1>3 DEF Restores, RestoreStage, RestoreSwap, RestoreSync, Step, Return,
            RelinkSynced, CallInv, Restoring, Relink, At, Goto, durable, files, history,
            directory, process, lease, bounds
<1>4. ASSUME NEW p \in Process, Finishes(p) PROVE TakenBackInv'
  BY <1>4 DEF Finishes, FinishSave, FinishResult, FinishClearTemp, FinishClearPending,
            Return, Step, RelinkSynced, FinishingInv, At, Goto, durable, files, history,
            directory, process, lease, bounds
<1>5. ASSUME NEW p \in Process, Plans(p) PROVE TakenBackInv'
  BY <1>5 DEF Plans, PlanPublish, PlanManaged, PlanRollback, PlanUnpublish,
            PlanReconcile, PlanRefused, Plan, Step, Return, At, Goto, durable, files,
            history, directory, process, lease, bounds
<1>6. ASSUME NEW p \in Process, Prepares(p) PROVE TakenBackInv'
  BY <1>6 DEF Prepares, CopyCandidate, Reacquire, ReacquireBusy, ArchiveIntent,
            WriteIntent, CreateCandidate, Step, MakeCandidate, Unchanged, Return,
            FreshName, CallInv, At, Goto, durable, files, history, directory, process,
            lease, bounds
<1>7. ASSUME NEW p \in Process, Activates(p) PROVE TakenBackInv'
  <2>1. CASE ActivateCheck(p)
    BY <2>1 DEF ActivateCheck, Step, Return, At, Goto, durable, files, history,
             directory, process, lease, bounds
  <2>2. CASE ActivateStage(p)
    BY <2>2 DEF ActivateStage, Step, RelinkSynced, At, Goto, durable, files, history,
             directory, process, lease, bounds, StagingInv, CallInv, Acting
  <2>3. CASE ActivateSwap(p)
    <3> DEFINE i == mem[p].intent
    <3>1. CASE UNCHANGED directory
      BY <2>3, <3>1 DEF ActivateSwap, directory
    <3>2. CASE Movable(i) /\ Relink(temp, link)
      <4>1. pc[p] = "swap" /\ pending = i /\ i # None /\ pending' = pending
        BY <2>3 DEF ActivateSwap, At, CallInv, Acting
      <4>2. i.candidate \in Revisions \cup {None}
        BY <4>1, IntentParts DEF FilesTyped
      <4>3. /\ temp = i.candidate /\ \A d \in survivable : d.temp = i.candidate
            /\ i.candidate # None => \A d \in survivable : d.link = link
        BY <4>1 DEF StagingInv
      <4>4. temp' = link /\ link' = temp /\ (link = None => i.candidate # None)
            /\ survivable' = survivable \cup {[link |-> temp, temp |-> link]}
        BY <3>2 DEF Movable, Relink
      <4> QED
        BY <4>1, <4>2, <4>3, <4>4
    <3> QED
      BY <2>3, <3>1, <3>2 DEF ActivateSwap, directory
  <2>4. CASE ActivateVerify(p)
    BY <2>4 DEF ActivateVerify, Step, Return, At, Goto, durable, files, history,
             directory, process, lease, bounds
  <2>5. CASE ActivateUndo(p)
    BY <2>5 DEF ActivateUndo, Return, RelinkSynced, At, Goto, durable, files, history,
             directory, process, lease, bounds, CallInv, Acting, Movable
  <2>6. CASE ActivateSync(p)
    BY <2>6 DEF ActivateSync, RelinkSynced, At, Goto, durable, files, history,
             directory, process, lease, bounds, CallInv, Acting
  <2> QED
    BY <1>7, <2>1, <2>2, <2>3, <2>4, <2>5, <2>6 DEF Activates
<1>8. ASSUME NEW p \in Process, Registers(p) PROVE TakenBackInv'
  <2>1. CASE RegisterSave(p)
    BY <2>1 DEF RegisterSave, SaveEntry, At, Goto, durable, files, history, directory,
             process, lease, bounds
  <2>2. CASE RegisterCheck(p)
    BY <2>2 DEF RegisterCheck, Step, Return, At, Goto, durable, files, history,
             directory, process, lease, bounds
  <2>3. CASE RegisterInstall(p)
    BY <2>3 DEF RegisterInstall, Step, Return, RelinkSynced, At, Goto, durable, files,
             history, directory, process, lease, bounds
  <2>4. CASE RegisterCommit(p)
    BY <2>4 DEF RegisterCommit, Return, At, Goto, durable, files, history, directory,
             process, lease, bounds
  <2> QED
    BY <1>8, <2>1, <2>2, <2>3, <2>4 DEF Registers
<1>9. ASSUME NEW p \in Process, Unlinks(p) PROVE TakenBackInv'
  BY <1>9 DEF Unlinks, UnlinkCheck, Unlink, MarkRemoved, Step, Return, RelinkSynced, At,
            Goto, durable, files, history, directory, process, lease, bounds
<1>10. ASSUME NEW p \in Process, Interrupts(p) PROVE TakenBackInv'
  BY <1>10 DEF Interrupts, RecordMissing, Crash, Return, At, Goto, durable, files,
            history, directory, process, lease, bounds
<1>11. ASSUME Environment PROVE TakenBackInv'
  BY <1>11 DEF Environment, Resolve, Admit, Retire, SiblingCommits, UserChangesLink,
            BundleDamaged, PowerFails, At, Goto, durable, files, history, directory,
            process, lease, bounds
<1> QED
  BY <1>1, <1>2, <1>3, <1>4, <1>5, <1>6, <1>7, <1>8, <1>9, <1>10, <1>11, StepKinds

\* Under the lock the link stays what the plan found, and the staged pointer is the candidate.
LEMMA StagingKept == ASSUME IInv, Next, TypeOK' PROVE StagingInv'
<1>t. /\ pc \in [Process -> Labels]
      /\ mem \in [Process -> Calls]
  BY DEF IInv, TypeOK
<1>i. VisibleInv /\ DirectoryTyped /\ StagingInv /\ CallInv /\ LockInv /\ FilesTyped
  BY TypeIsParts DEF IInv
<1> USE <1>t, <1>i
<1>m. MeddlingGrows /\ HistoryGrows
  BY MeddlingStep, Growth
<1> USE Names, <1>m DEF MeddlingGrows, HistoryGrows
<1> USE DEF StagingInv, VisibleInv, CallInv, LockInv, DirectoryTyped, OfUser, Outside,
           Making, Restoring, Finishing, Planned, Acting, Plain, Unlinking, Guarded,
           Calls
<1>1. ASSUME NEW p \in Process, Begin(p) PROVE StagingInv'
  <2>1. CASE BeginPublish(p)
    BY <2>1 DEF BeginPublish, Acquire, At, Goto, durable, files, history, directory,
             process, lease, bounds, Idle
  <2>2. CASE BeginRollback(p)
    BY <2>2 DEF BeginRollback, Acquire, At, Goto, durable, files, history, directory,
             process, lease, bounds, Idle
  <2>3. CASE BeginUnpublish(p)
    BY <2>3 DEF BeginUnpublish, Acquire, At, Goto, durable, files, history, directory,
             process, lease, bounds, Idle
  <2>4. CASE BeginReconcile(p)
    BY <2>4 DEF BeginReconcile, Acquire, At, Goto, durable, files, history, directory,
             process, lease, bounds, Idle
  <2>5. CASE BeginRegister(p)
    BY <2>5 DEF BeginRegister, Acquire, At, Goto, durable, files, history, directory,
             process, lease, bounds, Idle
  <2> QED
    BY <1>1, <2>1, <2>2, <2>3, <2>4, <2>5 DEF Begin
<1>2. ASSUME NEW p \in Process, Recovers(p) PROVE StagingInv'
  BY <1>2 DEF Recovers, RecoverNothing, RecoverAbort, RecoverCommit, RecoverRestore,
            RecoverRefuse, Step, Decide, Return, Idle, At, Goto, durable, files,
            history, directory, process, lease, bounds
<1>3. ASSUME NEW p \in Process, Restores(p) PROVE StagingInv'
  BY <1>3 DEF Restores, RestoreStage, RestoreSwap, RestoreSync, Step, Return,
            RelinkSynced, Idle, Relink, At, Goto, durable, files, history, directory,
            process, lease, bounds
<1>4. ASSUME NEW p \in Process, Finishes(p) PROVE StagingInv'
  BY <1>4 DEF Finishes, FinishSave, FinishResult, FinishClearTemp, FinishClearPending,
            Return, Idle, Step, RelinkSynced, At, Goto, durable, files, history,
            directory, process, lease, bounds
<1>5. ASSUME NEW p \in Process, Plans(p) PROVE StagingInv'
  <2>1. CASE PlanPublish(p)
    BY <2>1 DEF PlanPublish, Plan, At, Goto, durable, files, history, directory,
             process, lease, bounds, Adoptable, NewIntent, CopyInv
  <2>2. CASE PlanManaged(p)
    BY <2>2 DEF PlanManaged, Plan, At, Goto, durable, files, history, directory,
             process, lease, bounds, Adoptable, NewIntent, CopyInv
  <2>3. CASE PlanRollback(p)
    BY <2>3 DEF PlanRollback, Plan, At, Goto, durable, files, history, directory,
             process, lease, bounds, Adoptable, NewIntent, CopyInv
  <2>4. CASE PlanUnpublish(p)
    BY <2>4 DEF PlanUnpublish, Plan, At, Goto, durable, files, history, directory,
             process, lease, bounds, Adoptable, NewIntent, CopyInv
  <2>5. CASE PlanReconcile(p)
    BY <2>5 DEF PlanReconcile, Step, At, Goto, durable, files, history, directory,
             process, lease, bounds
  <2>6. CASE PlanRefused(p)
    BY <2>6 DEF PlanRefused, Return, At, Goto, durable, files, history, directory,
             process, lease, bounds, Idle
  <2> QED
    BY <1>5, <2>1, <2>2, <2>3, <2>4, <2>5, <2>6 DEF Plans
<1>6. ASSUME NEW p \in Process, Prepares(p) PROVE StagingInv'
  BY <1>6 DEF Prepares, CopyCandidate, Reacquire, ReacquireBusy, ArchiveIntent,
            WriteIntent, CreateCandidate, Step, MakeCandidate, Unchanged, Return, Idle,
            FreshName, At, Goto, durable, files, history, directory, process, lease,
            bounds
<1>7. ASSUME NEW p \in Process, Activates(p) PROVE StagingInv'
  BY <1>7 DEF Activates, ActivateCheck, ActivateStage, ActivateSwap, ActivateVerify,
            ActivateUndo, ActivateSync, Step, Return, Loadable, Idle, RelinkSynced,
            Relink, At, Goto, durable, files, history, directory, process, lease, bounds
<1>8. ASSUME NEW p \in Process, Registers(p) PROVE StagingInv'
  <2>1. CASE RegisterSave(p)
    BY <2>1 DEF RegisterSave, SaveEntry, At, Goto, durable, files, history, directory,
             process, lease, bounds
  <2>2. CASE RegisterCheck(p)
    BY <2>2 DEF RegisterCheck, Step, Return, At, Goto, durable, files, history,
             directory, process, lease, bounds, Idle
  <2>3. CASE RegisterInstall(p)
    BY <2>3 DEF RegisterInstall, Step, Return, RelinkSynced, At, Goto, durable, files,
             history, directory, process, lease, bounds, Idle
  <2>4. CASE RegisterCommit(p)
    BY <2>4 DEF RegisterCommit, Return, At, Goto, durable, files, history, directory,
             process, lease, bounds, Idle
  <2> QED
    BY <1>8, <2>1, <2>2, <2>3, <2>4 DEF Registers
<1>9. ASSUME NEW p \in Process, Unlinks(p) PROVE StagingInv'
  BY <1>9 DEF Unlinks, UnlinkCheck, Unlink, MarkRemoved, Step, Return, Idle,
            RelinkSynced, At, Goto, durable, files, history, directory, process, lease,
            bounds
<1>10. ASSUME NEW p \in Process, Interrupts(p) PROVE StagingInv'
  BY <1>10 DEF Interrupts, RecordMissing, Crash, Return, Idle, At, Goto, durable, files,
            history, directory, process, lease, bounds
<1>11. ASSUME Environment PROVE StagingInv'
  <2>1. CASE Resolve
    BY <2>1 DEF Resolve, At, Goto, durable, files, history, directory, process, lease,
             bounds
  <2>2. CASE Admit
    BY <2>2 DEF Admit, At, Goto, durable, files, history, directory, process, lease,
             bounds
  <2>3. CASE Retire
    BY <2>3 DEF Retire, At, Goto, durable, files, history, directory, process, lease,
             bounds
  <2>4. CASE SiblingCommits
    BY <2>4 DEF SiblingCommits, At, Goto, durable, files, history, directory, process,
             lease, bounds
  <2>5. CASE UserChangesLink
    BY <2>5, UserMeddles DEF UserChangesLink, OfUser, IInv, At, Goto, durable, files,
         history, directory, process, lease, bounds
  <2>6. CASE BundleDamaged
    BY <2>6 DEF BundleDamaged, At, Goto, durable, files, history, directory, process,
             lease, bounds
  <2>7. CASE PowerFails
    BY <2>7 DEF PowerFails, At, Goto, durable, files, history, directory, process,
             lease, bounds, Idle
  <2> QED
    BY <1>11, <2>1, <2>2, <2>3, <2>4, <2>5, <2>6, <2>7 DEF Environment
<1> QED
  BY <1>1, <1>2, <1>3, <1>4, <1>5, <1>6, <1>7, <1>8, <1>9, <1>10, <1>11, StepKinds

\* The exchange puts the candidate at the link and the prior at the temporary name.
LEMMA ExchangedKept == ASSUME IInv, Next, TypeOK' PROVE ExchangedInv'
<1>t. /\ pc \in [Process -> Labels]
      /\ mem \in [Process -> Calls]
  BY DEF IInv, TypeOK
<1>i. VisibleInv /\ DirectoryTyped /\ ExchangedInv /\ CompleteInv /\ StagingInv /\ CallInv /\
          LockInv /\ FilesTyped
  BY TypeIsParts DEF IInv
<1> USE <1>t, <1>i
<1>m. MeddlingGrows /\ HistoryGrows
  BY MeddlingStep, Growth
<1> USE Names, <1>m DEF MeddlingGrows, HistoryGrows
<1> USE DEF ExchangedInv, VisibleInv, CallInv, LockInv, DirectoryTyped, Agree, Proven,
           Outside, Making, Restoring, Finishing, Planned, Acting, Plain, Unlinking,
           Guarded, Calls
<1>1. ASSUME NEW p \in Process, Begin(p) PROVE ExchangedInv'
  <2>1. CASE BeginPublish(p)
    BY <2>1 DEF BeginPublish, Acquire, At, Goto, durable, files, history, directory,
             process, lease, bounds, Idle
  <2>2. CASE BeginRollback(p)
    BY <2>2 DEF BeginRollback, Acquire, At, Goto, durable, files, history, directory,
             process, lease, bounds, Idle
  <2>3. CASE BeginUnpublish(p)
    BY <2>3 DEF BeginUnpublish, Acquire, At, Goto, durable, files, history, directory,
             process, lease, bounds, Idle
  <2>4. CASE BeginReconcile(p)
    BY <2>4 DEF BeginReconcile, Acquire, At, Goto, durable, files, history, directory,
             process, lease, bounds, Idle
  <2>5. CASE BeginRegister(p)
    BY <2>5 DEF BeginRegister, Acquire, At, Goto, durable, files, history, directory,
             process, lease, bounds, Idle
  <2> QED
    BY <1>1, <2>1, <2>2, <2>3, <2>4, <2>5 DEF Begin
<1>2. ASSUME NEW p \in Process, Recovers(p) PROVE ExchangedInv'
  BY <1>2 DEF Recovers, RecoverNothing, RecoverAbort, RecoverCommit, RecoverRestore,
            RecoverRefuse, Step, Decide, Return, Idle, At, Goto, durable, files,
            history, directory, process, lease, bounds
<1>3. ASSUME NEW p \in Process, Restores(p) PROVE ExchangedInv'
  BY <1>3 DEF Restores, RestoreStage, RestoreSwap, RestoreSync, Step, Return,
            RelinkSynced, Idle, Relink, At, Goto, durable, files, history, directory,
            process, lease, bounds
<1>4. ASSUME NEW p \in Process, Finishes(p) PROVE ExchangedInv'
  BY <1>4 DEF Finishes, FinishSave, FinishResult, FinishClearTemp, FinishClearPending,
            Return, Idle, Step, RelinkSynced, At, Goto, durable, files, history,
            directory, process, lease, bounds
<1>5. ASSUME NEW p \in Process, Plans(p) PROVE ExchangedInv'
  <2>1. CASE PlanPublish(p)
    BY <2>1 DEF PlanPublish, Plan, At, Goto, durable, files, history, directory,
             process, lease, bounds
  <2>2. CASE PlanManaged(p)
    BY <2>2 DEF PlanManaged, Plan, At, Goto, durable, files, history, directory,
             process, lease, bounds
  <2>3. CASE PlanRollback(p)
    BY <2>3 DEF PlanRollback, Plan, At, Goto, durable, files, history, directory,
             process, lease, bounds
  <2>4. CASE PlanUnpublish(p)
    BY <2>4 DEF PlanUnpublish, Plan, At, Goto, durable, files, history, directory,
             process, lease, bounds
  <2>5. CASE PlanReconcile(p)
    BY <2>5 DEF PlanReconcile, Step, At, Goto, durable, files, history, directory,
             process, lease, bounds
  <2>6. CASE PlanRefused(p)
    BY <2>6 DEF PlanRefused, Return, At, Goto, durable, files, history, directory,
             process, lease, bounds, Idle
  <2> QED
    BY <1>5, <2>1, <2>2, <2>3, <2>4, <2>5, <2>6 DEF Plans
<1>6. ASSUME NEW p \in Process, Prepares(p) PROVE ExchangedInv'
  BY <1>6 DEF Prepares, CopyCandidate, Reacquire, ReacquireBusy, ArchiveIntent,
            WriteIntent, CreateCandidate, Step, MakeCandidate, Unchanged, Return, Idle,
            FreshName, At, Goto, durable, files, history, directory, process, lease,
            bounds
<1>7. ASSUME NEW p \in Process, Activates(p) PROVE ExchangedInv'
  BY <1>7 DEF Activates, ActivateCheck, ActivateStage, ActivateSwap, ActivateVerify,
            ActivateUndo, ActivateSync, Step, Return, Idle, RelinkSynced, Relink,
            StagingInv, CompleteInv, At, Goto, durable, files, history, directory,
            process, lease, bounds
<1>8. ASSUME NEW p \in Process, Registers(p) PROVE ExchangedInv'
  <2>1. CASE RegisterSave(p)
    BY <2>1 DEF RegisterSave, SaveEntry, At, Goto, durable, files, history, directory,
             process, lease, bounds
  <2>2. CASE RegisterCheck(p)
    BY <2>2 DEF RegisterCheck, Step, Return, At, Goto, durable, files, history,
             directory, process, lease, bounds, Idle
  <2>3. CASE RegisterInstall(p)
    BY <2>3 DEF RegisterInstall, Step, Return, RelinkSynced, At, Goto, durable, files,
             history, directory, process, lease, bounds, Idle
  <2>4. CASE RegisterCommit(p)
    BY <2>4 DEF RegisterCommit, Return, At, Goto, durable, files, history, directory,
             process, lease, bounds, Idle
  <2> QED
    BY <1>8, <2>1, <2>2, <2>3, <2>4 DEF Registers
<1>9. ASSUME NEW p \in Process, Unlinks(p) PROVE ExchangedInv'
  BY <1>9 DEF Unlinks, UnlinkCheck, Unlink, MarkRemoved, Step, Return, Idle,
            RelinkSynced, At, Goto, durable, files, history, directory, process, lease,
            bounds
<1>10. ASSUME NEW p \in Process, Interrupts(p) PROVE ExchangedInv'
  BY <1>10 DEF Interrupts, RecordMissing, Crash, Return, Idle, At, Goto, durable, files,
            history, directory, process, lease, bounds
<1>11. ASSUME Environment PROVE ExchangedInv'
  <2>1. CASE Resolve
    BY <2>1 DEF Resolve, At, Goto, durable, files, history, directory, process, lease,
             bounds
  <2>2. CASE Admit
    BY <2>2 DEF Admit, At, Goto, durable, files, history, directory, process, lease,
             bounds
  <2>3. CASE Retire
    BY <2>3 DEF Retire, At, Goto, durable, files, history, directory, process, lease,
             bounds
  <2>4. CASE SiblingCommits
    BY <2>4 DEF SiblingCommits, At, Goto, durable, files, history, directory, process,
             lease, bounds
  <2>5. CASE UserChangesLink
    BY <2>5, UserMeddles DEF UserChangesLink, OfUser, IInv, At, Goto, durable, files,
         history, directory, process, lease, bounds
  <2>6. CASE BundleDamaged
    BY <2>6 DEF BundleDamaged, At, Goto, durable, files, history, directory, process,
             lease, bounds
  <2>7. CASE PowerFails
    BY <2>7 DEF PowerFails, At, Goto, durable, files, history, directory, process,
             lease, bounds, Idle
  <2> QED
    BY <1>11, <2>1, <2>2, <2>3, <2>4, <2>5, <2>6, <2>7 DEF Environment
<1> QED
  BY <1>1, <1>2, <1>3, <1>4, <1>5, <1>6, <1>7, <1>8, <1>9, <1>10, <1>11, StepKinds

\* The restoration puts the prior back.
LEMMA RestoringKept == ASSUME IInv, Next, TypeOK' PROVE RestoringInv'
<1>t. /\ pc \in [Process -> Labels]
      /\ mem \in [Process -> Calls]
  BY DEF IInv, TypeOK
<1>i. VisibleInv /\ DirectoryTyped /\ RestoringInv /\ SoundInv /\ CallInv /\ LockInv /\
          FilesTyped
  BY TypeIsParts DEF IInv
<1> USE <1>t, <1>i
<1>m. MeddlingGrows /\ HistoryGrows
  BY MeddlingStep, Growth
<1> USE Names, <1>m DEF MeddlingGrows, HistoryGrows
<1> USE DEF RestoringInv, VisibleInv, CallInv, LockInv, DirectoryTyped, Agree, Outside,
           Making, Restoring, Finishing, Planned, Acting, Plain, Unlinking, Guarded,
           Calls
<1>1. ASSUME NEW p \in Process, Begin(p) PROVE RestoringInv'
  <2>1. CASE BeginPublish(p)
    BY <2>1 DEF BeginPublish, Acquire, At, Goto, durable, files, history, directory,
             process, lease, bounds, Idle
  <2>2. CASE BeginRollback(p)
    BY <2>2 DEF BeginRollback, Acquire, At, Goto, durable, files, history, directory,
             process, lease, bounds, Idle
  <2>3. CASE BeginUnpublish(p)
    BY <2>3 DEF BeginUnpublish, Acquire, At, Goto, durable, files, history, directory,
             process, lease, bounds, Idle
  <2>4. CASE BeginReconcile(p)
    BY <2>4 DEF BeginReconcile, Acquire, At, Goto, durable, files, history, directory,
             process, lease, bounds, Idle
  <2>5. CASE BeginRegister(p)
    BY <2>5 DEF BeginRegister, Acquire, At, Goto, durable, files, history, directory,
             process, lease, bounds, Idle
  <2> QED
    BY <1>1, <2>1, <2>2, <2>3, <2>4, <2>5 DEF Begin
<1>2. ASSUME NEW p \in Process, Recovers(p) PROVE RestoringInv'
  BY <1>2 DEF Recovers, RecoverNothing, RecoverAbort, RecoverCommit, RecoverRestore,
            RecoverRefuse, Step, Decide, SoundInv, Sound, Loadable, TargetOf, Known,
            Absent, Return, Idle, At, Goto, durable, files, history, directory, process,
            lease, bounds
<1>3. ASSUME NEW p \in Process, Restores(p) PROVE RestoringInv'
  BY <1>3 DEF Restores, RestoreStage, RestoreSwap, RestoreSync, Step, Return,
            RelinkSynced, Idle, Relink, At, Goto, durable, files, history, directory,
            process, lease, bounds
<1>4. ASSUME NEW p \in Process, Finishes(p) PROVE RestoringInv'
  BY <1>4 DEF Finishes, FinishSave, FinishResult, FinishClearTemp, FinishClearPending,
            Return, Idle, Step, RelinkSynced, At, Goto, durable, files, history,
            directory, process, lease, bounds
<1>5. ASSUME NEW p \in Process, Plans(p) PROVE RestoringInv'
  <2>1. CASE PlanPublish(p)
    BY <2>1 DEF PlanPublish, Plan, At, Goto, durable, files, history, directory,
             process, lease, bounds
  <2>2. CASE PlanManaged(p)
    BY <2>2 DEF PlanManaged, Plan, At, Goto, durable, files, history, directory,
             process, lease, bounds
  <2>3. CASE PlanRollback(p)
    BY <2>3 DEF PlanRollback, Plan, At, Goto, durable, files, history, directory,
             process, lease, bounds
  <2>4. CASE PlanUnpublish(p)
    BY <2>4 DEF PlanUnpublish, Plan, At, Goto, durable, files, history, directory,
             process, lease, bounds
  <2>5. CASE PlanReconcile(p)
    BY <2>5 DEF PlanReconcile, Step, At, Goto, durable, files, history, directory,
             process, lease, bounds
  <2>6. CASE PlanRefused(p)
    BY <2>6 DEF PlanRefused, Return, At, Goto, durable, files, history, directory,
             process, lease, bounds, Idle
  <2> QED
    BY <1>5, <2>1, <2>2, <2>3, <2>4, <2>5, <2>6 DEF Plans
<1>6. ASSUME NEW p \in Process, Prepares(p) PROVE RestoringInv'
  BY <1>6 DEF Prepares, CopyCandidate, Reacquire, ReacquireBusy, ArchiveIntent,
            WriteIntent, CreateCandidate, Step, MakeCandidate, Unchanged, Return, Idle,
            FreshName, At, Goto, durable, files, history, directory, process, lease,
            bounds
<1>7. ASSUME NEW p \in Process, Activates(p) PROVE RestoringInv'
  BY <1>7 DEF Activates, ActivateCheck, ActivateStage, ActivateSwap, ActivateVerify,
            ActivateUndo, ActivateSync, Step, Return, Idle, RelinkSynced, Relink, At,
            Goto, durable, files, history, directory, process, lease, bounds
<1>8. ASSUME NEW p \in Process, Registers(p) PROVE RestoringInv'
  <2>1. CASE RegisterSave(p)
    BY <2>1 DEF RegisterSave, SaveEntry, At, Goto, durable, files, history, directory,
             process, lease, bounds
  <2>2. CASE RegisterCheck(p)
    BY <2>2 DEF RegisterCheck, Step, Return, At, Goto, durable, files, history,
             directory, process, lease, bounds, Idle
  <2>3. CASE RegisterInstall(p)
    BY <2>3 DEF RegisterInstall, Step, Return, RelinkSynced, At, Goto, durable, files,
             history, directory, process, lease, bounds, Idle
  <2>4. CASE RegisterCommit(p)
    BY <2>4 DEF RegisterCommit, Return, At, Goto, durable, files, history, directory,
             process, lease, bounds, Idle
  <2> QED
    BY <1>8, <2>1, <2>2, <2>3, <2>4 DEF Registers
<1>9. ASSUME NEW p \in Process, Unlinks(p) PROVE RestoringInv'
  BY <1>9 DEF Unlinks, UnlinkCheck, Unlink, MarkRemoved, Step, Return, Idle,
            RelinkSynced, At, Goto, durable, files, history, directory, process, lease,
            bounds
<1>10. ASSUME NEW p \in Process, Interrupts(p) PROVE RestoringInv'
  BY <1>10 DEF Interrupts, RecordMissing, Crash, Return, Idle, At, Goto, durable, files,
            history, directory, process, lease, bounds
<1>11. ASSUME Environment PROVE RestoringInv'
  <2>1. CASE Resolve
    BY <2>1 DEF Resolve, At, Goto, durable, files, history, directory, process, lease,
             bounds
  <2>2. CASE Admit
    BY <2>2 DEF Admit, At, Goto, durable, files, history, directory, process, lease,
             bounds
  <2>3. CASE Retire
    BY <2>3 DEF Retire, At, Goto, durable, files, history, directory, process, lease,
             bounds
  <2>4. CASE SiblingCommits
    BY <2>4 DEF SiblingCommits, At, Goto, durable, files, history, directory, process,
             lease, bounds
  <2>5. CASE UserChangesLink
    BY <2>5, UserMeddles DEF UserChangesLink, OfUser, IInv, At, Goto, durable, files,
         history, directory, process, lease, bounds
  <2>6. CASE BundleDamaged
    BY <2>6 DEF BundleDamaged, At, Goto, durable, files, history, directory, process,
             lease, bounds
  <2>7. CASE PowerFails
    BY <2>7 DEF PowerFails, At, Goto, durable, files, history, directory, process,
             lease, bounds, Idle
  <2> QED
    BY <1>11, <2>1, <2>2, <2>3, <2>4, <2>5, <2>6, <2>7 DEF Environment
<1> QED
  BY <1>1, <1>2, <1>3, <1>4, <1>5, <1>6, <1>7, <1>8, <1>9, <1>10, <1>11, StepKinds

\* A call that finishes finds the link its outcome stands for.
LEMMA FinishingKept == ASSUME IInv, Next, TypeOK' PROVE FinishingInv'
<1>t. /\ pc \in [Process -> Labels]
      /\ mem \in [Process -> Calls]
  BY DEF IInv, TypeOK
<1>i. VisibleInv /\ DirectoryTyped /\ FinishingInv /\ ExchangedInv /\ RestoringInv /\
          OutcomeInv /\ CallInv /\ LockInv /\ FilesTyped
  BY TypeIsParts DEF IInv
<1> USE <1>t, <1>i
<1>m. MeddlingGrows /\ HistoryGrows
  BY MeddlingStep, Growth
<1> USE Names, <1>m DEF MeddlingGrows, HistoryGrows
<1> USE DEF FinishingInv, VisibleInv, CallInv, LockInv, DirectoryTyped, Agree, OfUser,
           Outside, Making, Restoring, Finishing, Planned, Acting, Plain, Unlinking,
           Guarded, Calls
<1>1. ASSUME NEW p \in Process, Begin(p) PROVE FinishingInv'
  <2>1. CASE BeginPublish(p)
    BY <2>1 DEF BeginPublish, Acquire, At, Goto, durable, files, history, directory,
             process, lease, bounds, Idle
  <2>2. CASE BeginRollback(p)
    BY <2>2 DEF BeginRollback, Acquire, At, Goto, durable, files, history, directory,
             process, lease, bounds, Idle
  <2>3. CASE BeginUnpublish(p)
    BY <2>3 DEF BeginUnpublish, Acquire, At, Goto, durable, files, history, directory,
             process, lease, bounds, Idle
  <2>4. CASE BeginReconcile(p)
    BY <2>4 DEF BeginReconcile, Acquire, At, Goto, durable, files, history, directory,
             process, lease, bounds, Idle
  <2>5. CASE BeginRegister(p)
    BY <2>5 DEF BeginRegister, Acquire, At, Goto, durable, files, history, directory,
             process, lease, bounds, Idle
  <2> QED
    BY <1>1, <2>1, <2>2, <2>3, <2>4, <2>5 DEF Begin
<1>2. ASSUME NEW p \in Process, Recovers(p) PROVE FinishingInv'
  BY <1>2 DEF Recovers, RecoverNothing, RecoverAbort, RecoverCommit, RecoverRestore,
            RecoverRefuse, Step, Decide, PriorActive, Return, Idle, At, Goto, durable,
            files, history, directory, process, lease, bounds
<1>3. ASSUME NEW p \in Process, Restores(p) PROVE FinishingInv'
  BY <1>3 DEF Restores, RestoreStage, RestoreSwap, RestoreSync, Step, Return,
            RelinkSynced, Idle, Relink, RestoringInv, OutcomeInv, At, Goto, durable,
            files, history, directory, process, lease, bounds
<1>4. ASSUME NEW p \in Process, Finishes(p) PROVE FinishingInv'
  BY <1>4 DEF Finishes, FinishSave, FinishResult, FinishClearTemp, FinishClearPending,
            Return, Idle, Step, RelinkSynced, At, Goto, durable, files, history,
            directory, process, lease, bounds
<1>5. ASSUME NEW p \in Process, Plans(p) PROVE FinishingInv'
  <2>1. CASE PlanPublish(p)
    BY <2>1 DEF PlanPublish, Plan, At, Goto, durable, files, history, directory,
             process, lease, bounds
  <2>2. CASE PlanManaged(p)
    BY <2>2 DEF PlanManaged, Plan, At, Goto, durable, files, history, directory,
             process, lease, bounds
  <2>3. CASE PlanRollback(p)
    BY <2>3 DEF PlanRollback, Plan, At, Goto, durable, files, history, directory,
             process, lease, bounds
  <2>4. CASE PlanUnpublish(p)
    BY <2>4 DEF PlanUnpublish, Plan, At, Goto, durable, files, history, directory,
             process, lease, bounds
  <2>5. CASE PlanReconcile(p)
    BY <2>5 DEF PlanReconcile, Step, At, Goto, durable, files, history, directory,
             process, lease, bounds
  <2>6. CASE PlanRefused(p)
    BY <2>6 DEF PlanRefused, Return, At, Goto, durable, files, history, directory,
             process, lease, bounds, Idle
  <2> QED
    BY <1>5, <2>1, <2>2, <2>3, <2>4, <2>5, <2>6 DEF Plans
<1>6. ASSUME NEW p \in Process, Prepares(p) PROVE FinishingInv'
  BY <1>6 DEF Prepares, CopyCandidate, Reacquire, ReacquireBusy, ArchiveIntent,
            WriteIntent, CreateCandidate, Step, MakeCandidate, Unchanged, Return, Idle,
            FreshName, At, Goto, durable, files, history, directory, process, lease,
            bounds
<1>7. ASSUME NEW p \in Process, Activates(p) PROVE FinishingInv'
  BY <1>7 DEF Activates, ActivateCheck, ActivateStage, ActivateSwap, ActivateVerify,
            ActivateUndo, ActivateSync, Step, Return, Idle, RelinkSynced, Relink,
            ExchangedInv, At, Goto, durable, files, history, directory, process, lease,
            bounds
<1>8. ASSUME NEW p \in Process, Registers(p) PROVE FinishingInv'
  <2>1. CASE RegisterSave(p)
    BY <2>1 DEF RegisterSave, SaveEntry, At, Goto, durable, files, history, directory,
             process, lease, bounds
  <2>2. CASE RegisterCheck(p)
    BY <2>2 DEF RegisterCheck, Step, Return, At, Goto, durable, files, history,
             directory, process, lease, bounds, Idle
  <2>3. CASE RegisterInstall(p)
    BY <2>3 DEF RegisterInstall, Step, Return, RelinkSynced, At, Goto, durable, files,
             history, directory, process, lease, bounds, Idle
  <2>4. CASE RegisterCommit(p)
    BY <2>4 DEF RegisterCommit, Return, At, Goto, durable, files, history, directory,
             process, lease, bounds, Idle
  <2> QED
    BY <1>8, <2>1, <2>2, <2>3, <2>4 DEF Registers
<1>9. ASSUME NEW p \in Process, Unlinks(p) PROVE FinishingInv'
  BY <1>9 DEF Unlinks, UnlinkCheck, Unlink, MarkRemoved, Step, Return, Idle,
            RelinkSynced, At, Goto, durable, files, history, directory, process, lease,
            bounds
<1>10. ASSUME NEW p \in Process, Interrupts(p) PROVE FinishingInv'
  BY <1>10 DEF Interrupts, RecordMissing, Crash, Return, Idle, At, Goto, durable, files,
            history, directory, process, lease, bounds
<1>11. ASSUME Environment PROVE FinishingInv'
  <2>1. CASE Resolve
    BY <2>1 DEF Resolve, At, Goto, durable, files, history, directory, process, lease,
             bounds
  <2>2. CASE Admit
    BY <2>2 DEF Admit, At, Goto, durable, files, history, directory, process, lease,
             bounds
  <2>3. CASE Retire
    BY <2>3 DEF Retire, At, Goto, durable, files, history, directory, process, lease,
             bounds
  <2>4. CASE SiblingCommits
    BY <2>4 DEF SiblingCommits, At, Goto, durable, files, history, directory, process,
             lease, bounds
  <2>5. CASE UserChangesLink
    BY <2>5, UserMeddles DEF UserChangesLink, OfUser, IInv, At, Goto, durable, files,
         history, directory, process, lease, bounds
  <2>6. CASE BundleDamaged
    BY <2>6 DEF BundleDamaged, At, Goto, durable, files, history, directory, process,
             lease, bounds
  <2>7. CASE PowerFails
    BY <2>7 DEF PowerFails, At, Goto, durable, files, history, directory, process,
             lease, bounds, Idle
  <2> QED
    BY <1>11, <2>1, <2>2, <2>3, <2>4, <2>5, <2>6, <2>7 DEF Environment
<1> QED
  BY <1>1, <1>2, <1>3, <1>4, <1>5, <1>6, <1>7, <1>8, <1>9, <1>10, <1>11, StepKinds

\* The link directory stays the pending transaction's.
LEMMA PendingKept == ASSUME IInv, Next, TypeOK' PROVE PendingInv'
<1>t. /\ pc \in [Process -> Labels]
  BY DEF IInv, TypeOK
<1>i. PendingInv /\ VisibleInv /\ DirectoryTyped /\ StagingInv /\ ExchangedInv /\
          RestoringInv /\ OutcomeInv /\ PlanInv /\ CopyInv /\ CallInv /\ LockInv /\
          FilesTyped /\ RegistryTyped /\ SoundInv
  BY TypeIsParts DEF IInv
<1> USE <1>t, <1>i
<1>m. MeddlingGrows /\ HistoryGrows
  BY MeddlingStep, Growth
<1> USE Names, <1>m DEF MeddlingGrows, HistoryGrows
<1>c. mem \in [Process -> Calls]
  BY DEF IInv, TypeOK
<1> USE DEF PendingInv, VisibleInv, DirectoryTyped
<1>1. ASSUME NEW p \in Process, Begin(p) PROVE PendingInv'
  <2>1. CASE BeginPublish(p)
    BY <2>1 DEF BeginPublish, Acquire, At, Goto, durable, files, history, directory,
             process, lease, bounds
  <2>2. CASE BeginRollback(p)
    BY <2>2 DEF BeginRollback, Acquire, At, Goto, durable, files, history, directory,
             process, lease, bounds
  <2>3. CASE BeginUnpublish(p)
    BY <2>3 DEF BeginUnpublish, Acquire, At, Goto, durable, files, history, directory,
             process, lease, bounds
  <2>4. CASE BeginReconcile(p)
    BY <2>4 DEF BeginReconcile, Acquire, At, Goto, durable, files, history, directory,
             process, lease, bounds
  <2>5. CASE BeginRegister(p)
    BY <2>5 DEF BeginRegister, Acquire, At, Goto, durable, files, history, directory,
             process, lease, bounds
  <2> QED
    BY <1>1, <2>1, <2>2, <2>3, <2>4, <2>5 DEF Begin
<1>2. ASSUME NEW p \in Process, Recovers(p) PROVE PendingInv'
  BY <1>2 DEF Recovers, RecoverNothing, RecoverAbort, RecoverCommit, RecoverRestore,
            RecoverRefuse, Step, Decide, Return, At, Goto, durable, files, history,
            directory, process, lease, bounds
<1>3. ASSUME NEW p \in Process, Restores(p) PROVE PendingInv'
  BY <1>3 DEF Restores, RestoreStage, RestoreSwap, RestoreSync, Step, Return,
            RelinkSynced, CallInv, Restoring, Relink, RestoringInv, At, Goto, durable,
            files, history, directory, process, lease, bounds
<1>4. ASSUME NEW p \in Process, Finishes(p) PROVE PendingInv'
  <2>1. CASE FinishSave(p)
    <3>1. pending = mem[p].intent /\ lock = p /\ mem[p].db = registry
      BY <2>1 DEF FinishSave, At, CallInv, Finishing, LockInv, CopyInv, Outside
    <3>2. registry' = registry \/ registry'.entry = Finished(pending, mem[p].outcome)
      BY <2>1, <3>1 DEF FinishSave, RegistryTyped, Registries
    <3>3. pending # None /\ pending.entry.managed => registry'.entry.managed
      BY <3>1, <3>2 DEF PendingInv, Finished, Entry
    <3> QED
      BY <2>1, <3>3 DEF FinishSave, files, directory, bounds
  <2>2. CASE FinishResult(p)
    BY <2>2 DEF FinishResult, Step, At, Goto, durable, files, history, directory,
             process, lease, bounds
  <2>3. CASE FinishClearTemp(p)
    BY <2>3 DEF FinishClearTemp, Step, Return, RelinkSynced, At, Goto, durable, files,
             history, directory, process, lease, bounds
  <2>4. CASE FinishClearPending(p)
    BY <2>4 DEF FinishClearPending, Return, At, Goto, durable, files, history,
             directory, process, lease, bounds
  <2> QED
    BY <1>4, <2>1, <2>2, <2>3, <2>4 DEF Finishes
<1>5. ASSUME NEW p \in Process, Plans(p) PROVE PendingInv'
  <2>1. CASE PlanPublish(p)
    BY <2>1 DEF PlanPublish, Plan, At, Goto, durable, files, history, directory,
             process, lease, bounds
  <2>2. CASE PlanManaged(p)
    BY <2>2 DEF PlanManaged, Plan, At, Goto, durable, files, history, directory,
             process, lease, bounds
  <2>3. CASE PlanRollback(p)
    BY <2>3 DEF PlanRollback, Plan, At, Goto, durable, files, history, directory,
             process, lease, bounds
  <2>4. CASE PlanUnpublish(p)
    BY <2>4 DEF PlanUnpublish, Plan, At, Goto, durable, files, history, directory,
             process, lease, bounds
  <2>5. CASE PlanReconcile(p)
    BY <2>5 DEF PlanReconcile, Step, At, Goto, durable, files, history, directory,
             process, lease, bounds
  <2>6. CASE PlanRefused(p)
    BY <2>6 DEF PlanRefused, Return, At, Goto, durable, files, history, directory,
             process, lease, bounds
  <2> QED
    BY <1>5, <2>1, <2>2, <2>3, <2>4, <2>5, <2>6 DEF Plans
<1>6. ASSUME NEW p \in Process, Prepares(p) PROVE PendingInv'
  BY <1>6 DEF Prepares, CopyCandidate, Reacquire, ReacquireBusy, ArchiveIntent,
            WriteIntent, CreateCandidate, Step, MakeCandidate, Unchanged, Return,
            FreshName, CallInv, PlanInv, Planned, CopyInv, LockInv, Outside, StagingInv,
            At, Goto, durable, files, history, directory, process, lease, bounds
<1>7. ASSUME NEW p \in Process, Activates(p) PROVE PendingInv'
  BY <1>7 DEF Activates, ActivateCheck, ActivateStage, ActivateSwap, ActivateVerify,
            ActivateUndo, ActivateSync, Step, Return, RelinkSynced, CallInv, Acting,
            Relink, StagingInv, ExchangedInv, At, Goto, durable, files, history,
            directory, process, lease, bounds
<1>8. ASSUME NEW p \in Process, Registers(p) PROVE PendingInv'
  BY <1>8 DEF Registers, RegisterSave, RegisterCheck, RegisterInstall, RegisterCommit,
            SaveEntry, OutcomeInv, Plain, Unlinking, CopyInv, LockInv, Outside, Entry,
            RegistryTyped, Registries, Step, Return, RelinkSynced, At, Goto, durable,
            files, history, directory, process, lease, bounds
<1>9. ASSUME NEW p \in Process, Unlinks(p) PROVE PendingInv'
  BY <1>9 DEF Unlinks, UnlinkCheck, Unlink, MarkRemoved, Step, Return, RelinkSynced,
            OutcomeInv, Plain, Unlinking, CopyInv, LockInv, Outside, Entry,
            RegistryTyped, Registries, At, Goto, durable, files, history, directory,
            process, lease, bounds
<1>10. ASSUME NEW p \in Process, Interrupts(p) PROVE PendingInv'
  BY <1>10 DEF Interrupts, RecordMissing, Crash, Return, At, Goto, durable, files,
            history, directory, process, lease, bounds
<1>11. ASSUME Environment PROVE PendingInv'
  <2>1. CASE Resolve
    BY <2>1 DEF Resolve, At, Goto, durable, files, history, directory, process, lease,
             bounds
  <2>2. CASE Admit
    BY <2>2 DEF Admit, At, Goto, durable, files, history, directory, process, lease,
             bounds
  <2>3. CASE Retire
    BY <2>3 DEF Retire, At, Goto, durable, files, history, directory, process, lease,
             bounds
  <2>4. CASE SiblingCommits
    BY <2>4 DEF SiblingCommits, At, Goto, durable, files, history, directory, process,
             lease, bounds
  <2>5. CASE UserChangesLink
    BY <2>5, UserMeddles DEF UserChangesLink, OfUser, IInv, At, Goto, durable, files,
         history, directory, process, lease, bounds
  <2>6. CASE BundleDamaged
    BY <2>6 DEF BundleDamaged, At, Goto, durable, files, history, directory, process,
             lease, bounds
  <2>7. CASE PowerFails
    <3>1. PICK d \in survivable :
             /\ link' = d.link /\ temp' = d.temp /\ survivable' = {d}
             /\ undone' = (undone \/ Undoes(d))
      BY <2>7 DEF PowerFails
    <3>2. undone' \in BOOLEAN /\ undone \in BOOLEAN
      BY DEF IInv, TypeOK
    <3>3. ~undone' => ~undone /\ ~Undoes(d)
      BY ONLY <3>1, <3>2
    <3>4. UNCHANGED <<registry, pending, archived>>
      BY <2>7 DEF PowerFails, files
    <3> QED
      BY <3>1, <3>3, <3>4 DEF Undoes
  <2> QED
    BY <1>11, <2>1, <2>2, <2>3, <2>4, <2>5, <2>6, <2>7 DEF Environment
<1> QED
  BY <1>1, <1>2, <1>3, <1>4, <1>5, <1>6, <1>7, <1>8, <1>9, <1>10, <1>11, StepKinds

\* When the intent is cleared, the link agrees with the entry that was saved.
LEMMA SettledKept == ASSUME IInv, Next, TypeOK' PROVE SettledInv'
<1>t. /\ pc \in [Process -> Labels]
  BY DEF IInv, TypeOK
<1>i. SettledInv /\ VisibleInv /\ DirectoryTyped /\ FinishingInv /\ SavedInv /\ OutcomeInv /\
          CopyInv /\ CallInv /\ LockInv /\ FilesTyped /\ RegistryTyped /\ SoundInv
  BY TypeIsParts DEF IInv
<1> USE <1>t, <1>i
<1>m. MeddlingGrows /\ HistoryGrows
  BY MeddlingStep, Growth
<1> USE Names, <1>m DEF MeddlingGrows, HistoryGrows
<1>c. mem \in [Process -> Calls]
  BY DEF IInv, TypeOK
<1> USE DEF SettledInv, VisibleInv, DirectoryTyped, Agree
<1>1. ASSUME NEW p \in Process, Begin(p) PROVE SettledInv'
  BY <1>1 DEF Begin, BeginPublish, BeginRollback, BeginUnpublish, BeginReconcile,
            BeginRegister, Acquire, At, Goto, durable, files, history, directory,
            process, lease, bounds
<1>2. ASSUME NEW p \in Process, Recovers(p) PROVE SettledInv'
  BY <1>2 DEF Recovers, RecoverNothing, RecoverAbort, RecoverCommit, RecoverRestore,
            RecoverRefuse, Step, Decide, Return, At, Goto, durable, files, history,
            directory, process, lease, bounds
<1>3. ASSUME NEW p \in Process, Restores(p) PROVE SettledInv'
  BY <1>3 DEF Restores, RestoreStage, RestoreSwap, RestoreSync, Step, Return,
            RelinkSynced, CallInv, Restoring, Relink, At, Goto, durable, files, history,
            directory, process, lease, bounds
<1>4. ASSUME NEW p \in Process, Finishes(p) PROVE SettledInv'
  <2>1. CASE FinishSave(p)
    BY <2>1 DEF FinishSave, Return, At, Goto, durable, files, history, directory,
             process, lease, bounds, CallInv, Finishing
  <2>2. CASE FinishResult(p)
    BY <2>2 DEF FinishResult, Step, At, Goto, durable, files, history, directory,
             process, lease, bounds
  <2>3. CASE FinishClearTemp(p)
    BY <2>3 DEF FinishClearTemp, Step, Return, RelinkSynced, At, Goto, durable, files,
             history, directory, process, lease, bounds
  <2>4. CASE FinishClearPending(p)
    <3> DEFINE i == mem[p].intent
    <3>1. /\ pc[p] = "clear_pending" /\ i # None /\ Sound(i)
          /\ mem[p].outcome \in {"committed", "aborted"}
          /\ registry.entry = Finished(i, mem[p].outcome) /\ temp = None
          /\ Agree(IF mem[p].outcome = "aborted" THEN i.target ELSE i.candidate)
      BY <2>4 DEF FinishClearPending, At, CallInv, OutcomeInv, SavedInv, FinishingInv, SoundInv,
               Finishing, Saved
    <3>2. TargetOf(registry.entry) = IF mem[p].outcome = "aborted" THEN i.target ELSE i.candidate
      BY <3>1 DEF Finished, TargetOf, Entry, Sound
    <3>3. UNCHANGED <<registry, link, temp>>
      BY <2>4 DEF FinishClearPending, directory
    <3> QED
      BY <3>1, <3>2, <3>3
  <2> QED
    BY <1>4, <2>1, <2>2, <2>3, <2>4 DEF Finishes
<1>5. ASSUME NEW p \in Process, Plans(p) PROVE SettledInv'
  BY <1>5 DEF Plans, PlanPublish, PlanManaged, PlanRollback, PlanUnpublish,
            PlanReconcile, PlanRefused, Plan, Step, Return, At, Goto, durable, files,
            history, directory, process, lease, bounds
<1>6. ASSUME NEW p \in Process, Prepares(p) PROVE SettledInv'
  BY <1>6 DEF Prepares, CopyCandidate, Reacquire, ReacquireBusy, ArchiveIntent,
            WriteIntent, CreateCandidate, Step, MakeCandidate, Unchanged, Return,
            FreshName, CallInv, Planned, At, Goto, durable, files, history, directory,
            process, lease, bounds
<1>7. ASSUME NEW p \in Process, Activates(p) PROVE SettledInv'
  BY <1>7 DEF Activates, ActivateCheck, ActivateStage, ActivateSwap, ActivateVerify,
            ActivateUndo, ActivateSync, Step, Return, RelinkSynced, CallInv, Acting,
            Relink, At, Goto, durable, files, history, directory, process, lease, bounds
<1>8. ASSUME NEW p \in Process, Registers(p) PROVE SettledInv'
  BY <1>8 DEF Registers, RegisterSave, RegisterCheck, RegisterInstall, RegisterCommit,
            SaveEntry, OutcomeInv, Plain, Unlinking, CopyInv, LockInv, Outside, Entry,
            RegistryTyped, Registries, Step, Return, RelinkSynced, At, Goto, durable,
            files, history, directory, process, lease, bounds
<1>9. ASSUME NEW p \in Process, Unlinks(p) PROVE SettledInv'
  BY <1>9 DEF Unlinks, UnlinkCheck, Unlink, MarkRemoved, Step, Return, RelinkSynced,
            OutcomeInv, Plain, Unlinking, CopyInv, LockInv, Outside, Entry,
            RegistryTyped, Registries, Entries, At, Goto, durable, files, history,
            directory, process, lease, bounds
<1>10. ASSUME NEW p \in Process, Interrupts(p) PROVE SettledInv'
  BY <1>10 DEF Interrupts, RecordMissing, Crash, TargetOf, RegistryTyped, Registries,
            Entries, Return, At, Goto, durable, files, history, directory, process,
            lease, bounds
<1>11. ASSUME Environment PROVE SettledInv'
  <2>1. CASE Resolve
    BY <2>1 DEF Resolve, At, Goto, durable, files, history, directory, process, lease,
             bounds
  <2>2. CASE Admit
    BY <2>2 DEF Admit, At, Goto, durable, files, history, directory, process, lease,
             bounds
  <2>3. CASE Retire
    BY <2>3 DEF Retire, At, Goto, durable, files, history, directory, process, lease,
             bounds
  <2>4. CASE SiblingCommits
    BY <2>4 DEF SiblingCommits, At, Goto, durable, files, history, directory, process,
             lease, bounds
  <2>5. CASE UserChangesLink
    BY <2>5, UserMeddles DEF UserChangesLink, OfUser, IInv, At, Goto, durable, files,
         history, directory, process, lease, bounds
  <2>6. CASE BundleDamaged
    BY <2>6 DEF BundleDamaged, At, Goto, durable, files, history, directory, process,
             lease, bounds
  <2>7. CASE PowerFails
    <3>1. PICK d \in survivable :
             /\ link' = d.link /\ temp' = d.temp /\ survivable' = {d}
             /\ undone' = (undone \/ Undoes(d))
      BY <2>7 DEF PowerFails
    <3>2. undone' \in BOOLEAN /\ undone \in BOOLEAN
      BY DEF IInv, TypeOK
    <3>3. ~undone' => ~undone /\ ~Undoes(d)
      BY ONLY <3>1, <3>2
    <3>4. UNCHANGED <<registry, pending, archived>>
      BY <2>7 DEF PowerFails, files
    <3> QED
      BY <3>1, <3>3, <3>4 DEF Undoes
  <2> QED
    BY <1>11, <2>1, <2>2, <2>3, <2>4, <2>5, <2>6, <2>7 DEF Environment
<1> QED
  BY <1>1, <1>2, <1>3, <1>4, <1>5, <1>6, <1>7, <1>8, <1>9, <1>10, <1>11, StepKinds

\* Between an exchange and its sync a call holds the lock and its intent is pending.
LEMMA SyncedKept == ASSUME IInv, Next, TypeOK' PROVE SyncedInv'
<1>t. /\ pc \in [Process -> Labels]
      /\ mem \in [Process -> Calls]
  BY DEF IInv, TypeOK
<1>i. VisibleInv /\ DirectoryTyped /\ SyncedInv /\ VisibleInv /\ TakenBackInv /\ StagingInv /\
          RestoringInv /\ FinishingInv /\ CallInv /\ LockInv /\ FilesTyped
  BY TypeIsParts DEF IInv
<1> USE <1>t, <1>i
<1>m. MeddlingGrows /\ HistoryGrows
  BY MeddlingStep, Growth
<1> USE Names, <1>m DEF MeddlingGrows, HistoryGrows
<1> USE DEF SyncedInv, VisibleInv, DirectoryTyped, CallInv, LockInv, Outside, Making,
           Restoring, Finishing, Planned, Acting, Plain, Unlinking, Guarded, Calls,
           Unsynced
<1>1. ASSUME NEW p \in Process, Begin(p) PROVE SyncedInv'
  <2>1. CASE BeginPublish(p)
    BY <2>1 DEF BeginPublish, Acquire, At, Goto, durable, files, history, directory,
             process, lease, bounds, Idle
  <2>2. CASE BeginRollback(p)
    BY <2>2 DEF BeginRollback, Acquire, At, Goto, durable, files, history, directory,
             process, lease, bounds, Idle
  <2>3. CASE BeginUnpublish(p)
    BY <2>3 DEF BeginUnpublish, Acquire, At, Goto, durable, files, history, directory,
             process, lease, bounds, Idle
  <2>4. CASE BeginReconcile(p)
    BY <2>4 DEF BeginReconcile, Acquire, At, Goto, durable, files, history, directory,
             process, lease, bounds, Idle
  <2>5. CASE BeginRegister(p)
    BY <2>5 DEF BeginRegister, Acquire, At, Goto, durable, files, history, directory,
             process, lease, bounds, Idle
  <2> QED
    BY <1>1, <2>1, <2>2, <2>3, <2>4, <2>5 DEF Begin
<1>2. ASSUME NEW p \in Process, Recovers(p) PROVE SyncedInv'
  <2>1. CASE RecoverNothing(p)
    BY <2>1 DEF RecoverNothing, Step, At, Goto, durable, files, history, directory,
             process, lease, bounds
  <2>2. CASE RecoverAbort(p)
    BY <2>2 DEF RecoverAbort, Decide, At, Goto, durable, files, history, directory,
             process, lease, bounds
  <2>3. CASE RecoverCommit(p)
    BY <2>3 DEF RecoverCommit, Decide, At, Goto, durable, files, history, directory,
             process, lease, bounds
  <2>4. CASE RecoverRestore(p)
    BY <2>4 DEF RecoverRestore, Decide, At, Goto, durable, files, history, directory,
             process, lease, bounds
  <2>5. CASE RecoverRefuse(p)
    BY <2>5 DEF RecoverRefuse, Return, At, Goto, durable, files, history, directory,
             process, lease, bounds, Idle
  <2> QED
    BY <1>2, <2>1, <2>2, <2>3, <2>4, <2>5 DEF Recovers
<1>3. ASSUME NEW p \in Process, Restores(p) PROVE SyncedInv'
  <2>1. CASE RestoreStage(p)
    BY <2>1 DEF RestoreStage, Step, Return, RelinkSynced, At, Goto, durable, files,
             history, directory, process, lease, bounds, Idle
  <2>2. CASE RestoreSwap(p)
    <3> DEFINE i == mem[p].intent
    <3>1. pc[p] = "restore_swap" /\ lock = p /\ pending = i /\ i # None
      BY <2>2 DEF RestoreSwap, At
    <3>2. i.target \in Revisions \cup {None} /\ i.candidate \in Revisions \cup {None}
      BY <3>1, IntentParts DEF FilesTyped
    <3>3. temp = i.target /\ (link = i.candidate \/ Meddled)
      BY <3>1 DEF RestoringInv
    <3>4. /\ \A q \in Process : pc[q] \notin Unsynced
          /\ ~Died => survivable = {[link |-> link, temp |-> temp]}
      BY <3>1, <3>2, <3>3
    <3>5. CASE Return(p) /\ UNCHANGED <<directory, budget, undone, pending>>
      BY <3>1, <3>4, <3>5 DEF Return, Goto, directory, Died, Meddled, Idle
    <3>6. CASE /\ Relink(temp, link) /\ Step(p, "restore_sync")
               /\ UNCHANGED <<budget, undone, pending>>
      <4>1. /\ link' = temp /\ temp' = link
            /\ survivable' = survivable \cup {[link |-> temp, temp |-> link]}
            /\ pc' = [pc EXCEPT ![p] = "restore_sync"]
            /\ UNCHANGED <<mem, pending, budget, undone>>
        BY <3>6 DEF Relink, Step, Goto
      <4>2. \A q \in Process : pc'[q] \notin {"verify", "undo"}
        BY <3>4, <4>1
      <4>3. ~Died => Meddled \/ \A d \in survivable' : d.link \in {i.target, i.candidate}
        BY <3>3, <3>4, <4>1
      <4> QED
        BY <3>1, <4>1, <4>2, <4>3 DEF Died, Meddled
    <3> QED
      BY <2>2, <3>5, <3>6 DEF RestoreSwap, bounds, directory
  <2>3. CASE RestoreSync(p)
    BY <2>3 DEF RestoreSync, Step, RelinkSynced, At, Goto, durable, files, history,
             directory, process, lease, bounds
  <2> QED
    BY <1>3, <2>1, <2>2, <2>3 DEF Restores
<1>4. ASSUME NEW p \in Process, Finishes(p) PROVE SyncedInv'
  <2>1. CASE FinishSave(p)
    BY <2>1 DEF FinishSave, Return, At, Goto, durable, files, history, directory,
             process, lease, bounds, Idle
  <2>2. CASE FinishResult(p)
    BY <2>2 DEF FinishResult, Step, At, Goto, durable, files, history, directory,
             process, lease, bounds
  <2>3. CASE FinishClearTemp(p)
    BY <2>3 DEF FinishClearTemp, Step, Return, RelinkSynced, At, Goto, durable, files,
             history, directory, process, lease, bounds, Idle
  <2>4. CASE FinishClearPending(p)
    <3>1. pc[p] = "clear_pending" /\ lock = p /\ temp = None
      BY <2>4 DEF FinishClearPending, At, FinishingInv
    <3>2. /\ \A q \in Process : pc[q] \notin Unsynced
          /\ ~Died => survivable = {[link |-> link, temp |-> temp]}
      BY <3>1
    <3>3. /\ \A q \in Process : pc'[q] = pc[q] \/ pc'[q] \notin Unsynced
          /\ UNCHANGED <<directory, budget, undone>>
      BY <2>4 DEF FinishClearPending, Return, Goto, bounds
    <3> QED
      BY <3>2, <3>3 DEF directory, Died, Meddled
  <2> QED
    BY <1>4, <2>1, <2>2, <2>3, <2>4 DEF Finishes
<1>5. ASSUME NEW p \in Process, Plans(p) PROVE SyncedInv'
  <2>1. CASE PlanPublish(p)
    BY <2>1 DEF PlanPublish, Plan, At, Goto, durable, files, history, directory,
             process, lease, bounds
  <2>2. CASE PlanManaged(p)
    BY <2>2 DEF PlanManaged, Plan, At, Goto, durable, files, history, directory,
             process, lease, bounds
  <2>3. CASE PlanRollback(p)
    BY <2>3 DEF PlanRollback, Plan, At, Goto, durable, files, history, directory,
             process, lease, bounds
  <2>4. CASE PlanUnpublish(p)
    BY <2>4 DEF PlanUnpublish, Plan, At, Goto, durable, files, history, directory,
             process, lease, bounds
  <2>5. CASE PlanReconcile(p)
    BY <2>5 DEF PlanReconcile, Step, At, Goto, durable, files, history, directory,
             process, lease, bounds
  <2>6. CASE PlanRefused(p)
    BY <2>6 DEF PlanRefused, Return, At, Goto, durable, files, history, directory,
             process, lease, bounds, Idle
  <2> QED
    BY <1>5, <2>1, <2>2, <2>3, <2>4, <2>5, <2>6 DEF Plans
<1>6. ASSUME NEW p \in Process, Prepares(p) PROVE SyncedInv'
  <2>1. CASE CopyCandidate(p)
    BY <2>1 DEF CopyCandidate, Step, MakeCandidate, At, Goto, durable, files, history,
             directory, process, lease, bounds
  <2>2. CASE Reacquire(p)
    BY <2>2 DEF Reacquire, Unchanged, Return, At, Goto, durable, files, history,
             directory, process, lease, bounds, Idle
  <2>3. CASE ReacquireBusy(p)
    BY <2>3 DEF ReacquireBusy, Return, At, Goto, durable, files, history, directory,
             process, lease, bounds, Idle
  <2>4. CASE ArchiveIntent(p)
    BY <2>4 DEF ArchiveIntent, Step, At, Goto, durable, files, history, directory,
             process, lease, bounds
  <2>5. CASE WriteIntent(p)
    BY <2>5 DEF WriteIntent, Step, FreshName, At, Goto, durable, files, history,
             directory, process, lease, bounds, TakenBackInv, FreshName
  <2>6. CASE CreateCandidate(p)
    BY <2>6 DEF CreateCandidate, Step, MakeCandidate, At, Goto, durable, files, history,
             directory, process, lease, bounds
  <2> QED
    BY <1>6, <2>1, <2>2, <2>3, <2>4, <2>5, <2>6 DEF Prepares
<1>7. ASSUME NEW p \in Process, Activates(p) PROVE SyncedInv'
  <2>1. CASE ActivateCheck(p)
    BY <2>1 DEF ActivateCheck, Step, Return, At, Goto, durable, files, history,
             directory, process, lease, bounds, Idle
  <2>2. CASE ActivateStage(p)
    BY <2>2 DEF ActivateStage, Step, RelinkSynced, At, Goto, durable, files, history,
             directory, process, lease, bounds
  <2>3. CASE ActivateSwap(p)
    <3> DEFINE i == mem[p].intent
    <3>1. pc[p] = "swap" /\ lock = p /\ pending = i /\ i # None
      BY <2>3 DEF ActivateSwap, At
    <3>2. i.target \in Revisions \cup {None} /\ i.candidate \in Revisions \cup {None}
      BY <3>1, IntentParts DEF FilesTyped
    <3>3. temp = i.candidate /\ (link = i.target \/ (Meddled /\ link \in OfUser))
      BY <3>1 DEF StagingInv
    <3>4. /\ \A q \in Process : pc[q] \notin Unsynced
          /\ ~Died => survivable = {[link |-> link, temp |-> temp]}
      BY <3>1, <3>2, <3>3
    <3>5. CASE Return(p) /\ UNCHANGED <<directory, budget, undone, pending>>
      BY <3>1, <3>4, <3>5 DEF Return, Goto, directory, Died, Meddled, Idle
    <3>6. CASE /\ Movable(i) /\ Relink(temp, link)
               /\ Step(p, IF i.target = None THEN "sync" ELSE "verify")
               /\ UNCHANGED <<budget, undone, pending>>
      <4>1. /\ link' = temp /\ temp' = link
            /\ survivable' = survivable \cup {[link |-> temp, temp |-> link]}
            /\ pc' = [pc EXCEPT ![p] = IF i.target = None THEN "sync" ELSE "verify"]
            /\ UNCHANGED <<mem, pending, budget, undone>>
        BY <3>6 DEF Relink, Step, Goto
      <4>2. pc'[p] \in Unsynced /\ \A q \in Process \ {p} : pc'[q] = pc[q]
        BY <4>1
      <4>3. pc'[p] = "verify" => temp' \in {i.target, Foreign, Alien}
        BY <3>2, <3>3, <3>6, <4>1 DEF Movable, OfUser
      <4>4. /\ \A q \in Process : pc'[q] = "undo" => temp' = Foreign
            /\ \A q \in Process : pc'[q] = "verify" =>
                  temp' \in {mem'[q].intent.target, Foreign, Alien}
        BY <3>4, <4>1, <4>2, <4>3
      <4>5. ~Died => Meddled \/ \A d \in survivable' : d.link \in {i.target, i.candidate}
        BY <3>3, <3>4, <4>1
      <4> QED
        BY <3>1, <4>1, <4>2, <4>4, <4>5 DEF Died, Meddled
    <3> QED
      BY <2>3, <3>5, <3>6 DEF ActivateSwap, bounds, directory
  <2>4. CASE ActivateVerify(p)
    BY <2>4 DEF ActivateVerify, Step, Return, At, Goto, durable, files, history,
             directory, process, lease, bounds, Idle
  <2>5. CASE ActivateUndo(p)
    BY <2>5 DEF ActivateUndo, Return, RelinkSynced, At, Goto, durable, files, history,
             directory, process, lease, bounds, Idle
  <2>6. CASE ActivateSync(p)
    BY <2>6 DEF ActivateSync, RelinkSynced, At, Goto, durable, files, history,
             directory, process, lease, bounds
  <2> QED
    BY <1>7, <2>1, <2>2, <2>3, <2>4, <2>5, <2>6 DEF Activates
<1>8. ASSUME NEW p \in Process, Registers(p) PROVE SyncedInv'
  <2>1. CASE RegisterSave(p)
    BY <2>1 DEF RegisterSave, SaveEntry, At, Goto, durable, files, history, directory,
             process, lease, bounds
  <2>2. CASE RegisterCheck(p)
    BY <2>2 DEF RegisterCheck, Step, Return, At, Goto, durable, files, history,
             directory, process, lease, bounds, Idle
  <2>3. CASE RegisterInstall(p)
    BY <2>3 DEF RegisterInstall, Step, Return, RelinkSynced, At, Goto, durable, files,
             history, directory, process, lease, bounds, Idle
  <2>4. CASE RegisterCommit(p)
    BY <2>4 DEF RegisterCommit, Return, At, Goto, durable, files, history, directory,
             process, lease, bounds, Idle
  <2> QED
    BY <1>8, <2>1, <2>2, <2>3, <2>4 DEF Registers
<1>9. ASSUME NEW p \in Process, Unlinks(p) PROVE SyncedInv'
  <2>1. CASE UnlinkCheck(p)
    BY <2>1 DEF UnlinkCheck, Step, Return, At, Goto, durable, files, history, directory,
             process, lease, bounds, Idle
  <2>2. CASE Unlink(p)
    BY <2>2 DEF Unlink, Step, Return, RelinkSynced, At, Goto, durable, files, history,
             directory, process, lease, bounds, Idle
  <2>3. CASE MarkRemoved(p)
    BY <2>3 DEF MarkRemoved, Return, At, Goto, durable, files, history, directory,
             process, lease, bounds, Idle
  <2> QED
    BY <1>9, <2>1, <2>2, <2>3 DEF Unlinks
<1>10. ASSUME NEW p \in Process, Interrupts(p) PROVE SyncedInv'
  <2>1. CASE RecordMissing(p)
    BY <2>1 DEF RecordMissing, At, Goto, durable, files, history, directory, process,
             lease, bounds
  <2>2. CASE Crash(p)
    <3>1. Died'
      <4>1. budget \in Budgets
        BY TypeIsParts DEF IInv, BoundsTyped
      <4>2. budget.crash \in 0 .. MaxCrashes /\ budget' = [budget EXCEPT !.crash = @ - 1]
        BY <2>2, <4>1 DEF Crash, Budgets
      <4>3. budget'.crash = budget.crash - 1
        BY <4>1, <4>2 DEF Budgets
      <4> QED
        BY <4>2, <4>3, PublicationConstants DEF Died
    <3>2. /\ \A q \in Process : pc'[q] = "idle" \/ (pc'[q] = pc[q] /\ mem'[q] = mem[q])
          /\ temp' = temp
      BY <2>2 DEF Crash, Return, Goto, durable, directory
    <3> QED
      BY <3>1, <3>2
  <2> QED
    BY <1>10, <2>1, <2>2 DEF Interrupts
<1>11. ASSUME Environment PROVE SyncedInv'
  <2>1. CASE Resolve
    BY <2>1 DEF Resolve, At, Goto, durable, files, history, directory, process, lease,
             bounds
  <2>2. CASE Admit
    BY <2>2 DEF Admit, At, Goto, durable, files, history, directory, process, lease,
             bounds
  <2>3. CASE Retire
    BY <2>3 DEF Retire, At, Goto, durable, files, history, directory, process, lease,
             bounds
  <2>4. CASE SiblingCommits
    BY <2>4 DEF SiblingCommits, At, Goto, durable, files, history, directory, process,
             lease, bounds
  <2>5. CASE UserChangesLink
    BY <2>5, UserMeddles DEF UserChangesLink, OfUser, IInv, At, Goto, durable, files,
         history, directory, process, lease, bounds
  <2>6. CASE BundleDamaged
    BY <2>6 DEF BundleDamaged, At, Goto, durable, files, history, directory, process,
             lease, bounds
  <2>7. CASE PowerFails
    <3>1. PICK d \in survivable :
             /\ link' = d.link /\ temp' = d.temp /\ survivable' = {d}
             /\ undone' = (undone \/ Undoes(d))
      BY <2>7 DEF PowerFails
    <3>2. survivable' = {[link |-> link', temp |-> temp']} /\ \A q \in Process : pc'[q] = "idle"
      BY <2>7, <3>1 DEF PowerFails
    <3>3. ~Died /\ ~Meddled => ~Undoes(d)
      BY DEF Undoes
    <3>4. undone \in BOOLEAN
      BY DEF IInv, TypeOK
    <3>5. undone' => Died' \/ Meddled'
      BY <3>1, <3>3, <3>4
    <3> QED
      BY <3>2, <3>5
  <2> QED
    BY <1>11, <2>1, <2>2, <2>3, <2>4, <2>5, <2>6, <2>7 DEF Environment
<1> QED
  BY <1>1, <1>2, <1>3, <1>4, <1>5, <1>6, <1>7, <1>8, <1>9, <1>10, <1>11, StepKinds

\* Every exchange keeps what it displaces, and no call removes what is not its own.
LEMMA UserKeptByAll == ASSUME IInv, Next, ~UserChangesLink, ~PowerFails,
           \A p \in Process : ~RegisterInstall(p) /\ ~Unlink(p) PROVE UserKept
<1>i. VisibleInv /\ TakenBackInv /\ StagingInv /\ CallInv /\ FilesTyped
  BY TypeIsParts DEF IInv
<1> USE <1>i
<1> USE Names
<1> USE DEF UserKept, Labels
<1>1. ASSUME NEW p \in Process, Begin(p) PROVE UserKept
  BY <1>1 DEF Begin, BeginPublish, BeginRollback, BeginUnpublish, BeginReconcile,
            BeginRegister, Acquire, At, Goto, durable, files, history, directory,
            process, lease, bounds
<1>2. ASSUME NEW p \in Process, Recovers(p) PROVE UserKept
  BY <1>2 DEF Recovers, RecoverNothing, RecoverAbort, RecoverCommit, RecoverRestore,
            RecoverRefuse, Step, Decide, Return, At, Goto, durable, files, history,
            directory, process, lease, bounds
<1>3. ASSUME NEW p \in Process, Restores(p) PROVE UserKept
  BY <1>3 DEF Restores, RestoreStage, RestoreSwap, RestoreSync, Step, Return,
            RelinkSynced, Relink, At, Goto, durable, files, history, directory, process,
            lease, bounds
<1>4. ASSUME NEW p \in Process, Finishes(p) PROVE UserKept
  <2>1. CASE FinishSave(p)
    BY <2>1 DEF FinishSave, Return, At, Goto, durable, files, history, directory,
             process, lease, bounds
  <2>2. CASE FinishResult(p)
    BY <2>2 DEF FinishResult, Step, At, Goto, durable, files, history, directory,
             process, lease, bounds
  <2>3. CASE FinishClearTemp(p)
    <3>1. mem[p].intent \in Intents
      BY <2>3, CallUpdated DEF FinishClearTemp, At, CallInv, Finishing, IInv, TypeOK
    <3>2. {mem[p].intent.target, mem[p].intent.candidate} \subseteq Revisions \cup {None}
      BY <3>1, IntentParts
    <3> QED
      BY <2>3, <3>2 DEF FinishClearTemp, RelinkSynced, directory
  <2>4. CASE FinishClearPending(p)
    BY <2>4 DEF FinishClearPending, Return, At, Goto, durable, files, history,
             directory, process, lease, bounds
  <2> QED
    BY <1>4, <2>1, <2>2, <2>3, <2>4 DEF Finishes
<1>5. ASSUME NEW p \in Process, Plans(p) PROVE UserKept
  BY <1>5 DEF Plans, PlanPublish, PlanManaged, PlanRollback, PlanUnpublish,
            PlanReconcile, PlanRefused, Plan, Step, Return, At, Goto, durable, files,
            history, directory, process, lease, bounds
<1>6. ASSUME NEW p \in Process, Prepares(p) PROVE UserKept
  BY <1>6 DEF Prepares, CopyCandidate, Reacquire, ReacquireBusy, ArchiveIntent,
            WriteIntent, CreateCandidate, Step, MakeCandidate, Unchanged, Return,
            FreshName, CallInv, TakenBackInv, VisibleInv, At, Goto, durable, files,
            history, directory, process, lease, bounds
<1>7. ASSUME NEW p \in Process, Activates(p) PROVE UserKept
  BY <1>7 DEF Activates, ActivateCheck, ActivateStage, ActivateSwap, ActivateVerify,
            ActivateUndo, ActivateSync, Step, Return, RelinkSynced, StagingInv,
            VisibleInv, Relink, At, Goto, durable, files, history, directory, process,
            lease, bounds
<1>8. ASSUME NEW p \in Process, Registers(p) PROVE UserKept
  <2>1. CASE RegisterSave(p)
    BY <2>1 DEF RegisterSave, SaveEntry, At, Goto, durable, files, history, directory,
             process, lease, bounds
  <2>2. CASE RegisterCheck(p)
    BY <2>2 DEF RegisterCheck, Step, Return, At, Goto, durable, files, history,
             directory, process, lease, bounds
  <2>3. CASE RegisterInstall(p)
    BY <2>3
  <2>4. CASE RegisterCommit(p)
    BY <2>4 DEF RegisterCommit, Return, At, Goto, durable, files, history, directory,
             process, lease, bounds
  <2> QED
    BY <1>8, <2>1, <2>2, <2>3, <2>4 DEF Registers
<1>9. ASSUME NEW p \in Process, Unlinks(p) PROVE UserKept
  <2>1. CASE UnlinkCheck(p)
    BY <2>1 DEF UnlinkCheck, Step, Return, At, Goto, durable, files, history, directory,
             process, lease, bounds
  <2>2. CASE Unlink(p)
    BY <2>2
  <2>3. CASE MarkRemoved(p)
    BY <2>3 DEF MarkRemoved, Return, At, Goto, durable, files, history, directory,
             process, lease, bounds
  <2> QED
    BY <1>9, <2>1, <2>2, <2>3 DEF Unlinks
<1>10. ASSUME NEW p \in Process, Interrupts(p) PROVE UserKept
  BY <1>10 DEF Interrupts, RecordMissing, Crash, Return, At, Goto, durable, files,
            history, directory, process, lease, bounds
<1>11. ASSUME Environment PROVE UserKept
  <2>1. CASE Resolve
    BY <2>1 DEF Resolve, At, Goto, durable, files, history, directory, process, lease,
             bounds
  <2>2. CASE Admit
    BY <2>2 DEF Admit, At, Goto, durable, files, history, directory, process, lease,
             bounds
  <2>3. CASE Retire
    BY <2>3 DEF Retire, At, Goto, durable, files, history, directory, process, lease,
             bounds
  <2>4. CASE SiblingCommits
    BY <2>4 DEF SiblingCommits, At, Goto, durable, files, history, directory, process,
             lease, bounds
  <2>5. CASE UserChangesLink
    BY <2>5
  <2>6. CASE BundleDamaged
    BY <2>6 DEF BundleDamaged, At, Goto, durable, files, history, directory, process,
             lease, bounds
  <2>7. CASE PowerFails
    BY <2>7
  <2> QED
    BY <1>11, <2>1, <2>2, <2>3, <2>4, <2>5, <2>6, <2>7 DEF Environment
<1> QED
  BY <1>1, <1>2, <1>3, <1>4, <1>5, <1>6, <1>7, <1>8, <1>9, <1>10, <1>11, StepKinds

\* A call that moves the link has excluded hosts, or finds no revision there.
LEMMA LinkStaysByAll == ASSUME IInv, Next, ~UserChangesLink PROVE LinkStays
<1>i. LeaseInv /\ LockInv /\ CallInv /\ FinishingInv
  BY DEF IInv
<1> USE <1>i
<1> USE Names
<1> USE DEF LinkStays
<1>1. ASSUME NEW p \in Process, Begin(p) PROVE LinkStays
  BY <1>1 DEF Begin, BeginPublish, BeginRollback, BeginUnpublish, BeginReconcile,
            BeginRegister, Acquire, At, Goto, durable, files, history, directory,
            process, lease, bounds
<1>2. ASSUME NEW p \in Process, Recovers(p) PROVE LinkStays
  BY <1>2 DEF Recovers, RecoverNothing, RecoverAbort, RecoverCommit, RecoverRestore,
            RecoverRefuse, Step, Decide, Return, At, Goto, durable, files, history,
            directory, process, lease, bounds
<1>3. ASSUME NEW p \in Process, Restores(p) PROVE LinkStays
  BY <1>3 DEF Restores, RestoreStage, RestoreSwap, RestoreSync, Step, Return,
            RelinkSynced, Relink, LeaseInv, Restoring, At, Goto, durable, files,
            history, directory, process, lease, bounds
<1>4. ASSUME NEW p \in Process, Finishes(p) PROVE LinkStays
  BY <1>4 DEF Finishes, FinishSave, FinishResult, FinishClearTemp, FinishClearPending,
            Return, Step, RelinkSynced, At, Goto, durable, files, history, directory,
            process, lease, bounds
<1>5. ASSUME NEW p \in Process, Plans(p) PROVE LinkStays
  BY <1>5 DEF Plans, PlanPublish, PlanManaged, PlanRollback, PlanUnpublish,
            PlanReconcile, PlanRefused, Plan, Step, Return, At, Goto, durable, files,
            history, directory, process, lease, bounds
<1>6. ASSUME NEW p \in Process, Prepares(p) PROVE LinkStays
  BY <1>6 DEF Prepares, CopyCandidate, Reacquire, ReacquireBusy, ArchiveIntent,
            WriteIntent, CreateCandidate, Step, MakeCandidate, Unchanged, Return,
            FreshName, At, Goto, durable, files, history, directory, process, lease,
            bounds
<1>7. ASSUME NEW p \in Process, Activates(p) PROVE LinkStays
  BY <1>7 DEF Activates, ActivateCheck, ActivateStage, ActivateSwap, ActivateVerify,
            ActivateUndo, ActivateSync, Step, Return, RelinkSynced, Relink, LeaseInv,
            LockInv, CallInv, Acting, Outside, At, Goto, durable, files, history,
            directory, process, lease, bounds
<1>8. ASSUME NEW p \in Process, Registers(p) PROVE LinkStays
  BY <1>8 DEF Registers, RegisterSave, RegisterCheck, RegisterInstall, RegisterCommit,
            SaveEntry, Step, Return, RelinkSynced, FinishingInv, OfUser, At, Goto,
            durable, files, history, directory, process, lease, bounds
<1>9. ASSUME NEW p \in Process, Unlinks(p) PROVE LinkStays
  BY <1>9 DEF Unlinks, UnlinkCheck, Unlink, MarkRemoved, Step, Return, RelinkSynced,
            LeaseInv, LockInv, CallInv, Unlinking, Outside, Guarded, At, Goto, durable,
            files, history, directory, process, lease, bounds
<1>10. ASSUME NEW p \in Process, Interrupts(p) PROVE LinkStays
  BY <1>10 DEF Interrupts, RecordMissing, Crash, Return, At, Goto, durable, files,
            history, directory, process, lease, bounds
<1>11. ASSUME Environment PROVE LinkStays
  <2>1. CASE Resolve
    BY <2>1 DEF Resolve, At, Goto, durable, files, history, directory, process, lease,
             bounds
  <2>2. CASE Admit
    BY <2>2 DEF Admit, At, Goto, durable, files, history, directory, process, lease,
             bounds
  <2>3. CASE Retire
    BY <2>3 DEF Retire, At, Goto, durable, files, history, directory, process, lease,
             bounds
  <2>4. CASE SiblingCommits
    BY <2>4 DEF SiblingCommits, At, Goto, durable, files, history, directory, process,
             lease, bounds
  <2>5. CASE UserChangesLink
    BY <2>5
  <2>6. CASE BundleDamaged
    BY <2>6 DEF BundleDamaged, At, Goto, durable, files, history, directory, process,
             lease, bounds
  <2>7. CASE PowerFails
    BY <2>7 DEF PowerFails, At, Goto, durable, files, history, directory, process,
             lease, bounds
  <2> QED
    BY <1>11, <2>1, <2>2, <2>3, <2>4, <2>5, <2>6, <2>7 DEF Environment
<1> QED
  BY <1>1, <1>2, <1>3, <1>4, <1>5, <1>6, <1>7, <1>8, <1>9, <1>10, <1>11, StepKinds

\* A save writes the sibling entries it read under the lock.
LEMMA SiblingGrowsByAll == ASSUME IInv, Next PROVE SiblingGrows
<1>i. CopyInv /\ LockInv /\ RegistryTyped
  BY TypeIsParts DEF IInv
<1> USE <1>i
<1> USE PublicationConstants
<1> USE DEF SiblingGrows, RegistryTyped, Registries
<1>1. ASSUME NEW p \in Process, Begin(p) PROVE SiblingGrows
  <2>1. CASE BeginPublish(p)
    BY <2>1 DEF BeginPublish, Acquire, At, Goto, durable, files, history, directory,
             process, lease, bounds
  <2>2. CASE BeginRollback(p)
    BY <2>2 DEF BeginRollback, Acquire, At, Goto, durable, files, history, directory,
             process, lease, bounds
  <2>3. CASE BeginUnpublish(p)
    BY <2>3 DEF BeginUnpublish, Acquire, At, Goto, durable, files, history, directory,
             process, lease, bounds
  <2>4. CASE BeginReconcile(p)
    BY <2>4 DEF BeginReconcile, Acquire, At, Goto, durable, files, history, directory,
             process, lease, bounds
  <2>5. CASE BeginRegister(p)
    BY <2>5 DEF BeginRegister, Acquire, At, Goto, durable, files, history, directory,
             process, lease, bounds
  <2> QED
    BY <1>1, <2>1, <2>2, <2>3, <2>4, <2>5 DEF Begin
<1>2. ASSUME NEW p \in Process, Recovers(p) PROVE SiblingGrows
  BY <1>2 DEF Recovers, RecoverNothing, RecoverAbort, RecoverCommit, RecoverRestore,
            RecoverRefuse, Step, Decide, Return, At, Goto, durable, files, history,
            directory, process, lease, bounds
<1>3. ASSUME NEW p \in Process, Restores(p) PROVE SiblingGrows
  BY <1>3 DEF Restores, RestoreStage, RestoreSwap, RestoreSync, Step, Return,
            RelinkSynced, Relink, At, Goto, durable, files, history, directory, process,
            lease, bounds
<1>4. ASSUME NEW p \in Process, Finishes(p) PROVE SiblingGrows
  BY <1>4 DEF Finishes, FinishSave, FinishResult, FinishClearTemp, FinishClearPending,
            Return, CopyInv, LockInv, Outside, Step, RelinkSynced, At, Goto, durable,
            files, history, directory, process, lease, bounds
<1>5. ASSUME NEW p \in Process, Plans(p) PROVE SiblingGrows
  <2>1. CASE PlanPublish(p)
    BY <2>1 DEF PlanPublish, Plan, At, Goto, durable, files, history, directory,
             process, lease, bounds
  <2>2. CASE PlanManaged(p)
    BY <2>2 DEF PlanManaged, Plan, At, Goto, durable, files, history, directory,
             process, lease, bounds
  <2>3. CASE PlanRollback(p)
    BY <2>3 DEF PlanRollback, Plan, At, Goto, durable, files, history, directory,
             process, lease, bounds
  <2>4. CASE PlanUnpublish(p)
    BY <2>4 DEF PlanUnpublish, Plan, At, Goto, durable, files, history, directory,
             process, lease, bounds
  <2>5. CASE PlanReconcile(p)
    BY <2>5 DEF PlanReconcile, Step, At, Goto, durable, files, history, directory,
             process, lease, bounds
  <2>6. CASE PlanRefused(p)
    BY <2>6 DEF PlanRefused, Return, At, Goto, durable, files, history, directory,
             process, lease, bounds
  <2> QED
    BY <1>5, <2>1, <2>2, <2>3, <2>4, <2>5, <2>6 DEF Plans
<1>6. ASSUME NEW p \in Process, Prepares(p) PROVE SiblingGrows
  BY <1>6 DEF Prepares, CopyCandidate, Reacquire, ReacquireBusy, ArchiveIntent,
            WriteIntent, CreateCandidate, Step, MakeCandidate, Unchanged, Return,
            FreshName, At, Goto, durable, files, history, directory, process, lease,
            bounds
<1>7. ASSUME NEW p \in Process, Activates(p) PROVE SiblingGrows
  BY <1>7 DEF Activates, ActivateCheck, ActivateStage, ActivateSwap, ActivateVerify,
            ActivateUndo, ActivateSync, Step, Return, RelinkSynced, Relink, At, Goto,
            durable, files, history, directory, process, lease, bounds
<1>8. ASSUME NEW p \in Process, Registers(p) PROVE SiblingGrows
  <2>1. CASE RegisterSave(p)
    BY <2>1 DEF RegisterSave, SaveEntry, At, Goto, durable, files, history, directory,
             process, lease, bounds, CopyInv, LockInv, Outside
  <2>2. CASE RegisterCheck(p)
    BY <2>2 DEF RegisterCheck, Step, Return, At, Goto, durable, files, history,
             directory, process, lease, bounds
  <2>3. CASE RegisterInstall(p)
    BY <2>3 DEF RegisterInstall, Step, Return, RelinkSynced, At, Goto, durable, files,
             history, directory, process, lease, bounds
  <2>4. CASE RegisterCommit(p)
    BY <2>4 DEF RegisterCommit, Return, At, Goto, durable, files, history, directory,
             process, lease, bounds, CopyInv, LockInv, Outside
  <2> QED
    BY <1>8, <2>1, <2>2, <2>3, <2>4 DEF Registers
<1>9. ASSUME NEW p \in Process, Unlinks(p) PROVE SiblingGrows
  BY <1>9 DEF Unlinks, UnlinkCheck, Unlink, MarkRemoved, Step, Return, RelinkSynced,
            CopyInv, LockInv, Outside, At, Goto, durable, files, history, directory,
            process, lease, bounds
<1>10. ASSUME NEW p \in Process, Interrupts(p) PROVE SiblingGrows
  BY <1>10 DEF Interrupts, RecordMissing, Crash, Return, At, Goto, durable, files,
            history, directory, process, lease, bounds
<1>11. ASSUME Environment PROVE SiblingGrows
  BY <1>11 DEF Environment, Resolve, Admit, Retire, SiblingCommits, UserChangesLink,
            BundleDamaged, PowerFails, At, Goto, durable, files, history, directory,
            process, lease, bounds
<1> QED
  BY <1>1, <1>2, <1>3, <1>4, <1>5, <1>6, <1>7, <1>8, <1>9, <1>10, <1>11, StepKinds

-----------------------------------------------------------------------------
(* The invariant                                                           *)

\* The type invariant.
LEMMA TypeKept == ASSUME IInv, Next PROVE TypeOK'
<1>1. RegistryTyped' /\ FilesTyped' /\ HistoryTyped' /\ DirectoryTyped'
  BY RegistryKept, FilesKept, HistoryKept, DirectoryKept
<1>2. ProcessTyped' /\ CallsTyped' /\ HostTyped' /\ BoundsTyped'
  BY ProcessKept, CallsKept, HostKept, BoundsKept
<1> QED
  BY <1>1, <1>2 DEF TypeOK, RegistryTyped, FilesTyped, HistoryTyped, DirectoryTyped,
                    ProcessTyped, CallsTyped, HostTyped, BoundsTyped, Budgets

\* The invariant holds at first.
LEMMA InitEstablishes == Init => IInv
<1> SUFFICES ASSUME Init PROVE IInv
  OBVIOUS
<1> USE Names, PublicationConstants DEF Init
<1>1. TypeOK
  <2> MaxTransactions \in Nat /\ MaxCrashes \in Nat /\ MaxPowerFailures \in Nat
      /\ MaxMeddling \in Nat /\ MaxDamage \in Nat /\ MaxSibling \in Nat
    BY PublicationConstants
  <2>1. RegistryTyped /\ HostTyped
    <3>1. [entry |-> Absent, sibling |-> 0] \in Registries
      BY EntriesAreTyped DEF Registries
    <3> QED
      BY <3>1, EntriesAreTyped DEF RegistryTyped, HostTyped
  <2>2. FilesTyped /\ HistoryTyped /\ DirectoryTyped
    BY DEF FilesTyped, HistoryTyped, DirectoryTyped, Outcomes, Links, Targets
  <2>3. ProcessTyped /\ CallsTyped
    BY IdleIsTyped DEF ProcessTyped, CallsTyped, Labels
  <2>4. BoundsTyped
    <3>1. [crash |-> MaxCrashes, power |-> MaxPowerFailures, meddle |-> MaxMeddling,
           damage |-> MaxDamage, sibling |-> MaxSibling] \in Budgets
      BY DEF Budgets
    <3>2. undone \in BOOLEAN
      BY DEF Init
    <3>3. next \in 1 .. MaxTransactions + 1 /\ activated \subseteq Transactions
      BY DEF Init
    <3> QED
      BY <3>1, <3>2, <3>3 DEF BoundsTyped
  <2> QED
    BY <2>1, <2>2, <2>3, <2>4, TypeIsParts
<1>2. SiblingInv /\ LockInv /\ CopyInv
  BY DEF SiblingInv, LockInv, CopyInv, Outside
<1>3. CallInv /\ PlanInv /\ OutcomeInv /\ SavedInv
  BY DEF CallInv, PlanInv, OutcomeInv, SavedInv, Idle, Restoring, Finishing, Planned, Acting,
         Plain, Making, Unlinking, Saved
<1>4. EntryInv /\ CopiesInv /\ LineageInv /\ SoundInv /\ UniqueInv /\ FreshInv
  BY DEF EntryInv, CopiesInv, LineageInv, SoundInv, UniqueInv, FreshInv, Idle, Known, Proven,
         Absent
<1>5. PrivateInv /\ ActiveInv /\ LeaseInv
  BY DEF PrivateInv, ActiveInv, LeaseInv, CommittedWasActivated, Making, Planned, Finishing,
         Restoring
<1>6. VisibleInv /\ CompleteInv /\ TakenBackInv /\ StagingInv /\ ExchangedInv
  BY DEF VisibleInv, CompleteInv, TakenBackInv, StagingInv, ExchangedInv
<1>7. RestoringInv /\ FinishingInv /\ PendingInv /\ SettledInv /\ SyncedInv
  BY DEF RestoringInv, FinishingInv, PendingInv, SettledInv, SyncedInv, Finishing, Absent
<1> QED
  BY <1>1, <1>2, <1>3, <1>4, <1>5, <1>6, <1>7 DEF IInv

\* Every step keeps the invariant.
LEMMA StepPreserves == ASSUME IInv, Next PROVE IInv'
<1>1. TypeOK'
  BY TypeKept
<1>2. SiblingInv' /\ LockInv' /\ CopyInv' /\ CallInv' /\ PlanInv' /\ OutcomeInv'
  BY <1>1, SiblingKept, LockKept, CopyKept, CallKept, PlanKept, OutcomeKept
<1>3. SavedInv' /\ EntryInv' /\ CopiesInv' /\ LineageInv' /\ SoundInv' /\ UniqueInv'
  BY <1>1, SavedKept, EntryKept, CopiesKept, LineageKept, SoundKept, UniqueKept
<1>4. FreshInv' /\ PrivateInv' /\ ActiveInv' /\ LeaseInv'
  BY <1>1, FreshKept, PrivateKept, ActiveKept, LeaseKept
<1>5. VisibleInv' /\ CompleteInv' /\ TakenBackInv' /\ StagingInv' /\ ExchangedInv'
  BY <1>1, VisibleKept, CompleteKept, TakenBackKept, StagingKept, ExchangedKept
<1>6. RestoringInv' /\ FinishingInv' /\ PendingInv' /\ SettledInv' /\ SyncedInv'
  BY <1>1, RestoringKept, FinishingKept, PendingKept, SettledKept, SyncedKept
<1> QED
  BY <1>1, <1>2, <1>3, <1>4, <1>5, <1>6 DEF IInv

\* So does a step that changes nothing.
LEMMA StutterPreserves == ASSUME IInv, UNCHANGED vars PROVE IInv'
<1> USE DEF vars, durable, files, history, directory, process, lease, bounds
<1>1. TypeOK' /\ SiblingInv'
  BY DEF IInv, TypeOK, SiblingInv
<1>2. LockInv' /\ CopyInv' /\ CallInv' /\ PlanInv' /\ OutcomeInv' /\ SavedInv'
  BY DEF IInv, LockInv, CopyInv, CallInv, PlanInv, OutcomeInv, SavedInv
<1>3. EntryInv' /\ CopiesInv' /\ LineageInv'
  BY DEF IInv, EntryInv, CopiesInv, LineageInv, Known, Proven
<1>4. SoundInv' /\ UniqueInv' /\ FreshInv'
  BY DEF IInv, SoundInv, UniqueInv, FreshInv, Sound, Known, Proven
<1>5. PrivateInv' /\ ActiveInv' /\ LeaseInv'
  BY DEF IInv, PrivateInv, ActiveInv, LeaseInv, CommittedWasActivated, Proven
<1>6. VisibleInv' /\ CompleteInv' /\ TakenBackInv'
  BY DEF IInv, VisibleInv, CompleteInv, TakenBackInv
<1>7. StagingInv' /\ ExchangedInv' /\ RestoringInv' /\ FinishingInv'
  BY DEF IInv, StagingInv, ExchangedInv, RestoringInv, FinishingInv, Agree, Meddled, Proven
<1>8. PendingInv' /\ SettledInv' /\ SyncedInv'
  BY DEF IInv, PendingInv, SettledInv, SyncedInv, Agree, Meddled, Died
<1> QED
  BY <1>1, <1>2, <1>3, <1>4, <1>5, <1>6, <1>7, <1>8 DEF IInv

\* The inductive invariant holds in every reachable state.
LEMMA Invariance == Spec => []IInv
<1>1. Init => IInv
  BY InitEstablishes
<1>2. IInv /\ [Next]_vars => IInv'
  BY StepPreserves, StutterPreserves
<1> QED
  BY <1>1, <1>2, PTL DEF Spec

-----------------------------------------------------------------------------
(* The theorems                                                            *)

\* Whatever calls ran, died or lost power before: once no intent is pending, the link of a
\* managed class is the one its registry entry stands for, no temporary pointer is left, and
\* no revision counts as committed that was not activated (finish, reconcile_revisions).
THEOREM SettledAgrees == Spec => []SettledAgreement
<1>1. IInv => SettledAgreement
  <2> SUFFICES ASSUME IInv PROVE SettledAgreement
    OBVIOUS
  <2>1. TypeOK /\ CommittedWasActivated /\ (undone => Died \/ Meddled)
    BY DEF IInv, ActiveInv, SyncedInv
  <2>2. ASSUME pending = None, ~Died PROVE survivable = {[link |-> link, temp |-> temp]}
    BY <2>2 DEF IInv, SyncedInv
  <2>3. ASSUME pending = None PROVE \A d \in survivable : d.link \in {link, None}
    BY <2>3 DEF IInv, TakenBackInv
  <2>4. ASSUME pending = None, ~undone
        PROVE  /\ temp = None
               /\ registry.entry.managed => \/ link = TargetOf(registry.entry)
                                            \/ Meddled /\ link \in {None, Foreign, Alien}
    BY <2>4 DEF IInv, SettledInv, Agree, OfUser
  <2> QED
    BY <2>1, <2>2, <2>3, <2>4 DEF SettledAgreement
<1> QED
  BY <1>1, Invariance, PTL

\* A pending intent over a managed prior can be decided by the next recovery, at every crash
\* point and after every power failure (reconcile_revisions, finish).
THEOREM RecoveryCanDecide == Spec => []RecoveryDecides
<1>1. IInv => RecoveryDecides
  <2> SUFFICES ASSUME IInv PROVE RecoveryDecides
    OBVIOUS
  <2>1. LinkTargetRetained
    BY DEF IInv, CompleteInv, LinkTargetRetained
  <2>2. ASSUME pending # None, pending.entry.managed, ~Meddled, ~undone
        PROVE  /\ pending.id \in archived
               /\ link \in {pending.target, pending.candidate}
               /\ temp \in {None, pending.target, pending.candidate}
    BY <2>2 DEF IInv, PendingInv, VisibleInv
  <2> QED
    BY <2>1, <2>2 DEF RecoveryDecides
<1> QED
  BY <1>1, Invariance, PTL

\* A rollback that names the publication it replaces replaces that one (rollback_with_scope).
THEOREM RollbackIsExact == Spec => []ExactRollback
<1>1. IInv => ExactRollback
  BY DEF IInv, PlanInv, ExactRollback
<1> QED
  BY <1>1, Invariance, PTL

\* No manager call takes the link away while a DSP host of the class holds its lease.
THEOREM ActiveLinkIsStable == Spec => ActiveLinkStable
<1>1. IInv /\ [Next]_vars =>
        [leased /\ leased' /\ ~UserChangesLink /\ link \in Revisions => link' = link]_vars
  BY LinkStaysByAll DEF LinkStays
<1> QED
  BY <1>1, Invariance, PTL DEF Spec, ActiveLinkStable

\* No call writes back a registry that lacks what a sibling committed meanwhile.
THEOREM NoUpdateIsLost == Spec => NoLostUpdate
<1>1. IInv /\ [Next]_vars => [registry'.sibling >= registry.sibling]_registry
  BY SiblingGrowsByAll DEF SiblingGrows, vars, durable
<1> QED
  BY <1>1, Invariance, PTL DEF Spec, NoLostUpdate

\* What the user put at the public name stays there or at the temporary name (activate,
\* finish, reconcile_revisions).
THEOREM ForeignIsKept == Spec => ForeignKept
<1>1. IInv /\ [Next]_vars =>
        [\A f \in {Foreign, Alien} :
            f \in {link, temp} /\ ~UserChangesLink /\ ~PowerFails
            /\ (\A p \in Process : ~RegisterInstall(p) /\ ~Unlink(p))
               => f \in {link', temp'}]_vars
  BY UserKeptByAll DEF UserKept
<1> QED
  BY <1>1, Invariance, PTL DEF Spec, ForeignKept

=============================================================================
