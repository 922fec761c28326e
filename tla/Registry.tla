------------------------------ MODULE Registry ------------------------------
(***************************************************************************)
(* The instance registry of the native proxy                              *)
(* (native-vst3-proxy/backend/src/instances.rs): a fixed array of slots,   *)
(* each an entry pointer, a count of readers with a CLOSED bit, and an     *)
(* owner flag.  Host callbacks lease an entry with one atomic increment;   *)
(* insertion, replacement and removal run on other threads.                *)
(*                                                                         *)
(* One action is one atomic access to shared memory (with the local work   *)
(* that follows it), so every interleaving of the calls is a behaviour.    *)
(* An Entry is identified by its id: heap is the set of entries that are   *)
(* allocated and not yet freed, and a pointer is an id or Null.            *)
(***************************************************************************)
EXTENDS Integers, FiniteSets

CONSTANTS Threads,      \* threads that call the registry
          Capacity,     \* CAPACITY, the number of slots
          SerialLimit   \* u64::MAX / CAPACITY - 1, where generations run out

ASSUME CapacityAssumption == Capacity \in Nat \ {0}
ASSUME SerialLimitAssumption == SerialLimit \in Nat
ASSUME ThreadsAssumption == IsFiniteSet(Threads)

VARIABLES entry,      \* entry[s]: the pointer stored in slot s, or Null
          users,      \* users[s]: the low 63 bits of the reader word
          closed,     \* closed[s]: its CLOSED bit
          owner,      \* owner[s]: the non-callback ownership flag
          next,       \* the next serial
          heap,       \* allocated entries
          freed,      \* history: entries that were freed
          pc,         \* where thread t is in its call
          at,         \* the slot t's call is working on
          arg,        \* the id t's call was given, or has made
          ptr,        \* the entry pointer t loaded
          removing,   \* t's exclusive call is remove, not update
          contended   \* t's insert met a held owner

shared == <<entry, users, closed, owner, next, heap, freed>>
local == <<at, arg, ptr, removing, contended>>
vars == <<entry, users, closed, owner, next, heap, freed, pc, at, arg,
          ptr, removing, contended>>

Null == 0
Slots == 0 .. Capacity - 1
Ids == 1 .. SerialLimit * Capacity

\* The slot an id names, and the id made from a serial and a slot.
SlotOf(id) == (id - 1) % Capacity
IdOf(serial, s) == serial * Capacity + s + 1

InsertPcs == {"insert_acquire", "insert_load", "insert_skip", "insert_serial",
              "insert_create", "insert_store", "insert_open"}
LeasePcs == {"lease_load", "lease_check", "lease_held", "lease_drop"}
ExclusivePcs == {"exclusive_load", "exclusive_check", "exclusive_close",
                 "exclusive_wait", "exclusive_finish", "exclusive_null",
                 "exclusive_free", "exclusive_open"}
Pcs == {"idle", "release"} \cup InsertPcs \cup LeasePcs \cup ExclusivePcs

Init ==
    /\ entry = [s \in Slots |-> Null]
    /\ users = [s \in Slots |-> 0]
    /\ closed = [s \in Slots |-> TRUE]
    /\ owner = [s \in Slots |-> FALSE]
    /\ next = 0
    /\ heap = {}
    /\ freed = {}
    /\ pc = [t \in Threads |-> "idle"]
    /\ at = [t \in Threads |-> 0]
    /\ arg = [t \in Threads |-> Null]
    /\ ptr = [t \in Threads |-> Null]
    /\ removing = [t \in Threads |-> FALSE]
    /\ contended = [t \in Threads |-> FALSE]

Goto(t, label) == pc' = [pc EXCEPT ![t] = label]

\* The call returns; its locals go out of scope.
Return(t) ==
    /\ Goto(t, "idle")
    /\ at' = [at EXCEPT ![t] = 0]
    /\ arg' = [arg EXCEPT ![t] = Null]
    /\ ptr' = [ptr EXCEPT ![t] = Null]
    /\ removing' = [removing EXCEPT ![t] = FALSE]
    /\ contended' = [contended EXCEPT ![t] = FALSE]

-----------------------------------------------------------------------------
(* insert *)

InsertBegin(t) ==
    /\ pc[t] = "idle"
    /\ Goto(t, "insert_acquire")
    /\ UNCHANGED <<shared, local>>

\* The owner's compare-exchange failed: note the contention, try the next slot.
InsertContended(t) ==
    /\ pc[t] = "insert_acquire"
    /\ at[t] < Capacity
    /\ owner[at[t]]
    /\ contended' = [contended EXCEPT ![t] = TRUE]
    /\ at' = [at EXCEPT ![t] = @ + 1]
    /\ UNCHANGED <<shared, pc, arg, ptr, removing>>

InsertAcquire(t) ==
    /\ pc[t] = "insert_acquire"
    /\ at[t] < Capacity
    /\ ~owner[at[t]]
    /\ owner' = [owner EXCEPT ![at[t]] = TRUE]
    /\ Goto(t, "insert_load")
    /\ UNCHANGED <<entry, users, closed, next, heap, freed, local>>

\* Every slot was visited: the call returns Busy if it met a held owner, else Full.
InsertRefuse(t) ==
    /\ pc[t] = "insert_acquire"
    /\ at[t] = Capacity
    /\ Return(t)
    /\ UNCHANGED shared

\* Variant: takes the slot without looking at its entry.
InsertLoadUnchecked(t) ==
    /\ pc[t] = "insert_load"
    /\ Goto(t, "insert_serial")
    /\ UNCHANGED <<shared, local>>

InsertLoad(t) ==
    /\ pc[t] = "insert_load"
    /\ Goto(t, IF entry[at[t]] = Null THEN "insert_serial" ELSE "insert_skip")
    /\ UNCHANGED <<shared, local>>

\* The slot is occupied: dropping the owner guard releases it before the next try.
InsertSkip(t) ==
    /\ pc[t] = "insert_skip"
    /\ owner' = [owner EXCEPT ![at[t]] = FALSE]
    /\ at' = [at EXCEPT ![t] = @ + 1]
    /\ Goto(t, "insert_acquire")
    /\ UNCHANGED <<entry, users, closed, next, heap, freed, arg, ptr, removing, contended>>

\* Variant: the serial is read and not advanced.
InsertSerialReused(t) ==
    /\ pc[t] = "insert_serial"
    /\ next < SerialLimit
    /\ arg' = [arg EXCEPT ![t] = IdOf(next, at[t])]
    /\ Goto(t, "insert_create")
    /\ UNCHANGED <<shared, at, ptr, removing, contended>>

InsertSerial(t) ==
    /\ pc[t] = "insert_serial"
    /\ next < SerialLimit
    /\ next' = next + 1
    /\ arg' = [arg EXCEPT ![t] = IdOf(next, at[t])]
    /\ Goto(t, "insert_create")
    /\ UNCHANGED <<entry, users, closed, owner, heap, freed, at, ptr, removing, contended>>

\* GenerationExhausted: the serial would overflow the id.
InsertExhausted(t) ==
    /\ pc[t] = "insert_serial"
    /\ next >= SerialLimit
    /\ Goto(t, "release")
    /\ UNCHANGED <<shared, local>>

\* create() succeeded and its value was boxed.
InsertCreate(t) ==
    /\ pc[t] = "insert_create"
    /\ heap' = heap \cup {arg[t]}
    /\ Goto(t, "insert_store")
    /\ UNCHANGED <<entry, users, closed, owner, next, freed, local>>

\* create() returned an error: the slot stays empty and closed.
InsertCreateFails(t) ==
    /\ pc[t] = "insert_create"
    /\ Goto(t, "release")
    /\ UNCHANGED <<shared, local>>

InsertStore(t) ==
    /\ pc[t] = "insert_store"
    /\ entry' = [entry EXCEPT ![at[t]] = arg[t]]
    /\ Goto(t, "insert_open")
    /\ UNCHANGED <<users, closed, owner, next, heap, freed, local>>

\* Variant: opens the slot by storing zero over the whole reader word.
InsertOpenStoresZero(t) ==
    /\ pc[t] = "insert_open"
    /\ closed' = [closed EXCEPT ![at[t]] = FALSE]
    /\ users' = [users EXCEPT ![at[t]] = 0]
    /\ Goto(t, "release")
    /\ UNCHANGED <<entry, owner, next, heap, freed, local>>

\* fetch_and(!CLOSED) keeps the counts of refused readers still on their way out.
InsertOpen(t) ==
    /\ pc[t] = "insert_open"
    /\ closed' = [closed EXCEPT ![at[t]] = FALSE]
    /\ Goto(t, "release")
    /\ UNCHANGED <<entry, users, owner, next, heap, freed, local>>

\* Drop of the owner guard when insert or exclusive returns.
Release(t) ==
    /\ pc[t] = "release"
    /\ owner' = [owner EXCEPT ![at[t]] = FALSE]
    /\ Return(t)
    /\ UNCHANGED <<entry, users, closed, next, heap, freed>>

-----------------------------------------------------------------------------
(* lease; a call with id 0 returns None without touching a slot *)

\* Variant: ignores the CLOSED bit of the previous word.
LeaseAddIgnoringClosed(t, id) ==
    /\ pc[t] = "idle"
    /\ at' = [at EXCEPT ![t] = SlotOf(id)]
    /\ arg' = [arg EXCEPT ![t] = id]
    /\ users' = [users EXCEPT ![SlotOf(id)] = @ + 1]
    /\ Goto(t, "lease_load")
    /\ UNCHANGED <<entry, closed, owner, next, heap, freed, ptr, removing, contended>>

LeaseAdd(t, id) ==
    /\ pc[t] = "idle"
    /\ at' = [at EXCEPT ![t] = SlotOf(id)]
    /\ arg' = [arg EXCEPT ![t] = id]
    /\ users' = [users EXCEPT ![SlotOf(id)] = @ + 1]
    /\ Goto(t, IF closed[SlotOf(id)] THEN "lease_drop" ELSE "lease_load")
    /\ UNCHANGED <<entry, closed, owner, next, heap, freed, ptr, removing, contended>>

LeaseLoad(t) ==
    /\ pc[t] = "lease_load"
    /\ ptr' = [ptr EXCEPT ![t] = entry[at[t]]]
    /\ Goto(t, IF entry[at[t]] = Null THEN "lease_drop" ELSE "lease_check")
    /\ UNCHANGED <<shared, at, arg, removing, contended>>

\* Dereferences the pointer to compare the entry's id with the caller's.
LeaseCheck(t) ==
    /\ pc[t] = "lease_check"
    /\ Goto(t, IF ptr[t] = arg[t] THEN "lease_held" ELSE "lease_drop")
    /\ UNCHANGED <<shared, local>>

LeaseDrop(t) ==
    /\ pc[t] \in {"lease_held", "lease_drop"}
    /\ users' = [users EXCEPT ![at[t]] = @ - 1]
    /\ Return(t)
    /\ UNCHANGED <<entry, closed, owner, next, heap, freed>>

-----------------------------------------------------------------------------
(* remove and update, both through exclusive.  A call that finds the owner   *)
(* held returns error 3, one with id 0 error 1, and neither changes state.   *)

ExclusiveAcquire(t, id, remove) ==
    /\ pc[t] = "idle"
    /\ ~owner[SlotOf(id)]
    /\ owner' = [owner EXCEPT ![SlotOf(id)] = TRUE]
    /\ at' = [at EXCEPT ![t] = SlotOf(id)]
    /\ arg' = [arg EXCEPT ![t] = id]
    /\ removing' = [removing EXCEPT ![t] = remove]
    /\ Goto(t, "exclusive_load")
    /\ UNCHANGED <<entry, users, closed, next, heap, freed, ptr, contended>>

ExclusiveLoad(t) ==
    /\ pc[t] = "exclusive_load"
    /\ ptr' = [ptr EXCEPT ![t] = entry[at[t]]]
    /\ Goto(t, IF entry[at[t]] = Null THEN "release" ELSE "exclusive_check")
    /\ UNCHANGED <<shared, at, arg, removing, contended>>

\* Dereferences the pointer; another generation's id is error 1.
ExclusiveCheck(t) ==
    /\ pc[t] = "exclusive_check"
    /\ Goto(t, IF ptr[t] = arg[t] THEN "exclusive_close" ELSE "release")
    /\ UNCHANGED <<shared, local>>

ExclusiveClose(t) ==
    /\ pc[t] = "exclusive_close"
    /\ closed' = [closed EXCEPT ![at[t]] = TRUE]
    /\ Goto(t, "exclusive_wait")
    /\ UNCHANGED <<entry, users, owner, next, heap, freed, local>>

\* Variant: does not wait for outstanding leases.
ExclusiveDrainedUnchecked(t) ==
    /\ pc[t] = "exclusive_wait"
    /\ Goto(t, "exclusive_finish")
    /\ UNCHANGED <<shared, local>>

ExclusiveDrained(t) ==
    /\ pc[t] = "exclusive_wait"
    /\ users[at[t]] = 0
    /\ Goto(t, "exclusive_finish")
    /\ UNCHANGED <<shared, local>>

\* Variant: only removal has a deadline; an update waits for its readers forever.
ExclusiveTimeoutOnRemoveOnly(t) ==
    /\ pc[t] = "exclusive_wait"
    /\ users[at[t]] # 0
    /\ removing[t]
    /\ Goto(t, "release")
    /\ UNCHANGED <<shared, local>>

\* Twenty seconds with a reader still inside: error 2, and CLOSED stays set.
ExclusiveTimeout(t) ==
    /\ pc[t] = "exclusive_wait"
    /\ users[at[t]] # 0
    /\ Goto(t, "release")
    /\ UNCHANGED <<shared, local>>

\* finish(&mut value) has returned.
ExclusiveFinish(t) ==
    /\ pc[t] = "exclusive_finish"
    /\ Goto(t, IF removing[t] THEN "exclusive_null" ELSE "exclusive_open")
    /\ UNCHANGED <<shared, local>>

ExclusiveNull(t) ==
    /\ pc[t] = "exclusive_null"
    /\ entry' = [entry EXCEPT ![at[t]] = Null]
    /\ Goto(t, "exclusive_free")
    /\ UNCHANGED <<users, closed, owner, next, heap, freed, local>>

ExclusiveFree(t) ==
    /\ pc[t] = "exclusive_free"
    /\ heap' = heap \ {ptr[t]}
    /\ freed' = freed \cup {ptr[t]}
    /\ Goto(t, "release")
    /\ UNCHANGED <<entry, users, closed, owner, next, local>>

ExclusiveOpen(t) ==
    /\ pc[t] = "exclusive_open"
    /\ closed' = [closed EXCEPT ![at[t]] = FALSE]
    /\ Goto(t, "release")
    /\ UNCHANGED <<entry, users, owner, next, heap, freed, local>>

-----------------------------------------------------------------------------
\* Steps the registry's own code takes without waiting for its caller's work.
Prompt(t) ==
    \/ InsertContended(t) \/ InsertAcquire(t) \/ InsertRefuse(t)
    \/ InsertLoad(t) \/ InsertSkip(t) \/ InsertSerial(t) \/ InsertExhausted(t)
    \/ InsertStore(t) \/ InsertOpen(t) \/ Release(t)
    \/ LeaseLoad(t) \/ LeaseCheck(t) \/ (pc[t] = "lease_drop" /\ LeaseDrop(t))
    \/ ExclusiveLoad(t) \/ ExclusiveCheck(t) \/ ExclusiveClose(t)
    \/ ExclusiveDrained(t) \/ ExclusiveTimeout(t)
    \/ ExclusiveNull(t) \/ ExclusiveFree(t) \/ ExclusiveOpen(t)

\* Steps that wait for code outside it: create(), finish(), the lease's user.
Caller(t) ==
    \/ InsertCreate(t) \/ InsertCreateFails(t)
    \/ ExclusiveFinish(t)
    \/ (pc[t] = "lease_held" /\ LeaseDrop(t))

Begin(t) ==
    \/ InsertBegin(t)
    \/ \E id \in Ids : LeaseAdd(t, id)
    \/ \E id \in Ids, remove \in BOOLEAN : ExclusiveAcquire(t, id, remove)

Next == \E t \in Threads : Prompt(t) \/ Caller(t) \/ Begin(t)

Spec == Init /\ [][Next]_vars

\* The scheduler keeps running a thread inside the registry's own code; it need
\* not return from create(), finish() or the use of a lease.
FairSpec == Spec /\ \A t \in Threads : WF_vars(Prompt(t))

-----------------------------------------------------------------------------
\* Type invariant: every cell of the registry and of a call in progress holds a
\* value the code's types allow, and a reader count is never negative.
TypeOK ==
    /\ entry \in [Slots -> {Null} \cup Ids]
    /\ users \in [Slots -> Nat]
    /\ closed \in [Slots -> BOOLEAN]
    /\ owner \in [Slots -> BOOLEAN]
    /\ next \in 0 .. SerialLimit
    /\ heap \in SUBSET Ids
    /\ freed \in SUBSET Ids
    /\ pc \in [Threads -> Pcs]
    /\ at \in [Threads -> 0 .. Capacity]
    /\ arg \in [Threads -> {Null} \cup Ids]
    /\ ptr \in [Threads -> {Null} \cup Ids]
    /\ removing \in [Threads -> BOOLEAN]
    /\ contended \in [Threads -> BOOLEAN]

\* Threads that have a pointer in hand and will dereference it.
Dereferencing(t) ==
    pc[t] \in {"lease_check", "lease_held", "exclusive_check", "exclusive_close",
               "exclusive_wait", "exclusive_finish", "exclusive_null", "exclusive_free"}

\* No use after free: whatever a lease or an exclusive call may still
\* dereference is allocated, however removals and lookups interleave.
NoUseAfterFree ==
    \A t \in Threads : Dereferencing(t) => ptr[t] \in heap

\* While finish() holds &mut to an entry (remove or update), no callback holds a
\* lease on that slot and no second finish() runs there.
ExclusiveAccess ==
    \A t, u \in Threads :
        /\ t # u
        /\ pc[t] = "exclusive_finish"
        /\ at[u] = at[t]
        => pc[u] \notin {"lease_held", "lease_check", "exclusive_finish"}

\* A lease is granted only on the generation its caller named, and that entry
\* stays the slot's published entry for as long as the lease lives.
LeasePinsGeneration ==
    \A t \in Threads : pc[t] = "lease_held" =>
        /\ ptr[t] = arg[t]
        /\ entry[at[t]] = arg[t]

\* Every allocated entry is either published in the slot its id names or in the
\* hands of exactly the call that is about to publish or free it: none leaks.
NoLeak ==
    \A id \in heap :
        \/ entry[SlotOf(id)] = id
        \/ \E t \in Threads : pc[t] = "insert_store" /\ arg[t] = id
        \/ \E t \in Threads : pc[t] = "exclusive_free" /\ ptr[t] = id

\* A stale handle stays dead: an id whose entry was freed is never allocated,
\* published or leased again, although its slot is reused.
StaleHandlesStayDead ==
    /\ heap \cap freed = {}
    /\ \A s \in Slots : entry[s] \notin freed
    /\ \A t \in Threads : pc[t] = "lease_held" => arg[t] \notin freed

\* A call's own code always comes to an end, whatever other threads do: a
\* blocked create() or finish(), or a lease that is never returned, holds up
\* neither a sibling's insert, nor a lookup, nor the removal that times out.
CallsReturn ==
    \A t \in Threads :
        (pc[t] # "idle") ~>
            (pc[t] \in {"idle", "insert_create", "exclusive_finish", "lease_held"})
=============================================================================
