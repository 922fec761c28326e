--------------------------- MODULE RegistryProofs ---------------------------
(***************************************************************************)
(* Proofs that the registry's safety properties hold for every number of   *)
(* threads, every capacity and every serial limit.                         *)
(***************************************************************************)
EXTENDS Registry, FiniteSetTheorems, TLAPS

\* Calls that hold the owner flag of their slot.
OwnerPcs == {"insert_load", "insert_skip", "insert_serial", "insert_create",
             "insert_store", "insert_open", "release"} \cup ExclusivePcs

\* Readers that passed the CLOSED test, and owners that waited them out.
AdmittedPcs == {"lease_load", "lease_check", "lease_held"}
DrainedPcs == {"exclusive_finish", "exclusive_null", "exclusive_free", "exclusive_open"}

Readers(s) == {t \in Threads : pc[t] \in LeasePcs /\ at[t] = s}

\* A call past its first slot access works on a real slot.
SlotInv ==
    \A t \in Threads : pc[t] \notin {"idle", "insert_acquire"} => at[t] \in Slots

\* The reader word counts exactly the lease calls in flight, refused ones too.
CountInv == \A s \in Slots : users[s] = Cardinality(Readers(s))

\* The owner flag is a lock.
OwnerInv ==
    /\ \A t \in Threads : pc[t] \in OwnerPcs => owner[at[t]]
    /\ \A t, u \in Threads :
          pc[t] \in OwnerPcs /\ pc[u] \in OwnerPcs /\ at[t] = at[u] => t = u

\* An empty slot, and one whose owner has drained it, is closed and unread.
GateInv ==
    /\ \A s \in Slots : entry[s] = Null => closed[s]
    /\ \A t \in Threads : pc[t] \in AdmittedPcs => entry[at[t]] # Null
    /\ \A t \in Threads : pc[t] \in DrainedPcs \cup {"exclusive_wait", "insert_open"} =>
          closed[at[t]]
    /\ \A t, u \in Threads :
          pc[t] \in AdmittedPcs /\ pc[u] \in DrainedPcs => at[t] # at[u]

\* What the pointers in hand point to.
PointerInv ==
    /\ \A t \in Threads : pc[t] \in {"lease_check", "lease_held"} => ptr[t] = entry[at[t]]
    /\ \A t \in Threads : pc[t] = "lease_held" => ptr[t] = arg[t]
    /\ \A t \in Threads :
          pc[t] \in {"exclusive_check", "exclusive_close", "exclusive_wait",
                     "exclusive_finish", "exclusive_null", "exclusive_open"} =>
             ptr[t] = entry[at[t]] /\ ptr[t] # Null
    /\ \A t \in Threads : pc[t] = "exclusive_free" =>
          /\ entry[at[t]] = Null
          /\ ptr[t] \in heap
          /\ SlotOf(ptr[t]) = at[t]
    /\ \A t \in Threads : pc[t] \in {"insert_serial", "insert_create", "insert_store"} =>
          entry[at[t]] = Null
    /\ \A t \in Threads : pc[t] = "insert_open" => entry[at[t]] # Null

\* Identities: ids are minted once, live in their own slot, and die once.
IdentityInv ==
    /\ \A s \in Slots : entry[s] # Null => entry[s] \in heap /\ SlotOf(entry[s]) = s
    /\ \A id \in heap \cup freed : id <= next * Capacity
    /\ heap \cap freed = {}
    /\ \A t \in Threads : pc[t] \in {"insert_create", "insert_store"} =>
          /\ arg[t] \in Ids
          /\ SlotOf(arg[t]) = at[t]
          /\ arg[t] <= next * Capacity
    /\ \A t \in Threads : pc[t] = "insert_create" => arg[t] \notin heap \cup freed
    /\ \A t \in Threads : pc[t] = "insert_store" => arg[t] \in heap
    /\ NoLeak

IInv == TypeOK /\ SlotInv /\ CountInv /\ OwnerInv /\ GateInv /\ PointerInv /\ IdentityInv

-----------------------------------------------------------------------------
(* Arithmetic of ids *)

\* One more serial adds one more row of Capacity ids.
LEMMA SerialRow ==
    ASSUME NEW a \in Nat, NEW b \in Nat, a < b
    PROVE  a * Capacity + Capacity <= b * Capacity
<1>1. PICK d \in Nat : b = a + 1 + d
  <2>1. b - a - 1 \in Nat /\ b = a + 1 + (b - a - 1)
    OBVIOUS
  <2> QED BY <2>1
<1>2. b * Capacity = a * Capacity + Capacity + d * Capacity
  BY <1>1, CapacityAssumption
<1>3. a * Capacity \in Nat /\ d * Capacity \in Nat
  BY CapacityAssumption
<1> QED BY <1>2, <1>3, CapacityAssumption

\* An id names a slot of the registry.
LEMMA SlotOfType == \A id \in Ids : SlotOf(id) \in Slots
<1> SUFFICES ASSUME NEW id \in Ids PROVE SlotOf(id) \in Slots
  OBVIOUS
<1>1. SerialLimit * Capacity \in Nat
  BY CapacityAssumption, SerialLimitAssumption
<1>2. id - 1 \in Nat
  BY <1>1 DEF Ids
<1> QED BY <1>2, CapacityAssumption DEF SlotOf, Slots

\* The id insert mints from the next serial is in range, names the slot it is
\* minted for, and lies above every id of an earlier serial.
LEMMA FreshId ==
    ASSUME NEW n \in Nat, n < SerialLimit, NEW s \in Slots
    PROVE  /\ IdOf(n, s) \in Ids
           /\ SlotOf(IdOf(n, s)) = s
           /\ IdOf(n, s) > n * Capacity
           /\ IdOf(n, s) <= (n + 1) * Capacity
           /\ n * Capacity <= (n + 1) * Capacity
<1>1. n * Capacity \in Nat /\ SerialLimit * Capacity \in Nat
  BY CapacityAssumption, SerialLimitAssumption
<1>2. n * Capacity + Capacity <= SerialLimit * Capacity
  BY SerialRow, SerialLimitAssumption
<1>3. (n + 1) * Capacity = n * Capacity + Capacity
  BY CapacityAssumption
<1>4. SlotOf(IdOf(n, s)) = s
  <2>1. IdOf(n, s) - 1 = n * Capacity + s
    BY <1>1, CapacityAssumption DEF IdOf, Slots
  <2>2. (n * Capacity + s) % Capacity = s
    BY CapacityAssumption DEF Slots
  <2> QED BY <2>1, <2>2 DEF SlotOf
<1> QED BY <1>1, <1>2, <1>3, <1>4, CapacityAssumption DEF IdOf, Ids, Slots

-----------------------------------------------------------------------------
\* Only finitely many lease calls are in flight.
LEMMA ReadersFinite == \A s : IsFiniteSet(Readers(s))
BY ThreadsAssumption, FS_Subset DEF Readers

(* The inductive step, one lemma per action *)

\* The step InsertBegin of the registry preserves the inductive invariant.
LEMMA InsertBeginStep ==
    ASSUME IInv, NEW t \in Threads, InsertBegin(t)
    PROVE  IInv'
<1> USE DEF Null
<1>1. TypeOK'
  BY CapacityAssumption
     DEF IInv, TypeOK, InsertBegin, Goto, shared, local, Pcs, InsertPcs,
         LeasePcs, ExclusivePcs
<1>2. SlotInv'
  BY CapacityAssumption
     DEF IInv, TypeOK, SlotInv, InsertBegin, Goto, shared, local, Slots
<1>3. CountInv'
  <2>1. \A s \in Slots : Readers(s)' = Readers(s)
    BY DEF IInv, TypeOK, Readers, InsertBegin, Goto, shared, local, LeasePcs
  <2> QED BY <2>1 DEF IInv, CountInv, InsertBegin, Goto, shared, local
<1>4. OwnerInv'
  BY DEF IInv, TypeOK, SlotInv, OwnerInv, InsertBegin, Goto, shared, local,
         OwnerPcs, ExclusivePcs
<1>5. GateInv'
  BY DEF IInv, TypeOK, SlotInv, OwnerInv, GateInv, PointerInv, InsertBegin,
         Goto, shared, local, OwnerPcs, ExclusivePcs, AdmittedPcs, DrainedPcs
<1>6. PointerInv'
  BY DEF IInv, TypeOK, SlotInv, OwnerInv, GateInv, PointerInv, IdentityInv,
         InsertBegin, Goto, shared, local, OwnerPcs, ExclusivePcs,
         AdmittedPcs, DrainedPcs
<1>7. IdentityInv'
  BY DEF IInv, TypeOK, SlotInv, OwnerInv, PointerInv, IdentityInv, NoLeak,
         InsertBegin, Goto, shared, local, OwnerPcs, ExclusivePcs
<1> QED BY <1>1, <1>2, <1>3, <1>4, <1>5, <1>6, <1>7 DEF IInv

\* The step InsertContended of the registry preserves the inductive invariant.
LEMMA InsertContendedStep ==
    ASSUME IInv, NEW t \in Threads, InsertContended(t)
    PROVE  IInv'
<1> USE DEF Null
<1>1. TypeOK'
  BY CapacityAssumption
     DEF IInv, TypeOK, SlotInv, InsertContended, shared, Pcs, InsertPcs,
         LeasePcs, ExclusivePcs
<1>2. SlotInv'
  BY CapacityAssumption
     DEF IInv, TypeOK, SlotInv, InsertContended, shared, Slots
<1>3. CountInv'
  <2>1. \A s \in Slots : Readers(s)' = Readers(s)
    BY DEF IInv, TypeOK, Readers, InsertContended, shared, LeasePcs
  <2> QED BY <2>1 DEF IInv, CountInv, InsertContended, shared
<1>4. OwnerInv'
  BY DEF IInv, TypeOK, SlotInv, OwnerInv, InsertContended, shared, OwnerPcs,
         ExclusivePcs
<1>5. GateInv'
  BY DEF IInv, TypeOK, SlotInv, OwnerInv, GateInv, PointerInv,
         InsertContended, shared, OwnerPcs, ExclusivePcs, AdmittedPcs,
         DrainedPcs
<1>6. PointerInv'
  BY DEF IInv, TypeOK, SlotInv, OwnerInv, GateInv, PointerInv, IdentityInv,
         InsertContended, shared, OwnerPcs, ExclusivePcs, AdmittedPcs,
         DrainedPcs
<1>7. IdentityInv'
  BY DEF IInv, TypeOK, SlotInv, OwnerInv, PointerInv, IdentityInv, NoLeak,
         InsertContended, shared, OwnerPcs, ExclusivePcs
<1> QED BY <1>1, <1>2, <1>3, <1>4, <1>5, <1>6, <1>7 DEF IInv

\* The step InsertAcquire of the registry preserves the inductive invariant.
LEMMA InsertAcquireStep ==
    ASSUME IInv, NEW t \in Threads, InsertAcquire(t)
    PROVE  IInv'
<1> USE DEF Null
<1>1. TypeOK'
  BY CapacityAssumption
     DEF IInv, TypeOK, SlotInv, InsertAcquire, Goto, local, Pcs, InsertPcs,
         LeasePcs, ExclusivePcs
<1>2. SlotInv'
  BY CapacityAssumption
     DEF IInv, TypeOK, SlotInv, InsertAcquire, Goto, local, Slots
<1>3. CountInv'
  <2>1. \A s \in Slots : Readers(s)' = Readers(s)
    BY DEF IInv, TypeOK, Readers, InsertAcquire, Goto, local, LeasePcs
  <2> QED BY <2>1 DEF IInv, CountInv, InsertAcquire, Goto, local
<1>4. OwnerInv'
  <2>1. at[t] \in Slots
    BY CapacityAssumption DEF IInv, TypeOK, InsertAcquire, Slots
  <2> QED BY <2>1
     DEF IInv, TypeOK, SlotInv, OwnerInv, InsertAcquire, Goto, local,
         OwnerPcs, ExclusivePcs
<1>5. GateInv'
  BY DEF IInv, TypeOK, SlotInv, OwnerInv, GateInv, PointerInv, InsertAcquire,
         Goto, local, OwnerPcs, ExclusivePcs, AdmittedPcs, DrainedPcs
<1>6. PointerInv'
  BY DEF IInv, TypeOK, SlotInv, OwnerInv, GateInv, PointerInv, IdentityInv,
         InsertAcquire, Goto, local, OwnerPcs, ExclusivePcs, AdmittedPcs,
         DrainedPcs
<1>7. IdentityInv'
  BY DEF IInv, TypeOK, SlotInv, OwnerInv, PointerInv, IdentityInv, NoLeak,
         InsertAcquire, Goto, local, OwnerPcs, ExclusivePcs
<1> QED BY <1>1, <1>2, <1>3, <1>4, <1>5, <1>6, <1>7 DEF IInv

\* The step InsertRefuse of the registry preserves the inductive invariant.
LEMMA InsertRefuseStep ==
    ASSUME IInv, NEW t \in Threads, InsertRefuse(t)
    PROVE  IInv'
<1> USE DEF Null
<1>1. TypeOK'
  BY CapacityAssumption
     DEF IInv, TypeOK, SlotInv, InsertRefuse, Goto, Return, shared, Pcs,
         InsertPcs, LeasePcs, ExclusivePcs
<1>2. SlotInv'
  BY CapacityAssumption
     DEF IInv, TypeOK, SlotInv, InsertRefuse, Goto, Return, shared, Slots
<1>3. CountInv'
  <2>1. \A s \in Slots : Readers(s)' = Readers(s)
    BY DEF IInv, TypeOK, Readers, InsertRefuse, Goto, Return, shared, LeasePcs
  <2> QED BY <2>1 DEF IInv, CountInv, InsertRefuse, Goto, Return, shared
<1>4. OwnerInv'
  BY DEF IInv, TypeOK, SlotInv, OwnerInv, InsertRefuse, Goto, Return, shared,
         OwnerPcs, ExclusivePcs
<1>5. GateInv'
  BY DEF IInv, TypeOK, SlotInv, OwnerInv, GateInv, PointerInv, InsertRefuse,
         Goto, Return, shared, OwnerPcs, ExclusivePcs, AdmittedPcs, DrainedPcs
<1>6. PointerInv'
  BY DEF IInv, TypeOK, SlotInv, OwnerInv, GateInv, PointerInv, IdentityInv,
         InsertRefuse, Goto, Return, shared, OwnerPcs, ExclusivePcs,
         AdmittedPcs, DrainedPcs
<1>7. IdentityInv'
  BY DEF IInv, TypeOK, SlotInv, OwnerInv, PointerInv, IdentityInv, NoLeak,
         InsertRefuse, Goto, Return, shared, OwnerPcs, ExclusivePcs
<1> QED BY <1>1, <1>2, <1>3, <1>4, <1>5, <1>6, <1>7 DEF IInv

\* The step InsertLoad of the registry preserves the inductive invariant.
LEMMA InsertLoadStep ==
    ASSUME IInv, NEW t \in Threads, InsertLoad(t)
    PROVE  IInv'
<1> USE DEF Null
<1>1. TypeOK'
  BY CapacityAssumption
     DEF IInv, TypeOK, InsertLoad, Goto, shared, local, Pcs, InsertPcs,
         LeasePcs, ExclusivePcs
<1>2. SlotInv'
  BY CapacityAssumption
     DEF IInv, TypeOK, SlotInv, InsertLoad, Goto, shared, local, Slots
<1>3. CountInv'
  <2>1. \A s \in Slots : Readers(s)' = Readers(s)
    BY DEF IInv, TypeOK, Readers, InsertLoad, Goto, shared, local, LeasePcs
  <2> QED BY <2>1 DEF IInv, CountInv, InsertLoad, Goto, shared, local
<1>4. OwnerInv'
  BY DEF IInv, TypeOK, SlotInv, OwnerInv, InsertLoad, Goto, shared, local,
         OwnerPcs, ExclusivePcs
<1>5. GateInv'
  BY DEF IInv, TypeOK, SlotInv, OwnerInv, GateInv, PointerInv, InsertLoad,
         Goto, shared, local, OwnerPcs, ExclusivePcs, AdmittedPcs, DrainedPcs
<1>6. PointerInv'
  BY DEF IInv, TypeOK, SlotInv, OwnerInv, GateInv, PointerInv, IdentityInv,
         InsertLoad, Goto, shared, local, OwnerPcs, ExclusivePcs, AdmittedPcs,
         DrainedPcs
<1>7. IdentityInv'
  BY DEF IInv, TypeOK, SlotInv, OwnerInv, PointerInv, IdentityInv, NoLeak,
         InsertLoad, Goto, shared, local, OwnerPcs, ExclusivePcs
<1> QED BY <1>1, <1>2, <1>3, <1>4, <1>5, <1>6, <1>7 DEF IInv

\* The step InsertSkip of the registry preserves the inductive invariant.
LEMMA InsertSkipStep ==
    ASSUME IInv, NEW t \in Threads, InsertSkip(t)
    PROVE  IInv'
<1> USE DEF Null
<1>1. TypeOK'
  <2>1. at[t] \in Slots
    BY DEF IInv, SlotInv, InsertSkip
  <2>2. at' \in [Threads -> 0 .. Capacity]
    BY <2>1, CapacityAssumption DEF IInv, TypeOK, InsertSkip, Slots
  <2> QED BY <2>1, <2>2 DEF IInv, TypeOK, InsertSkip, Goto, Pcs, InsertPcs
<1>2. SlotInv'
  BY CapacityAssumption DEF IInv, TypeOK, SlotInv, InsertSkip, Goto, Slots
<1>3. CountInv'
  <2>1. \A s \in Slots : Readers(s)' = Readers(s)
    BY DEF IInv, TypeOK, Readers, InsertSkip, Goto, LeasePcs
  <2> QED BY <2>1 DEF IInv, CountInv, InsertSkip, Goto
<1>4. OwnerInv'
  BY DEF IInv, TypeOK, SlotInv, OwnerInv, InsertSkip, Goto, OwnerPcs,
         ExclusivePcs
<1>5. GateInv'
  BY DEF IInv, TypeOK, SlotInv, OwnerInv, GateInv, PointerInv, InsertSkip,
         Goto, OwnerPcs, ExclusivePcs, AdmittedPcs, DrainedPcs
<1>6. PointerInv'
  BY DEF IInv, TypeOK, SlotInv, OwnerInv, GateInv, PointerInv, IdentityInv,
         InsertSkip, Goto, OwnerPcs, ExclusivePcs, AdmittedPcs, DrainedPcs
<1>7. IdentityInv'
  BY DEF IInv, TypeOK, SlotInv, OwnerInv, PointerInv, IdentityInv, NoLeak,
         InsertSkip, Goto, OwnerPcs, ExclusivePcs
<1> QED BY <1>1, <1>2, <1>3, <1>4, <1>5, <1>6, <1>7 DEF IInv

\* The step InsertSerial of the registry preserves the inductive invariant.
LEMMA InsertSerialStep ==
    ASSUME IInv, NEW t \in Threads, InsertSerial(t)
    PROVE  IInv'
<1> USE DEF Null
<1>1. TypeOK'
  <2>1. at[t] \in Slots /\ next \in Nat /\ next < SerialLimit
    BY SerialLimitAssumption DEF IInv, TypeOK, SlotInv, InsertSerial
  <2>2. IdOf(next, at[t]) \in Ids
    BY <2>1, FreshId
  <2>3. next' \in 0 .. SerialLimit
    BY <2>1, SerialLimitAssumption DEF InsertSerial
  <2> QED BY <2>2, <2>3 DEF IInv, TypeOK, InsertSerial, Goto, Pcs, InsertPcs
<1>2. SlotInv'
  BY CapacityAssumption DEF IInv, TypeOK, SlotInv, InsertSerial, Goto, Slots
<1>3. CountInv'
  <2>1. \A s \in Slots : Readers(s)' = Readers(s)
    BY DEF IInv, TypeOK, Readers, InsertSerial, Goto, LeasePcs
  <2> QED BY <2>1 DEF IInv, CountInv, InsertSerial, Goto
<1>4. OwnerInv'
  BY DEF IInv, TypeOK, SlotInv, OwnerInv, InsertSerial, Goto, OwnerPcs,
         ExclusivePcs
<1>5. GateInv'
  BY DEF IInv, TypeOK, SlotInv, OwnerInv, GateInv, PointerInv, InsertSerial,
         Goto, OwnerPcs, ExclusivePcs, AdmittedPcs, DrainedPcs
<1>6. PointerInv'
  BY DEF IInv, TypeOK, SlotInv, OwnerInv, GateInv, PointerInv, IdentityInv,
         InsertSerial, Goto, OwnerPcs, ExclusivePcs, AdmittedPcs, DrainedPcs
<1>7. IdentityInv'
  <2> DEFINE new == IdOf(next, at[t])
  <2>1. at[t] \in Slots /\ next \in Nat /\ next < SerialLimit
    BY SerialLimitAssumption DEF IInv, TypeOK, SlotInv, InsertSerial
  <2>2. /\ new \in Ids
        /\ SlotOf(new) = at[t]
        /\ new > next * Capacity
        /\ new <= next' * Capacity
        /\ next * Capacity <= next' * Capacity
    BY <2>1, FreshId DEF InsertSerial
  <2>3. next * Capacity \in Nat /\ next' * Capacity \in Nat
    BY <2>1, CapacityAssumption DEF InsertSerial
  <2>4. \A id \in Ids : id <= next * Capacity => id <= next' * Capacity /\ id # new
    <3>1. Ids \subseteq Int
      BY DEF Ids
    <3> HIDE DEF new
    <3> QED BY <3>1, <2>2, <2>3
  <2>5. /\ pc' = [pc EXCEPT ![t] = "insert_create"]
        /\ arg' = [arg EXCEPT ![t] = new]
        /\ UNCHANGED <<entry, heap, freed, at, ptr>>
    BY DEF InsertSerial, Goto
  <2> HIDE DEF new
  <2>6. \A id \in (heap \cup freed)' : id <= next' * Capacity
    BY <2>4, <2>5 DEF IInv, TypeOK, IdentityInv
  <2>7. new \notin heap \cup freed
    BY <2>4 DEF IInv, TypeOK, IdentityInv
  <2>8. \A u \in Threads : pc'[u] \in {"insert_create", "insert_store"} =>
            arg'[u] \in Ids /\ SlotOf(arg'[u]) = at'[u] /\ arg'[u] <= next' * Capacity
    BY <2>2, <2>4, <2>5 DEF IInv, TypeOK, IdentityInv
  <2>9. \A u \in Threads :
            /\ pc'[u] = "insert_create" => arg'[u] \notin (heap \cup freed)'
            /\ pc'[u] = "insert_store" => arg'[u] \in heap'
    BY <2>5, <2>7 DEF IInv, TypeOK, IdentityInv
  <2>10. NoLeak'
    BY <2>5 DEF IInv, TypeOK, IdentityInv, NoLeak, InsertSerial
  <2> QED BY <2>5, <2>6, <2>8, <2>9, <2>10 DEF IInv, IdentityInv
<1> QED BY <1>1, <1>2, <1>3, <1>4, <1>5, <1>6, <1>7 DEF IInv

\* The step InsertExhausted of the registry preserves the inductive invariant.
LEMMA InsertExhaustedStep ==
    ASSUME IInv, NEW t \in Threads, InsertExhausted(t)
    PROVE  IInv'
<1> USE DEF Null
<1>1. TypeOK'
  BY CapacityAssumption
     DEF IInv, TypeOK, InsertExhausted, Goto, shared, local, Pcs, InsertPcs,
         LeasePcs, ExclusivePcs
<1>2. SlotInv'
  BY CapacityAssumption
     DEF IInv, TypeOK, SlotInv, InsertExhausted, Goto, shared, local, Slots
<1>3. CountInv'
  <2>1. \A s \in Slots : Readers(s)' = Readers(s)
    BY DEF IInv, TypeOK, Readers, InsertExhausted, Goto, shared, local, LeasePcs
  <2> QED BY <2>1 DEF IInv, CountInv, InsertExhausted, Goto, shared, local
<1>4. OwnerInv'
  BY DEF IInv, TypeOK, SlotInv, OwnerInv, InsertExhausted, Goto, shared,
         local, OwnerPcs, ExclusivePcs
<1>5. GateInv'
  BY DEF IInv, TypeOK, SlotInv, OwnerInv, GateInv, PointerInv,
         InsertExhausted, Goto, shared, local, OwnerPcs, ExclusivePcs,
         AdmittedPcs, DrainedPcs
<1>6. PointerInv'
  BY DEF IInv, TypeOK, SlotInv, OwnerInv, GateInv, PointerInv, IdentityInv,
         InsertExhausted, Goto, shared, local, OwnerPcs, ExclusivePcs,
         AdmittedPcs, DrainedPcs
<1>7. IdentityInv'
  BY DEF IInv, TypeOK, SlotInv, OwnerInv, PointerInv, IdentityInv, NoLeak,
         InsertExhausted, Goto, shared, local, OwnerPcs, ExclusivePcs
<1> QED BY <1>1, <1>2, <1>3, <1>4, <1>5, <1>6, <1>7 DEF IInv

\* The step InsertCreate of the registry preserves the inductive invariant.
LEMMA InsertCreateStep ==
    ASSUME IInv, NEW t \in Threads, InsertCreate(t)
    PROVE  IInv'
<1> USE DEF Null
<1>1. TypeOK'
  BY CapacityAssumption
     DEF IInv, TypeOK, SlotInv, IdentityInv, InsertCreate, Goto, local, Pcs, InsertPcs,
         LeasePcs, ExclusivePcs
<1>2. SlotInv'
  BY CapacityAssumption
     DEF IInv, TypeOK, SlotInv, InsertCreate, Goto, local, Slots
<1>3. CountInv'
  <2>1. \A s \in Slots : Readers(s)' = Readers(s)
    BY DEF IInv, TypeOK, Readers, InsertCreate, Goto, local, LeasePcs
  <2> QED BY <2>1 DEF IInv, CountInv, InsertCreate, Goto, local
<1>4. OwnerInv'
  BY DEF IInv, TypeOK, SlotInv, OwnerInv, InsertCreate, Goto, local, OwnerPcs,
         ExclusivePcs
<1>5. GateInv'
  BY DEF IInv, TypeOK, SlotInv, OwnerInv, GateInv, PointerInv, InsertCreate,
         Goto, local, OwnerPcs, ExclusivePcs, AdmittedPcs, DrainedPcs
<1>6. PointerInv'
  BY DEF IInv, TypeOK, SlotInv, OwnerInv, GateInv, PointerInv, IdentityInv,
         InsertCreate, Goto, local, OwnerPcs, ExclusivePcs, AdmittedPcs,
         DrainedPcs
<1>7. IdentityInv'
  BY DEF IInv, TypeOK, SlotInv, OwnerInv, PointerInv, IdentityInv, NoLeak,
         InsertCreate, Goto, local, OwnerPcs, ExclusivePcs
<1> QED BY <1>1, <1>2, <1>3, <1>4, <1>5, <1>6, <1>7 DEF IInv

\* The step InsertCreateFails of the registry preserves the inductive invariant.
LEMMA InsertCreateFailsStep ==
    ASSUME IInv, NEW t \in Threads, InsertCreateFails(t)
    PROVE  IInv'
<1> USE DEF Null
<1>1. TypeOK'
  BY CapacityAssumption
     DEF IInv, TypeOK, InsertCreateFails, Goto, shared, local, Pcs, InsertPcs,
         LeasePcs, ExclusivePcs
<1>2. SlotInv'
  BY CapacityAssumption
     DEF IInv, TypeOK, SlotInv, InsertCreateFails, Goto, shared, local, Slots
<1>3. CountInv'
  <2>1. \A s \in Slots : Readers(s)' = Readers(s)
    BY DEF IInv, TypeOK, Readers, InsertCreateFails, Goto, shared, local,
           LeasePcs
  <2> QED BY <2>1 DEF IInv, CountInv, InsertCreateFails, Goto, shared, local
<1>4. OwnerInv'
  BY DEF IInv, TypeOK, SlotInv, OwnerInv, InsertCreateFails, Goto, shared,
         local, OwnerPcs, ExclusivePcs
<1>5. GateInv'
  BY DEF IInv, TypeOK, SlotInv, OwnerInv, GateInv, PointerInv,
         InsertCreateFails, Goto, shared, local, OwnerPcs, ExclusivePcs,
         AdmittedPcs, DrainedPcs
<1>6. PointerInv'
  BY DEF IInv, TypeOK, SlotInv, OwnerInv, GateInv, PointerInv, IdentityInv,
         InsertCreateFails, Goto, shared, local, OwnerPcs, ExclusivePcs,
         AdmittedPcs, DrainedPcs
<1>7. IdentityInv'
  BY DEF IInv, TypeOK, SlotInv, OwnerInv, PointerInv, IdentityInv, NoLeak,
         InsertCreateFails, Goto, shared, local, OwnerPcs, ExclusivePcs
<1> QED BY <1>1, <1>2, <1>3, <1>4, <1>5, <1>6, <1>7 DEF IInv

\* The step InsertStore of the registry preserves the inductive invariant.
LEMMA InsertStoreStep ==
    ASSUME IInv, NEW t \in Threads, InsertStore(t)
    PROVE  IInv'
<1> USE DEF Null
<1>1. TypeOK'
  BY CapacityAssumption
     DEF IInv, TypeOK, SlotInv, InsertStore, Goto, local, Pcs, InsertPcs,
         LeasePcs, ExclusivePcs
<1>2. SlotInv'
  BY CapacityAssumption
     DEF IInv, TypeOK, SlotInv, InsertStore, Goto, local, Slots
<1>3. CountInv'
  <2>1. \A s \in Slots : Readers(s)' = Readers(s)
    BY DEF IInv, TypeOK, Readers, InsertStore, Goto, local, LeasePcs
  <2> QED BY <2>1 DEF IInv, CountInv, InsertStore, Goto, local
<1>4. OwnerInv'
  BY DEF IInv, TypeOK, SlotInv, OwnerInv, InsertStore, Goto, local, OwnerPcs,
         ExclusivePcs
<1>5. GateInv'
  BY DEF IInv, TypeOK, SlotInv, OwnerInv, GateInv, PointerInv, InsertStore,
         Goto, local, OwnerPcs, ExclusivePcs, AdmittedPcs, DrainedPcs
<1>6. PointerInv'
  <2>1. at[t] \in Slots /\ entry[at[t]] = Null
    BY DEF IInv, SlotInv, PointerInv, InsertStore
  <2>2. \A u \in Threads : u # t /\ pc[u] \in OwnerPcs \cup AdmittedPcs => at[u] # at[t]
    BY <2>1 DEF IInv, OwnerInv, GateInv, InsertStore, OwnerPcs
  <2>3. \A u \in Threads : u # t => pc'[u] = pc[u]
    BY DEF IInv, TypeOK, InsertStore, Goto
  <2>4. \A u \in Threads : u # t /\ pc[u] \in OwnerPcs \cup AdmittedPcs =>
            entry'[at[u]] = entry[at[u]]
    BY <2>1, <2>2
       DEF IInv, TypeOK, SlotInv, InsertStore, OwnerPcs, AdmittedPcs,
           ExclusivePcs
  <2>5. pc'[t] = "insert_open" /\ entry'[at[t]] # Null
    BY <2>1 DEF IInv, TypeOK, IdentityInv, InsertStore, Goto, Ids
  <2> QED BY <2>3, <2>4, <2>5
     DEF IInv, PointerInv, InsertStore, local, OwnerPcs, AdmittedPcs,
         ExclusivePcs
<1>7. IdentityInv'
  <2>1. /\ at[t] \in Slots
        /\ arg[t] \in heap
        /\ SlotOf(arg[t]) = at[t]
        /\ entry' = [entry EXCEPT ![at[t]] = arg[t]]
        /\ pc' = [pc EXCEPT ![t] = "insert_open"]
        /\ UNCHANGED <<next, heap, freed, at, arg, ptr>>
    BY DEF IInv, SlotInv, IdentityInv, InsertStore, Goto, local
  <2>2. \A s \in Slots : entry'[s] # Null => entry'[s] \in heap' /\ SlotOf(entry'[s]) = s
    BY <2>1 DEF IInv, TypeOK, IdentityInv
  <2>3. \A s \in Slots : entry[s] # Null => entry'[s] = entry[s]
    BY <2>1 DEF IInv, TypeOK, PointerInv, InsertStore
  <2>4. NoLeak'
    <3> SUFFICES ASSUME NEW id \in heap
                 PROVE  \/ entry'[SlotOf(id)] = id
                        \/ \E u \in Threads : pc'[u] = "insert_store" /\ arg'[u] = id
                        \/ \E u \in Threads : pc'[u] = "exclusive_free" /\ ptr'[u] = id
      BY <2>1 DEF NoLeak
    <3>1. CASE id = arg[t]
      BY <3>1, <2>1 DEF IInv, TypeOK
    <3>2. CASE id # arg[t] /\ entry[SlotOf(id)] = id
      <4>1. SlotOf(id) \in Slots /\ id # Null
        BY SlotOfType DEF IInv, TypeOK, Ids
      <4> QED BY <4>1, <3>2, <2>3
    <3>3. CASE id # arg[t] /\ entry[SlotOf(id)] # id
      BY <3>3, <2>1, InsertStore(t)
         DEF IInv, TypeOK, IdentityInv, NoLeak, InsertStore
    <3> QED BY <3>1, <3>2, <3>3
  <2> QED BY <2>1, <2>2, <2>4 DEF IInv, TypeOK, IdentityInv
<1> QED BY <1>1, <1>2, <1>3, <1>4, <1>5, <1>6, <1>7 DEF IInv

\* The step InsertOpen of the registry preserves the inductive invariant.
LEMMA InsertOpenStep ==
    ASSUME IInv, NEW t \in Threads, InsertOpen(t)
    PROVE  IInv'
<1> USE DEF Null
<1>1. TypeOK'
  BY CapacityAssumption
     DEF IInv, TypeOK, SlotInv, InsertOpen, Goto, local, Pcs, InsertPcs,
         LeasePcs, ExclusivePcs
<1>2. SlotInv'
  BY CapacityAssumption
     DEF IInv, TypeOK, SlotInv, InsertOpen, Goto, local, Slots
<1>3. CountInv'
  <2>1. \A s \in Slots : Readers(s)' = Readers(s)
    BY DEF IInv, TypeOK, Readers, InsertOpen, Goto, local, LeasePcs
  <2> QED BY <2>1 DEF IInv, CountInv, InsertOpen, Goto, local
<1>4. OwnerInv'
  BY DEF IInv, TypeOK, SlotInv, OwnerInv, InsertOpen, Goto, local, OwnerPcs,
         ExclusivePcs
<1>5. GateInv'
  BY DEF IInv, TypeOK, SlotInv, OwnerInv, GateInv, PointerInv, InsertOpen,
         Goto, local, OwnerPcs, ExclusivePcs, AdmittedPcs, DrainedPcs
<1>6. PointerInv'
  BY DEF IInv, TypeOK, SlotInv, OwnerInv, GateInv, PointerInv, IdentityInv,
         InsertOpen, Goto, local, OwnerPcs, ExclusivePcs, AdmittedPcs,
         DrainedPcs
<1>7. IdentityInv'
  BY DEF IInv, TypeOK, SlotInv, OwnerInv, PointerInv, IdentityInv, NoLeak,
         InsertOpen, Goto, local, OwnerPcs, ExclusivePcs
<1> QED BY <1>1, <1>2, <1>3, <1>4, <1>5, <1>6, <1>7 DEF IInv

\* The step Release of the registry preserves the inductive invariant.
LEMMA ReleaseStep ==
    ASSUME IInv, NEW t \in Threads, Release(t)
    PROVE  IInv'
<1> USE DEF Null
<1>1. TypeOK'
  <2>1. 0 \in 0 .. Capacity
    BY CapacityAssumption
  <2> QED BY <2>1 DEF IInv, TypeOK, Release, Return, Goto, Pcs
<1>2. SlotInv'
  BY CapacityAssumption DEF IInv, TypeOK, SlotInv, Release, Goto, Return, Slots
<1>3. CountInv'
  <2>1. \A s \in Slots : Readers(s)' = Readers(s)
    BY DEF IInv, TypeOK, Readers, Release, Goto, Return, LeasePcs
  <2> QED BY <2>1 DEF IInv, CountInv, Release, Goto, Return
<1>4. OwnerInv'
  BY DEF IInv, TypeOK, SlotInv, OwnerInv, Release, Goto, Return, OwnerPcs,
         ExclusivePcs
<1>5. GateInv'
  BY DEF IInv, TypeOK, SlotInv, OwnerInv, GateInv, PointerInv, Release, Goto,
         Return, OwnerPcs, ExclusivePcs, AdmittedPcs, DrainedPcs
<1>6. PointerInv'
  BY DEF IInv, TypeOK, SlotInv, OwnerInv, GateInv, PointerInv, IdentityInv,
         Release, Goto, Return, OwnerPcs, ExclusivePcs, AdmittedPcs,
         DrainedPcs
<1>7. IdentityInv'
  BY DEF IInv, TypeOK, SlotInv, OwnerInv, PointerInv, IdentityInv, NoLeak,
         Release, Goto, Return, OwnerPcs, ExclusivePcs
<1> QED BY <1>1, <1>2, <1>3, <1>4, <1>5, <1>6, <1>7 DEF IInv

\* The step LeaseAdd of the registry preserves the inductive invariant.
LEMMA LeaseAddStep ==
    ASSUME IInv, NEW t \in Threads, NEW id \in Ids, LeaseAdd(t, id)
    PROVE  IInv'
<1> USE DEF Null
<1>1. TypeOK'
  BY CapacityAssumption, SlotOfType
     DEF IInv, TypeOK, SlotInv, Slots, LeaseAdd, Goto, Pcs, InsertPcs, LeasePcs,
         ExclusivePcs
<1>2. SlotInv'
  BY CapacityAssumption, SlotOfType
     DEF IInv, TypeOK, SlotInv, LeaseAdd, Goto, Slots
<1>3. CountInv'
  <2>1. SlotOf(id) \in Slots
    BY SlotOfType
  <2>2. \A s \in Slots : s # SlotOf(id) => Readers(s)' = Readers(s)
    BY DEF IInv, TypeOK, Readers, LeaseAdd, Goto, LeasePcs
  <2>3. /\ Readers(SlotOf(id))' = Readers(SlotOf(id)) \cup {t}
        /\ t \notin Readers(SlotOf(id))
    BY <2>1 DEF IInv, TypeOK, Readers, LeaseAdd, Goto, LeasePcs
  <2>4. Cardinality(Readers(SlotOf(id)) \cup {t}) = Cardinality(Readers(SlotOf(id))) + 1
    BY <2>3, ReadersFinite, FS_AddElement
  <2> QED BY <2>1, <2>2, <2>3, <2>4 DEF IInv, TypeOK, CountInv, LeaseAdd
<1>4. OwnerInv'
  BY SlotOfType
     DEF IInv, TypeOK, SlotInv, OwnerInv, LeaseAdd, Goto, OwnerPcs,
         ExclusivePcs
<1>5. GateInv'
  BY SlotOfType
     DEF IInv, TypeOK, SlotInv, OwnerInv, GateInv, PointerInv, LeaseAdd, Goto,
         OwnerPcs, ExclusivePcs, AdmittedPcs, DrainedPcs
<1>6. PointerInv'
  BY SlotOfType
     DEF IInv, TypeOK, SlotInv, OwnerInv, GateInv, PointerInv, IdentityInv,
         LeaseAdd, Goto, OwnerPcs, ExclusivePcs, AdmittedPcs, DrainedPcs
<1>7. IdentityInv'
  BY SlotOfType
     DEF IInv, TypeOK, SlotInv, OwnerInv, PointerInv, IdentityInv, NoLeak,
         LeaseAdd, Goto, OwnerPcs, ExclusivePcs
<1> QED BY <1>1, <1>2, <1>3, <1>4, <1>5, <1>6, <1>7 DEF IInv

\* The step LeaseLoad of the registry preserves the inductive invariant.
LEMMA LeaseLoadStep ==
    ASSUME IInv, NEW t \in Threads, LeaseLoad(t)
    PROVE  IInv'
<1> USE DEF Null
<1>1. TypeOK'
  BY CapacityAssumption
     DEF IInv, TypeOK, SlotInv, LeaseLoad, Goto, shared, Pcs, InsertPcs,
         LeasePcs, ExclusivePcs
<1>2. SlotInv'
  BY CapacityAssumption
     DEF IInv, TypeOK, SlotInv, LeaseLoad, Goto, shared, Slots
<1>3. CountInv'
  <2>1. \A s \in Slots : Readers(s)' = Readers(s)
    BY DEF IInv, TypeOK, Readers, LeaseLoad, Goto, shared, LeasePcs
  <2> QED BY <2>1 DEF IInv, CountInv, LeaseLoad, Goto, shared
<1>4. OwnerInv'
  BY DEF IInv, TypeOK, SlotInv, OwnerInv, LeaseLoad, Goto, shared, OwnerPcs,
         ExclusivePcs
<1>5. GateInv'
  BY DEF IInv, TypeOK, SlotInv, OwnerInv, GateInv, PointerInv, LeaseLoad,
         Goto, shared, OwnerPcs, ExclusivePcs, AdmittedPcs, DrainedPcs
<1>6. PointerInv'
  BY DEF IInv, TypeOK, SlotInv, OwnerInv, GateInv, PointerInv, IdentityInv,
         LeaseLoad, Goto, shared, OwnerPcs, ExclusivePcs, AdmittedPcs,
         DrainedPcs
<1>7. IdentityInv'
  BY DEF IInv, TypeOK, SlotInv, OwnerInv, PointerInv, IdentityInv, NoLeak,
         LeaseLoad, Goto, shared, OwnerPcs, ExclusivePcs
<1> QED BY <1>1, <1>2, <1>3, <1>4, <1>5, <1>6, <1>7 DEF IInv

\* The step LeaseCheck of the registry preserves the inductive invariant.
LEMMA LeaseCheckStep ==
    ASSUME IInv, NEW t \in Threads, LeaseCheck(t)
    PROVE  IInv'
<1> USE DEF Null
<1>1. TypeOK'
  BY CapacityAssumption
     DEF IInv, TypeOK, SlotInv, LeaseCheck, Goto, shared, local, Pcs,
         InsertPcs, LeasePcs, ExclusivePcs
<1>2. SlotInv'
  BY CapacityAssumption
     DEF IInv, TypeOK, SlotInv, LeaseCheck, Goto, shared, local, Slots
<1>3. CountInv'
  <2>1. \A s \in Slots : Readers(s)' = Readers(s)
    BY DEF IInv, TypeOK, Readers, LeaseCheck, Goto, shared, local, LeasePcs
  <2> QED BY <2>1 DEF IInv, CountInv, LeaseCheck, Goto, shared, local
<1>4. OwnerInv'
  BY DEF IInv, TypeOK, SlotInv, OwnerInv, LeaseCheck, Goto, shared, local,
         OwnerPcs, ExclusivePcs
<1>5. GateInv'
  BY DEF IInv, TypeOK, SlotInv, OwnerInv, GateInv, PointerInv, LeaseCheck,
         Goto, shared, local, OwnerPcs, ExclusivePcs, AdmittedPcs, DrainedPcs
<1>6. PointerInv'
  BY DEF IInv, TypeOK, SlotInv, OwnerInv, GateInv, PointerInv, IdentityInv,
         LeaseCheck, Goto, shared, local, OwnerPcs, ExclusivePcs, AdmittedPcs,
         DrainedPcs
<1>7. IdentityInv'
  BY DEF IInv, TypeOK, SlotInv, OwnerInv, PointerInv, IdentityInv, NoLeak,
         LeaseCheck, Goto, shared, local, OwnerPcs, ExclusivePcs
<1> QED BY <1>1, <1>2, <1>3, <1>4, <1>5, <1>6, <1>7 DEF IInv

\* The step LeaseDrop of the registry preserves the inductive invariant.
LEMMA LeaseDropStep ==
    ASSUME IInv, NEW t \in Threads, LeaseDrop(t)
    PROVE  IInv'
<1> USE DEF Null
<1>1. TypeOK'
  <2>1. at[t] \in Slots /\ t \in Readers(at[t])
    BY DEF IInv, SlotInv, LeaseDrop, Readers, LeasePcs
  <2>2. users[at[t]] \in Nat \ {0}
    <3>1. Cardinality(Readers(at[t])) # 0
      BY <2>1, ReadersFinite, FS_EmptySet
    <3> QED BY <3>1, <2>1 DEF IInv, TypeOK, CountInv
  <2>3. users' \in [Slots -> Nat]
    BY <2>1, <2>2 DEF IInv, TypeOK, LeaseDrop
  <2> QED BY <2>3, CapacityAssumption
     DEF IInv, TypeOK, LeaseDrop, Return, Goto, Pcs
<1>2. SlotInv'
  BY CapacityAssumption
     DEF IInv, TypeOK, SlotInv, LeaseDrop, Goto, Return, Slots
<1>3. CountInv'
  <2>1. at[t] \in Slots /\ t \in Readers(at[t])
    BY DEF IInv, SlotInv, LeaseDrop, Readers, LeasePcs
  <2>2. \A s \in Slots : s # at[t] => Readers(s)' = Readers(s)
    BY DEF IInv, TypeOK, Readers, LeaseDrop, Return, Goto, LeasePcs
  <2>3. \A s \in Slots : s = at[t] => Readers(s)' = Readers(s) \ {t}
    BY DEF IInv, TypeOK, Readers, LeaseDrop, Return, Goto, LeasePcs
  <2>4. Cardinality(Readers(at[t]) \ {t}) = Cardinality(Readers(at[t])) - 1
    BY <2>1, ReadersFinite, FS_RemoveElement
  <2> QED BY <2>1, <2>2, <2>3, <2>4 DEF IInv, TypeOK, CountInv, LeaseDrop
<1>4. OwnerInv'
  BY DEF IInv, TypeOK, SlotInv, OwnerInv, LeaseDrop, Goto, Return, OwnerPcs,
         ExclusivePcs
<1>5. GateInv'
  BY DEF IInv, TypeOK, SlotInv, OwnerInv, GateInv, PointerInv, LeaseDrop,
         Goto, Return, OwnerPcs, ExclusivePcs, AdmittedPcs, DrainedPcs
<1>6. PointerInv'
  BY DEF IInv, TypeOK, SlotInv, OwnerInv, GateInv, PointerInv, IdentityInv,
         LeaseDrop, Goto, Return, OwnerPcs, ExclusivePcs, AdmittedPcs,
         DrainedPcs
<1>7. IdentityInv'
  BY DEF IInv, TypeOK, SlotInv, OwnerInv, PointerInv, IdentityInv, NoLeak,
         LeaseDrop, Goto, Return, OwnerPcs, ExclusivePcs
<1> QED BY <1>1, <1>2, <1>3, <1>4, <1>5, <1>6, <1>7 DEF IInv

\* The step ExclusiveAcquire of the registry preserves the inductive invariant.
LEMMA ExclusiveAcquireStep ==
    ASSUME IInv, NEW t \in Threads, NEW id \in Ids, NEW remove \in BOOLEAN,
           ExclusiveAcquire(t, id, remove)
    PROVE  IInv'
<1> USE DEF Null
<1>1. TypeOK'
  BY CapacityAssumption, SlotOfType
     DEF IInv, TypeOK, SlotInv, Slots, ExclusiveAcquire, Goto, Pcs, InsertPcs,
         LeasePcs, ExclusivePcs
<1>2. SlotInv'
  BY CapacityAssumption, SlotOfType
     DEF IInv, TypeOK, SlotInv, ExclusiveAcquire, Goto, Slots
<1>3. CountInv'
  <2>1. \A s \in Slots : Readers(s)' = Readers(s)
    BY DEF IInv, TypeOK, Readers, ExclusiveAcquire, Goto, LeasePcs
  <2> QED BY <2>1 DEF IInv, CountInv, ExclusiveAcquire, Goto
<1>4. OwnerInv'
  BY SlotOfType
     DEF IInv, TypeOK, SlotInv, OwnerInv, ExclusiveAcquire, Goto, OwnerPcs,
         ExclusivePcs
<1>5. GateInv'
  BY SlotOfType
     DEF IInv, TypeOK, SlotInv, OwnerInv, GateInv, PointerInv,
         ExclusiveAcquire, Goto, OwnerPcs, ExclusivePcs, AdmittedPcs,
         DrainedPcs
<1>6. PointerInv'
  BY SlotOfType
     DEF IInv, TypeOK, SlotInv, OwnerInv, GateInv, PointerInv, IdentityInv,
         ExclusiveAcquire, Goto, OwnerPcs, ExclusivePcs, AdmittedPcs,
         DrainedPcs
<1>7. IdentityInv'
  BY SlotOfType
     DEF IInv, TypeOK, SlotInv, OwnerInv, PointerInv, IdentityInv, NoLeak,
         ExclusiveAcquire, Goto, OwnerPcs, ExclusivePcs
<1> QED BY <1>1, <1>2, <1>3, <1>4, <1>5, <1>6, <1>7 DEF IInv

\* The step ExclusiveLoad of the registry preserves the inductive invariant.
LEMMA ExclusiveLoadStep ==
    ASSUME IInv, NEW t \in Threads, ExclusiveLoad(t)
    PROVE  IInv'
<1> USE DEF Null
<1>1. TypeOK'
  BY CapacityAssumption
     DEF IInv, TypeOK, SlotInv, ExclusiveLoad, Goto, shared, Pcs, InsertPcs,
         LeasePcs, ExclusivePcs
<1>2. SlotInv'
  BY CapacityAssumption
     DEF IInv, TypeOK, SlotInv, ExclusiveLoad, Goto, shared, Slots
<1>3. CountInv'
  <2>1. \A s \in Slots : Readers(s)' = Readers(s)
    BY DEF IInv, TypeOK, Readers, ExclusiveLoad, Goto, shared, LeasePcs
  <2> QED BY <2>1 DEF IInv, CountInv, ExclusiveLoad, Goto, shared
<1>4. OwnerInv'
  BY DEF IInv, TypeOK, SlotInv, OwnerInv, ExclusiveLoad, Goto, shared,
         OwnerPcs, ExclusivePcs
<1>5. GateInv'
  BY DEF IInv, TypeOK, SlotInv, OwnerInv, GateInv, PointerInv, ExclusiveLoad,
         Goto, shared, OwnerPcs, ExclusivePcs, AdmittedPcs, DrainedPcs
<1>6. PointerInv'
  BY DEF IInv, TypeOK, SlotInv, OwnerInv, GateInv, PointerInv, IdentityInv,
         ExclusiveLoad, Goto, shared, OwnerPcs, ExclusivePcs, AdmittedPcs,
         DrainedPcs
<1>7. IdentityInv'
  BY DEF IInv, TypeOK, SlotInv, OwnerInv, PointerInv, IdentityInv, NoLeak,
         ExclusiveLoad, Goto, shared, OwnerPcs, ExclusivePcs
<1> QED BY <1>1, <1>2, <1>3, <1>4, <1>5, <1>6, <1>7 DEF IInv

\* The step ExclusiveCheck of the registry preserves the inductive invariant.
LEMMA ExclusiveCheckStep ==
    ASSUME IInv, NEW t \in Threads, ExclusiveCheck(t)
    PROVE  IInv'
<1> USE DEF Null
<1>1. TypeOK'
  BY CapacityAssumption
     DEF IInv, TypeOK, SlotInv, ExclusiveCheck, Goto, shared, local, Pcs,
         InsertPcs, LeasePcs, ExclusivePcs
<1>2. SlotInv'
  BY CapacityAssumption
     DEF IInv, TypeOK, SlotInv, ExclusiveCheck, Goto, shared, local, Slots
<1>3. CountInv'
  <2>1. \A s \in Slots : Readers(s)' = Readers(s)
    BY DEF IInv, TypeOK, Readers, ExclusiveCheck, Goto, shared, local, LeasePcs
  <2> QED BY <2>1 DEF IInv, CountInv, ExclusiveCheck, Goto, shared, local
<1>4. OwnerInv'
  BY DEF IInv, TypeOK, SlotInv, OwnerInv, ExclusiveCheck, Goto, shared, local,
         OwnerPcs, ExclusivePcs
<1>5. GateInv'
  BY DEF IInv, TypeOK, SlotInv, OwnerInv, GateInv, PointerInv, ExclusiveCheck,
         Goto, shared, local, OwnerPcs, ExclusivePcs, AdmittedPcs, DrainedPcs
<1>6. PointerInv'
  BY DEF IInv, TypeOK, SlotInv, OwnerInv, GateInv, PointerInv, IdentityInv,
         ExclusiveCheck, Goto, shared, local, OwnerPcs, ExclusivePcs,
         AdmittedPcs, DrainedPcs
<1>7. IdentityInv'
  BY DEF IInv, TypeOK, SlotInv, OwnerInv, PointerInv, IdentityInv, NoLeak,
         ExclusiveCheck, Goto, shared, local, OwnerPcs, ExclusivePcs
<1> QED BY <1>1, <1>2, <1>3, <1>4, <1>5, <1>6, <1>7 DEF IInv

\* The step ExclusiveClose of the registry preserves the inductive invariant.
LEMMA ExclusiveCloseStep ==
    ASSUME IInv, NEW t \in Threads, ExclusiveClose(t)
    PROVE  IInv'
<1> USE DEF Null
<1>1. TypeOK'
  BY CapacityAssumption
     DEF IInv, TypeOK, SlotInv, ExclusiveClose, Goto, local, Pcs, InsertPcs,
         LeasePcs, ExclusivePcs
<1>2. SlotInv'
  BY CapacityAssumption
     DEF IInv, TypeOK, SlotInv, ExclusiveClose, Goto, local, Slots
<1>3. CountInv'
  <2>1. \A s \in Slots : Readers(s)' = Readers(s)
    BY DEF IInv, TypeOK, Readers, ExclusiveClose, Goto, local, LeasePcs
  <2> QED BY <2>1 DEF IInv, CountInv, ExclusiveClose, Goto, local
<1>4. OwnerInv'
  BY DEF IInv, TypeOK, SlotInv, OwnerInv, ExclusiveClose, Goto, local,
         OwnerPcs, ExclusivePcs
<1>5. GateInv'
  BY DEF IInv, TypeOK, SlotInv, OwnerInv, GateInv, PointerInv, ExclusiveClose,
         Goto, local, OwnerPcs, ExclusivePcs, AdmittedPcs, DrainedPcs
<1>6. PointerInv'
  BY DEF IInv, TypeOK, SlotInv, OwnerInv, GateInv, PointerInv, IdentityInv,
         ExclusiveClose, Goto, local, OwnerPcs, ExclusivePcs, AdmittedPcs,
         DrainedPcs
<1>7. IdentityInv'
  BY DEF IInv, TypeOK, SlotInv, OwnerInv, PointerInv, IdentityInv, NoLeak,
         ExclusiveClose, Goto, local, OwnerPcs, ExclusivePcs
<1> QED BY <1>1, <1>2, <1>3, <1>4, <1>5, <1>6, <1>7 DEF IInv

\* The step ExclusiveDrained of the registry preserves the inductive invariant.
LEMMA ExclusiveDrainedStep ==
    ASSUME IInv, NEW t \in Threads, ExclusiveDrained(t)
    PROVE  IInv'
<1> USE DEF Null
<1>1. TypeOK'
  BY CapacityAssumption
     DEF IInv, TypeOK, SlotInv, ExclusiveDrained, Goto, shared, local, Pcs,
         InsertPcs, LeasePcs, ExclusivePcs
<1>2. SlotInv'
  BY CapacityAssumption
     DEF IInv, TypeOK, SlotInv, ExclusiveDrained, Goto, shared, local, Slots
<1>3. CountInv'
  <2>1. \A s \in Slots : Readers(s)' = Readers(s)
    BY DEF IInv, TypeOK, Readers, ExclusiveDrained, Goto, shared, local,
           LeasePcs
  <2> QED BY <2>1 DEF IInv, CountInv, ExclusiveDrained, Goto, shared, local
<1>4. OwnerInv'
  BY DEF IInv, TypeOK, SlotInv, OwnerInv, ExclusiveDrained, Goto, shared,
         local, OwnerPcs, ExclusivePcs
<1>5. GateInv'
  <2>1. at[t] \in Slots /\ Cardinality(Readers(at[t])) = 0
    BY DEF IInv, SlotInv, CountInv, ExclusiveDrained
  <2>2. Readers(at[t]) = {}
    BY <2>1, ReadersFinite, FS_EmptySet
  <2>3. \A u \in Threads : pc[u] \in AdmittedPcs => at[u] # at[t]
    BY <2>2 DEF Readers, AdmittedPcs, LeasePcs
  <2> QED BY <2>3
     DEF IInv, TypeOK, SlotInv, GateInv, ExclusiveDrained, Goto, shared,
         local, AdmittedPcs, DrainedPcs
<1>6. PointerInv'
  BY DEF IInv, TypeOK, SlotInv, OwnerInv, GateInv, PointerInv, IdentityInv,
         ExclusiveDrained, Goto, shared, local, OwnerPcs, ExclusivePcs,
         AdmittedPcs, DrainedPcs
<1>7. IdentityInv'
  BY DEF IInv, TypeOK, SlotInv, OwnerInv, PointerInv, IdentityInv, NoLeak,
         ExclusiveDrained, Goto, shared, local, OwnerPcs, ExclusivePcs
<1> QED BY <1>1, <1>2, <1>3, <1>4, <1>5, <1>6, <1>7 DEF IInv

\* The step ExclusiveTimeout of the registry preserves the inductive invariant.
LEMMA ExclusiveTimeoutStep ==
    ASSUME IInv, NEW t \in Threads, ExclusiveTimeout(t)
    PROVE  IInv'
<1> USE DEF Null
<1>1. TypeOK'
  BY CapacityAssumption
     DEF IInv, TypeOK, SlotInv, ExclusiveTimeout, Goto, shared, local, Pcs,
         InsertPcs, LeasePcs, ExclusivePcs
<1>2. SlotInv'
  BY CapacityAssumption
     DEF IInv, TypeOK, SlotInv, ExclusiveTimeout, Goto, shared, local, Slots
<1>3. CountInv'
  <2>1. \A s \in Slots : Readers(s)' = Readers(s)
    BY DEF IInv, TypeOK, Readers, ExclusiveTimeout, Goto, shared, local,
           LeasePcs
  <2> QED BY <2>1 DEF IInv, CountInv, ExclusiveTimeout, Goto, shared, local
<1>4. OwnerInv'
  BY DEF IInv, TypeOK, SlotInv, OwnerInv, ExclusiveTimeout, Goto, shared,
         local, OwnerPcs, ExclusivePcs
<1>5. GateInv'
  BY DEF IInv, TypeOK, SlotInv, OwnerInv, GateInv, PointerInv,
         ExclusiveTimeout, Goto, shared, local, OwnerPcs, ExclusivePcs,
         AdmittedPcs, DrainedPcs
<1>6. PointerInv'
  BY DEF IInv, TypeOK, SlotInv, OwnerInv, GateInv, PointerInv, IdentityInv,
         ExclusiveTimeout, Goto, shared, local, OwnerPcs, ExclusivePcs,
         AdmittedPcs, DrainedPcs
<1>7. IdentityInv'
  BY DEF IInv, TypeOK, SlotInv, OwnerInv, PointerInv, IdentityInv, NoLeak,
         ExclusiveTimeout, Goto, shared, local, OwnerPcs, ExclusivePcs
<1> QED BY <1>1, <1>2, <1>3, <1>4, <1>5, <1>6, <1>7 DEF IInv

\* The step ExclusiveFinish of the registry preserves the inductive invariant.
LEMMA ExclusiveFinishStep ==
    ASSUME IInv, NEW t \in Threads, ExclusiveFinish(t)
    PROVE  IInv'
<1> USE DEF Null
<1>1. TypeOK'
  BY CapacityAssumption
     DEF IInv, TypeOK, SlotInv, ExclusiveFinish, Goto, shared, local, Pcs,
         InsertPcs, LeasePcs, ExclusivePcs
<1>2. SlotInv'
  BY CapacityAssumption
     DEF IInv, TypeOK, SlotInv, ExclusiveFinish, Goto, shared, local, Slots
<1>3. CountInv'
  <2>1. \A s \in Slots : Readers(s)' = Readers(s)
    BY DEF IInv, TypeOK, Readers, ExclusiveFinish, Goto, shared, local, LeasePcs
  <2> QED BY <2>1 DEF IInv, CountInv, ExclusiveFinish, Goto, shared, local
<1>4. OwnerInv'
  BY DEF IInv, TypeOK, SlotInv, OwnerInv, ExclusiveFinish, Goto, shared,
         local, OwnerPcs, ExclusivePcs
<1>5. GateInv'
  BY DEF IInv, TypeOK, SlotInv, OwnerInv, GateInv, PointerInv,
         ExclusiveFinish, Goto, shared, local, OwnerPcs, ExclusivePcs,
         AdmittedPcs, DrainedPcs
<1>6. PointerInv'
  BY DEF IInv, TypeOK, SlotInv, OwnerInv, GateInv, PointerInv, IdentityInv,
         ExclusiveFinish, Goto, shared, local, OwnerPcs, ExclusivePcs,
         AdmittedPcs, DrainedPcs
<1>7. IdentityInv'
  BY DEF IInv, TypeOK, SlotInv, OwnerInv, PointerInv, IdentityInv, NoLeak,
         ExclusiveFinish, Goto, shared, local, OwnerPcs, ExclusivePcs
<1> QED BY <1>1, <1>2, <1>3, <1>4, <1>5, <1>6, <1>7 DEF IInv

\* The step ExclusiveNull of the registry preserves the inductive invariant.
LEMMA ExclusiveNullStep ==
    ASSUME IInv, NEW t \in Threads, ExclusiveNull(t)
    PROVE  IInv'
<1> USE DEF Null
<1>1. TypeOK'
  BY CapacityAssumption
     DEF IInv, TypeOK, SlotInv, ExclusiveNull, Goto, local, Pcs, InsertPcs,
         LeasePcs, ExclusivePcs
<1>2. SlotInv'
  BY CapacityAssumption
     DEF IInv, TypeOK, SlotInv, ExclusiveNull, Goto, local, Slots
<1>3. CountInv'
  <2>1. \A s \in Slots : Readers(s)' = Readers(s)
    BY DEF IInv, TypeOK, Readers, ExclusiveNull, Goto, local, LeasePcs
  <2> QED BY <2>1 DEF IInv, CountInv, ExclusiveNull, Goto, local
<1>4. OwnerInv'
  BY DEF IInv, TypeOK, SlotInv, OwnerInv, ExclusiveNull, Goto, local,
         OwnerPcs, ExclusivePcs
<1>5. GateInv'
  BY DEF IInv, TypeOK, SlotInv, OwnerInv, GateInv, PointerInv, ExclusiveNull,
         Goto, local, OwnerPcs, ExclusivePcs, AdmittedPcs, DrainedPcs
<1>6. PointerInv'
  BY DEF IInv, TypeOK, SlotInv, OwnerInv, GateInv, PointerInv, IdentityInv,
         ExclusiveNull, Goto, local, OwnerPcs, ExclusivePcs, AdmittedPcs,
         DrainedPcs
<1>7. IdentityInv'
  BY DEF IInv, TypeOK, SlotInv, OwnerInv, PointerInv, IdentityInv, NoLeak,
         ExclusiveNull, Goto, local, OwnerPcs, ExclusivePcs
<1> QED BY <1>1, <1>2, <1>3, <1>4, <1>5, <1>6, <1>7 DEF IInv

\* The step ExclusiveFree of the registry preserves the inductive invariant.
LEMMA ExclusiveFreeStep ==
    ASSUME IInv, NEW t \in Threads, ExclusiveFree(t)
    PROVE  IInv'
<1> USE DEF Null
<1>1. TypeOK'
  BY CapacityAssumption
     DEF IInv, TypeOK, SlotInv, PointerInv, ExclusiveFree, Goto, local, Pcs, InsertPcs,
         LeasePcs, ExclusivePcs
<1>2. SlotInv'
  BY CapacityAssumption
     DEF IInv, TypeOK, SlotInv, ExclusiveFree, Goto, local, Slots
<1>3. CountInv'
  <2>1. \A s \in Slots : Readers(s)' = Readers(s)
    BY DEF IInv, TypeOK, Readers, ExclusiveFree, Goto, local, LeasePcs
  <2> QED BY <2>1 DEF IInv, CountInv, ExclusiveFree, Goto, local
<1>4. OwnerInv'
  BY DEF IInv, TypeOK, SlotInv, OwnerInv, ExclusiveFree, Goto, local,
         OwnerPcs, ExclusivePcs
<1>5. GateInv'
  BY DEF IInv, TypeOK, SlotInv, OwnerInv, GateInv, PointerInv, ExclusiveFree,
         Goto, local, OwnerPcs, ExclusivePcs, AdmittedPcs, DrainedPcs
<1>6. PointerInv'
  BY DEF IInv, TypeOK, SlotInv, OwnerInv, GateInv, PointerInv, IdentityInv,
         ExclusiveFree, Goto, local, OwnerPcs, ExclusivePcs, AdmittedPcs,
         DrainedPcs
<1>7. IdentityInv'
  BY DEF IInv, TypeOK, SlotInv, OwnerInv, PointerInv, IdentityInv, NoLeak,
         ExclusiveFree, Goto, local, OwnerPcs, ExclusivePcs
<1> QED BY <1>1, <1>2, <1>3, <1>4, <1>5, <1>6, <1>7 DEF IInv

\* The step ExclusiveOpen of the registry preserves the inductive invariant.
LEMMA ExclusiveOpenStep ==
    ASSUME IInv, NEW t \in Threads, ExclusiveOpen(t)
    PROVE  IInv'
<1> USE DEF Null
<1>1. TypeOK'
  BY CapacityAssumption
     DEF IInv, TypeOK, SlotInv, ExclusiveOpen, Goto, local, Pcs, InsertPcs,
         LeasePcs, ExclusivePcs
<1>2. SlotInv'
  BY CapacityAssumption
     DEF IInv, TypeOK, SlotInv, ExclusiveOpen, Goto, local, Slots
<1>3. CountInv'
  <2>1. \A s \in Slots : Readers(s)' = Readers(s)
    BY DEF IInv, TypeOK, Readers, ExclusiveOpen, Goto, local, LeasePcs
  <2> QED BY <2>1 DEF IInv, CountInv, ExclusiveOpen, Goto, local
<1>4. OwnerInv'
  BY DEF IInv, TypeOK, SlotInv, OwnerInv, ExclusiveOpen, Goto, local,
         OwnerPcs, ExclusivePcs
<1>5. GateInv'
  BY DEF IInv, TypeOK, SlotInv, OwnerInv, GateInv, PointerInv, ExclusiveOpen,
         Goto, local, OwnerPcs, ExclusivePcs, AdmittedPcs, DrainedPcs
<1>6. PointerInv'
  BY DEF IInv, TypeOK, SlotInv, OwnerInv, GateInv, PointerInv, IdentityInv,
         ExclusiveOpen, Goto, local, OwnerPcs, ExclusivePcs, AdmittedPcs,
         DrainedPcs
<1>7. IdentityInv'
  BY DEF IInv, TypeOK, SlotInv, OwnerInv, PointerInv, IdentityInv, NoLeak,
         ExclusiveOpen, Goto, local, OwnerPcs, ExclusivePcs
<1> QED BY <1>1, <1>2, <1>3, <1>4, <1>5, <1>6, <1>7 DEF IInv

-----------------------------------------------------------------------------
(* The theorems *)

\* The empty registry satisfies the invariant.
LEMMA InitEstablishes == Init => IInv
<1> SUFFICES ASSUME Init PROVE IInv
  OBVIOUS
<1>1. TypeOK
  BY CapacityAssumption, SerialLimitAssumption DEF Init, TypeOK, Pcs
<1>2. CountInv
  <2>1. \A s \in Slots : Readers(s) = {}
    BY DEF Init, Readers, LeasePcs
  <2> QED BY <2>1, FS_EmptySet DEF Init, CountInv
<1>3. SlotInv /\ OwnerInv /\ GateInv /\ PointerInv
  BY DEF Init, SlotInv, OwnerInv, GateInv, PointerInv, OwnerPcs, ExclusivePcs,
         AdmittedPcs, DrainedPcs
<1>4. IdentityInv
  BY DEF Init, IdentityInv, NoLeak
<1> QED BY <1>1, <1>2, <1>3, <1>4 DEF IInv

\* Every step of every thread preserves it.
LEMMA NextPreserves == IInv /\ [Next]_vars => IInv'
<1> SUFFICES ASSUME IInv, [Next]_vars PROVE IInv'
  OBVIOUS
<1>1. ASSUME NEW t \in Threads, Prompt(t) PROVE IInv'
  BY <1>1, InsertContendedStep, InsertAcquireStep, InsertRefuseStep,
         InsertLoadStep,
     InsertSkipStep, InsertSerialStep, InsertExhaustedStep, InsertStoreStep,
     InsertOpenStep, ReleaseStep, LeaseLoadStep, LeaseCheckStep, LeaseDropStep,
     ExclusiveLoadStep, ExclusiveCheckStep, ExclusiveCloseStep,
     ExclusiveDrainedStep, ExclusiveTimeoutStep, ExclusiveNullStep,
     ExclusiveFreeStep, ExclusiveOpenStep
     DEF Prompt
<1>2. ASSUME NEW t \in Threads, Caller(t) PROVE IInv'
  BY <1>2, InsertCreateStep, InsertCreateFailsStep, ExclusiveFinishStep,
         LeaseDropStep
     DEF Caller
<1>3. ASSUME NEW t \in Threads, Begin(t) PROVE IInv'
  BY <1>3, InsertBeginStep, LeaseAddStep, ExclusiveAcquireStep DEF Begin
<1>4. CASE UNCHANGED vars
  <2>1. \A s : Readers(s)' = Readers(s)
    BY <1>4 DEF vars, Readers
  <2> QED BY <1>4, <2>1
     DEF vars, IInv, TypeOK, SlotInv, CountInv, OwnerInv, GateInv,
                           PointerInv, IdentityInv, NoLeak
<1> QED BY <1>1, <1>2, <1>3, <1>4 DEF Next

\* The invariant holds throughout every behaviour.
LEMMA Invariance == Spec => []IInv
BY InitEstablishes, NextPreserves, PTL DEF Spec

\* Every cell keeps its type; in particular no sequence of refused, granted and
\* returned leases drives a reader count below zero.
THEOREM TypeCorrect == Spec => []TypeOK
<1>1. IInv => TypeOK
  BY DEF IInv
<1> QED BY <1>1, Invariance, PTL

\* No callback and no owner ever dereferences a freed instance.
THEOREM MemorySafety == Spec => []NoUseAfterFree
<1>1. IInv => NoUseAfterFree
  <2> SUFFICES ASSUME IInv, NEW t \in Threads, Dereferencing(t) PROVE ptr[t] \in heap
    BY DEF NoUseAfterFree
  <2>1. at[t] \in Slots
    BY DEF IInv, SlotInv, Dereferencing
  <2>2. CASE pc[t] = "exclusive_free"
    BY <2>2 DEF IInv, PointerInv
  <2>3. CASE pc[t] # "exclusive_free"
    <3>1. ptr[t] = entry[at[t]] /\ ptr[t] # Null
      BY <2>3 DEF IInv, PointerInv, GateInv, Dereferencing, AdmittedPcs
    <3> QED BY <3>1, <2>1 DEF IInv, IdentityInv
  <2> QED BY <2>2, <2>3
<1> QED BY <1>1, Invariance, PTL

\* finish() is alone with its instance: no lease and no other owner overlaps it.
THEOREM MutualExclusion == Spec => []ExclusiveAccess
<1>1. IInv => ExclusiveAccess
  BY DEF IInv, ExclusiveAccess, GateInv, OwnerInv, AdmittedPcs, DrainedPcs,
         OwnerPcs,
         ExclusivePcs
<1> QED BY <1>1, Invariance, PTL

\* A live lease is on the generation asked for, still published in its slot.
THEOREM GenerationSafety == Spec => []LeasePinsGeneration
<1>1. IInv => LeasePinsGeneration
  BY DEF IInv, LeasePinsGeneration, PointerInv
<1> QED BY <1>1, Invariance, PTL

\* No instance is lost by a race between insert and remove.
THEOREM LeakFreedom == Spec => []NoLeak
<1>1. IInv => NoLeak
  BY DEF IInv, IdentityInv
<1> QED BY <1>1, Invariance, PTL

\* A handle of a removed instance is refused for ever.
THEOREM StaleHandleSafety == Spec => []StaleHandlesStayDead
<1>1. IInv => StaleHandlesStayDead
  <2> SUFFICES ASSUME IInv PROVE StaleHandlesStayDead
    OBVIOUS
  <2>1. \A s \in Slots : entry[s] \notin freed
    BY DEF IInv, TypeOK, IdentityInv, Ids, Null
  <2>2. \A t \in Threads : pc[t] = "lease_held" => arg[t] \notin freed
    BY <2>1 DEF IInv, SlotInv, PointerInv
  <2> QED BY <2>1, <2>2 DEF IInv, IdentityInv, StaleHandlesStayDead
<1> QED BY <1>1, Invariance, PTL
=============================================================================
