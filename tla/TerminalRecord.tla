--------------------------- MODULE TerminalRecord ---------------------------
(***************************************************************************)
(* IF1 terminal custody: three processes that may each be killed at any    *)
(* moment agree, through 2048 bytes of shared memory, on the one record of *)
(* why the instance ended.                                                 *)
(*                                                                         *)
(*   1  native worker       terminal.rs: progress, fail_native             *)
(*   2  Windows owner       terminal_status.h: editor_fatal                *)
(*   3  runtime supervisor  session.py: TerminalStatus.root_exit           *)
(*                                                                         *)
(* The native worker publishes its progress in two alternating slots under *)
(* a counter.  A producer copies the latest published context with a       *)
(* bounded seqlock read, writes a complete record into its own slot, and   *)
(* offers the slot with a compare-and-swap of the commit word.             *)
(*                                                                         *)
(* A context is the number of its publication; a row is Width words, moved *)
(* one word at a time, so a torn row has words of different publications.  *)
(* Every access is sequentially consistent in the code.                    *)
(***************************************************************************)
EXTENDS Naturals

CONSTANTS Width,        \* context words in a row (24 in the code, less the stamps)
          MaxProgress,  \* bound: progress publications explored
          Statuses      \* what a failure call may report

ASSUME WidthAssumption == Width \in Nat \ {0}
ASSUME ProgressAssumption == MaxProgress \in Nat \ {0}
ASSUME StatusAssumption == 0 \notin Statuses

VARIABLES counter,   \* word 1024: publications so far
          slot,      \* words 1088 and 1344: the two progress slots
          commit,    \* word 64: 0, or the producer whose record stands
          record,    \* words 128, 384, 640: each producer's record
          pc, at,    \* each producer's place, and the next word it moves
          attempt,   \* seqlock attempts already lost in this call
          seen,      \* counter value the producer's copy belongs to
          row,       \* the producer's private copy
          pending,   \* the failure a producer keeps across calls
          observed,  \* history: the first failure each producer was told of
          reader     \* a native thread in terminal_record: [pc, at, from, row, status]

vars == <<counter, slot, commit, record, pc, at, attempt, seen, row, pending,
          observed, reader>>
local == <<at, attempt, seen, row>>

Native == 1
Windows == 2
Supervisor == 3
Producers == {Native, Windows, Supervisor}
Attempts == 3

WordIds == 1 .. Width
Rows == [WordIds -> 0 .. MaxProgress]
RowOf(n) == [i \in WordIds |-> n]
Records == [row : Rows, status : Statuses \cup {0}]
NoRecord == [row |-> RowOf(0), status |-> 0]

NoRead == [pc |-> "idle", at |-> 1, from |-> 0, row |-> RowOf(0), status |-> 0]

\* Status::create publishes the first context before the file has its path.
Init ==
    /\ counter = 1
    /\ slot = [k \in 0 .. 1 |-> RowOf(k)]
    /\ commit = 0
    /\ record = [p \in Producers |-> NoRecord]
    /\ pc = [p \in Producers |-> "idle"]
    /\ at = [p \in Producers |-> 1]
    /\ attempt = [p \in Producers |-> 0]
    /\ seen = [p \in Producers |-> 0]
    /\ row = [p \in Producers |-> RowOf(0)]
    /\ pending = [p \in Producers |-> 0]
    /\ observed = [p \in Producers |-> 0]
    /\ reader = NoRead

Goto(p, label) == pc' = [pc EXCEPT ![p] = label]

\* A call returns: its private copy is gone.
Return(p, label) ==
    /\ Goto(p, label)
    /\ at' = [at EXCEPT ![p] = 1]
    /\ attempt' = [attempt EXCEPT ![p] = 0]
    /\ seen' = [seen EXCEPT ![p] = 0]
    /\ row' = [row EXCEPT ![p] = RowOf(0)]

-----------------------------------------------------------------------------
(* Status::progress, by the native worker only *)

\* One word of the next context goes to the slot that is not published.
ProgressWord ==
    /\ pc[Native] \in {"idle", "progress"}
    /\ counter < MaxProgress
    /\ slot' = [slot EXCEPT ![(counter + 1) % 2][at[Native]] = counter + 1]
    /\ IF at[Native] = Width
       THEN at' = at /\ Goto(Native, "publish")
       ELSE at' = [at EXCEPT ![Native] = @ + 1] /\ Goto(Native, "progress")
    /\ UNCHANGED <<counter, commit, record, attempt, seen, row, pending, observed, reader>>

ProgressPublish ==
    /\ pc[Native] = "publish"
    /\ counter' = counter + 1
    /\ at' = [at EXCEPT ![Native] = 1]
    /\ Goto(Native, "idle")
    /\ UNCHANGED <<slot, commit, record, attempt, seen, row, pending, observed, reader>>

-----------------------------------------------------------------------------
(* fail_native, editor_fatal and root_exit *)

\* Mutant of FailureCall: a retry reports the newer failure.
FailureCallLatest(p) ==
    /\ pc[p] = "idle"
    /\ \E status \in Statuses :
          /\ pending' = [pending EXCEPT ![p] = status]
          /\ observed' = [observed EXCEPT ![p] = IF @ = 0 THEN status ELSE @]
    /\ Goto(p, "commit")
    /\ UNCHANGED <<counter, slot, commit, record, local, reader>>

\* A producer is told of a failure; what it was told first stays pending.
FailureCall(p) ==
    /\ pc[p] = "idle"
    /\ \E status \in Statuses :
          /\ pending' = [pending EXCEPT ![p] = IF @ = 0 THEN status ELSE @]
          /\ observed' = [observed EXCEPT ![p] = IF @ = 0 THEN status ELSE @]
    /\ Goto(p, "commit")
    /\ UNCHANGED <<counter, slot, commit, record, local, reader>>

\* Another producer's record already stands: custody is over.
CommitSeen(p) ==
    /\ pc[p] = "commit"
    /\ Goto(p, IF commit # 0 THEN "done" ELSE "load")
    /\ UNCHANGED <<counter, slot, commit, record, local, pending, observed, reader>>

ContextLoad(p) ==
    /\ pc[p] = "load"
    /\ seen' = [seen EXCEPT ![p] = counter]
    /\ at' = [at EXCEPT ![p] = 1]
    /\ Goto(p, "copy")
    /\ UNCHANGED <<counter, slot, commit, record, attempt, row, pending, observed, reader>>

ContextCopy(p) ==
    /\ pc[p] = "copy"
    /\ row' = [row EXCEPT ![p][at[p]] = slot[seen[p] % 2][at[p]]]
    /\ IF at[p] = Width
       THEN at' = at /\ Goto(p, "recheck")
       ELSE at' = [at EXCEPT ![p] = @ + 1] /\ pc' = pc
    /\ UNCHANGED <<counter, slot, commit, record, attempt, seen, pending, observed, reader>>

\* Mutant of ContextRecheck: the copy is trusted as it is.
ContextRecheckSkipped(p) ==
    /\ pc[p] = "recheck"
    /\ at' = [at EXCEPT ![p] = 1]
    /\ Goto(p, "write")
    /\ UNCHANGED <<counter, slot, commit, record, attempt, seen, row, pending, observed,
                   reader>>

\* A copy overtaken by a publication is taken again, at most Attempts times; then
\* the call returns and a later one retries (fail_native's one call is spent).
ContextRecheck(p) ==
    /\ pc[p] = "recheck"
    /\ \/ /\ counter = seen[p]
          /\ Goto(p, "write")
          /\ at' = [at EXCEPT ![p] = 1]
          /\ UNCHANGED <<attempt, seen, row>>
       \/ /\ counter # seen[p]
          /\ attempt[p] + 1 < Attempts
          /\ Goto(p, "load")
          /\ attempt' = [attempt EXCEPT ![p] = @ + 1]
          /\ UNCHANGED <<at, seen, row>>
       \/ /\ counter # seen[p]
          /\ attempt[p] + 1 = Attempts
          /\ Return(p, IF p = Native THEN "done" ELSE "idle")
    /\ UNCHANGED <<counter, slot, commit, record, pending, observed, reader>>

\* The record goes word by word into the producer's own slot, its status last.
RecordWord(p) ==
    /\ pc[p] = "write"
    /\ record' = [record EXCEPT ![p].row[at[p]] = row[p][at[p]]]
    /\ IF at[p] = Width
       THEN at' = at /\ Goto(p, "status")
       ELSE at' = [at EXCEPT ![p] = @ + 1] /\ pc' = pc
    /\ UNCHANGED <<counter, slot, commit, attempt, seen, row, pending, observed, reader>>

RecordStatus(p) ==
    /\ pc[p] = "status"
    /\ record' = [record EXCEPT ![p].status = pending[p]]
    /\ Goto(p, "cas")
    /\ UNCHANGED <<counter, slot, commit, local, pending, observed, reader>>

\* Mutant of RecordCommit: the commit word is stored, not exchanged.
RecordCommitStored(p) ==
    /\ pc[p] = "cas"
    /\ commit' = p
    /\ Return(p, "done")
    /\ UNCHANGED <<counter, slot, record, pending, observed, reader>>

RecordCommit(p) ==
    /\ pc[p] = "cas"
    /\ commit' = IF commit = 0 THEN p ELSE commit
    /\ Return(p, "done")
    /\ UNCHANGED <<counter, slot, record, pending, observed, reader>>

\* The producer's process is killed between any two of its steps: its own memory is
\* gone, what it wrote to the shared words stays.
Killed(p) ==
    /\ pc[p] # "dead"
    /\ Return(p, "dead")
    /\ pending' = [pending EXCEPT ![p] = 0]
    /\ UNCHANGED <<counter, slot, commit, record, observed, reader>>

-----------------------------------------------------------------------------
(* Status::read, by any native thread, while producers go on *)

\* Mutant of ReadBegin: the first complete-looking slot is read, committed or not.
ReadBeginUncommitted ==
    /\ reader.pc = "idle"
    /\ \E p \in Producers :
          /\ record[p] # NoRecord
          /\ reader' = [reader EXCEPT !.pc = "copy", !.at = 1, !.from = p]
    /\ UNCHANGED <<counter, slot, commit, record, pc, local, pending, observed>>

ReadBegin ==
    /\ reader.pc = "idle"
    /\ commit # 0
    /\ reader' = [reader EXCEPT !.pc = "copy", !.at = 1, !.from = commit]
    /\ UNCHANGED <<counter, slot, commit, record, pc, local, pending, observed>>

ReadWord ==
    /\ reader.pc = "copy"
    /\ reader' = [reader EXCEPT !.row[reader.at] = record[reader.from].row[reader.at],
                                !.at = IF @ = Width THEN @ ELSE @ + 1,
                                !.pc = IF reader.at = Width THEN "status" ELSE "copy"]
    /\ UNCHANGED <<counter, slot, commit, record, pc, local, pending, observed>>

ReadStatus ==
    /\ reader.pc = "status"
    /\ reader' = [reader EXCEPT !.status = record[reader.from].status, !.pc = "done"]
    /\ UNCHANGED <<counter, slot, commit, record, pc, local, pending, observed>>

\* Every later call reads it again.
ReadAgain ==
    /\ reader.pc = "done"
    /\ reader' = NoRead
    /\ UNCHANGED <<counter, slot, commit, record, pc, local, pending, observed>>

-----------------------------------------------------------------------------
Produce(p) ==
    \/ FailureCall(p) \/ CommitSeen(p) \/ ContextLoad(p) \/ ContextCopy(p)
    \/ ContextRecheck(p) \/ RecordWord(p) \/ RecordStatus(p) \/ RecordCommit(p)
    \/ Killed(p)

Next ==
    \/ ProgressWord \/ ProgressPublish
    \/ \E p \in Producers : Produce(p)
    \/ ReadBegin \/ ReadWord \/ ReadStatus \/ ReadAgain

Spec == Init /\ [][Next]_vars

-----------------------------------------------------------------------------
Labels == {"idle", "progress", "publish", "commit", "load", "copy", "recheck",
           "write", "status", "cas", "done", "dead"}

\* Type invariant: counters, rows and places have their shapes, and a call is never
\* in more than its bounded number of attempts.
TypeOK ==
    /\ counter \in 1 .. MaxProgress
    /\ slot \in [0 .. 1 -> Rows]
    /\ commit \in Producers \cup {0}
    /\ record \in [Producers -> Records]
    /\ pc \in [Producers -> Labels]
    /\ at \in [Producers -> WordIds]
    /\ attempt \in [Producers -> 0 .. Attempts - 1]
    /\ seen \in [Producers -> 0 .. MaxProgress]
    /\ row \in [Producers -> Rows]
    /\ pending \in [Producers -> Statuses \cup {0}]
    /\ observed \in [Producers -> Statuses \cup {0}]
    /\ reader \in [pc : {"idle", "copy", "status", "done"}, at : WordIds,
                   from : Producers \cup {0}, row : Rows, status : Statuses \cup {0}]

\* The record that stands is complete: all of its words come from one published
\* context, whoever was killed or overtaken on the way.
CommittedIsWhole ==
    commit # 0 => \E n \in 1 .. counter : record[commit].row = RowOf(n)

\* It names the first failure its producer was told of, however many calls the
\* unstable reads took.
CommittedIsFirstFailure ==
    commit # 0 => record[commit].status = observed[commit] /\ observed[commit] # 0

\* The first record to be committed is never replaced or written over.
CommittedKept ==
    [][commit # 0 => commit' = commit /\ record'[commit] = record[commit]]_vars

\* A read that reports a terminal record reports that one, whole, although it takes
\* no lock and producers keep writing around it.
ReadIsCommitted ==
    reader.pc = "done" =>
        /\ commit = reader.from
        /\ reader.row = record[commit].row
        /\ reader.status = record[commit].status
=============================================================================
