----------------------- MODULE TerminalRecordProofs -----------------------
(***************************************************************************)
(* Proofs that terminal custody is safe for every row width, every number  *)
(* of progress publications and every set of failure statuses.             *)
(***************************************************************************)
EXTENDS TerminalRecord, TLAPS

\* The published slot is whole; the other one holds what the writer has moved so far.
ProgressInv ==
    /\ slot[counter % 2] = RowOf(counter)
    /\ pc[Native] = "idle" => at[Native] = 1
    /\ pc[Native] \in {"progress", "publish"} => counter < MaxProgress
    /\ pc[Native] = "progress" =>
          \A i \in WordIds : i < at[Native] => slot[(counter + 1) % 2][i] = counter + 1
    /\ pc[Native] = "publish" => slot[(counter + 1) % 2] = RowOf(counter + 1)

\* A copy is good as far as it got, unless a publication has overtaken it; a copy
\* that passed its recheck is whole, and so is the record made from it.
CopyOf(p) ==
    /\ pc[p] \in {"copy", "recheck", "write", "status", "cas"} => seen[p] \in 1 .. counter
    /\ pc[p] = "copy" /\ counter = seen[p] =>
          \A i \in WordIds : i < at[p] => row[p][i] = seen[p]
    /\ pc[p] = "recheck" /\ counter = seen[p] => row[p] = RowOf(seen[p])
    /\ pc[p] \in {"write", "status", "cas"} => row[p] = RowOf(seen[p])
    /\ pc[p] = "write" => \A i \in WordIds : i < at[p] => record[p].row[i] = seen[p]
    /\ pc[p] \in {"status", "cas"} => record[p].row = RowOf(seen[p])
    /\ pc[p] = "cas" => record[p].status = pending[p]

CopyInv == \A p \in Producers : CopyOf(p)

\* What a live producer keeps pending is what it was told first.
PendingInv ==
    \A p \in Producers :
        /\ pc[p] # "dead" => pending[p] = observed[p]
        /\ pc[p] \in {"commit", "load", "copy", "recheck", "write", "status", "cas"} =>
              pending[p] # 0

\* The winner has retired, and left a whole record of its first failure.
CommitInv ==
    commit # 0 =>
        /\ pc[commit] \in {"done", "dead"}
        /\ \E n \in 1 .. counter : record[commit].row = RowOf(n)
        /\ record[commit].status = observed[commit]
        /\ observed[commit] # 0

\* A read copies the record that stands, as far as it got.
ReaderInv ==
    reader.pc # "idle" =>
        /\ commit # 0 /\ reader.from = commit
        /\ reader.pc = "copy" =>
              \A i \in WordIds : i < reader.at => reader.row[i] = record[commit].row[i]
        /\ reader.pc \in {"status", "done"} => reader.row = record[commit].row
        /\ reader.pc = "done" => reader.status = record[commit].status

IInv == TypeOK /\ ProgressInv /\ CopyInv /\ PendingInv /\ CommitInv /\ ReaderInv

-----------------------------------------------------------------------------
\* Consecutive publications use different slots, and there are two of them.
LEMMA Parity ==
    ASSUME NEW n \in Nat
    PROVE  /\ n % 2 \in 0 .. 1
           /\ (n + 1) % 2 \in 0 .. 1
           /\ (n + 1) % 2 # n % 2
OBVIOUS

\* A row that has the same value in every word is that value's row.
LEMMA WholeRow ==
    ASSUME NEW r \in Rows, NEW n, \A i \in WordIds : r[i] = n
    PROVE  r = RowOf(n)
BY DEF Rows, RowOf

LEMMA RowOfType == \A n \in 0 .. MaxProgress : RowOf(n) \in Rows
BY DEF Rows, RowOf

\* Changing one word of a row gives a row.
LEMMA RowWord ==
    ASSUME NEW r \in Rows, NEW i \in WordIds, NEW n \in 0 .. MaxProgress
    PROVE  /\ [r EXCEPT ![i] = n] \in Rows
           /\ \A j \in WordIds : [r EXCEPT ![i] = n][j] = IF j = i THEN n ELSE r[j]
BY DEF Rows

\* A producer's copy reads a word of one of the two progress slots.
LEMMA SlotWord ==
    ASSUME TypeOK, NEW p \in Producers
    PROVE  /\ seen[p] % 2 \in 0 .. 1
           /\ at[p] \in WordIds /\ row[p] \in Rows
           /\ slot[seen[p] % 2][at[p]] \in 0 .. MaxProgress
<1>1. seen[p] \in Nat /\ at[p] \in WordIds /\ row[p] \in Rows
  BY DEF TypeOK
<1>2. seen[p] % 2 \in 0 .. 1
  BY <1>1, Parity
<1>3. slot[seen[p] % 2] \in Rows
  BY <1>2 DEF TypeOK
<1> QED BY <1>1, <1>2, <1>3 DEF Rows

(* The inductive step, one lemma per action *)

\* One more word of the next context is written.
LEMMA ProgressWordStep ==
    ASSUME IInv, ProgressWord
    PROVE  IInv'
<1>1. TypeOK'
  <2>1. /\ (counter + 1) % 2 \in 0 .. 1
        /\ counter + 1 \in 0 .. MaxProgress
        /\ at[Native] \in WordIds
        /\ slot[(counter + 1) % 2] \in Rows
    BY Parity, ProgressAssumption DEF IInv, TypeOK, ProgressWord, Producers
  <2>2. slot' \in [0 .. 1 -> Rows]
    BY <2>1, RowWord DEF IInv, TypeOK, ProgressWord
  <2>3. at' \in [Producers -> WordIds]
    BY <2>1, WidthAssumption DEF IInv, TypeOK, ProgressWord, Goto, WordIds
  <2> QED BY <2>2, <2>3 DEF IInv, TypeOK, ProgressWord, Goto, Labels, Producers
<1>2. ProgressInv'
  <2>1. /\ (counter + 1) % 2 \in 0 .. 1 /\ counter % 2 \in 0 .. 1
        /\ (counter + 1) % 2 # counter % 2
        /\ counter + 1 \in 0 .. MaxProgress
        /\ at[Native] \in WordIds
        /\ slot[(counter + 1) % 2] \in Rows
    BY Parity, ProgressAssumption DEF IInv, TypeOK, ProgressWord, Producers
  <2>2. slot'[counter % 2] = RowOf(counter)
    BY <2>1 DEF IInv, TypeOK, ProgressInv, ProgressWord
  <2>3. /\ slot'[(counter + 1) % 2] \in Rows
        /\ \A i \in WordIds : i <= at[Native] => slot'[(counter + 1) % 2][i] = counter + 1
    <3>1. slot'[(counter + 1) % 2] =
            [slot[(counter + 1) % 2] EXCEPT ![at[Native]] = counter + 1]
      BY <2>1 DEF IInv, TypeOK, ProgressWord
    <3>2. \A i \in WordIds : i < at[Native] => slot[(counter + 1) % 2][i] = counter + 1
      BY DEF IInv, ProgressInv, ProgressWord, WordIds
    <3> QED BY <2>1, <3>1, <3>2, RowWord DEF WordIds
  <2>4. CASE at[Native] = Width
    <3>1. slot'[(counter + 1) % 2] = RowOf(counter + 1)
      BY <2>3, <2>4, WholeRow, WidthAssumption DEF WordIds
    <3>2. pc'[Native] = "publish"
      BY <2>4 DEF IInv, TypeOK, ProgressWord, Goto, Producers
    <3> QED BY <2>2, <3>1, <3>2 DEF ProgressInv, ProgressWord, RowOf
  <2>5. CASE at[Native] # Width
    <3>1. pc'[Native] = "progress" /\ at'[Native] = at[Native] + 1
      BY <2>5 DEF IInv, TypeOK, ProgressWord, Goto, Producers
    <3>2. \A i \in WordIds : i < at'[Native] => slot'[(counter + 1) % 2][i] = counter + 1
      BY <2>1, <2>3, <3>1 DEF WordIds
    <3> QED BY <2>2, <3>1, <3>2 DEF ProgressInv, ProgressWord, RowOf
  <2> QED BY <2>4, <2>5
<1>3. CopyInv'
  <2> SUFFICES ASSUME NEW q \in Producers PROVE CopyOf(q)'
    BY DEF CopyInv
  <2>1. CASE q = Native
    BY <2>1 DEF IInv, TypeOK, ProgressWord, Goto, CopyOf, Producers
  <2>2. CASE q # Native
    BY <2>2 DEF IInv, TypeOK, CopyInv, CopyOf, ProgressWord, Goto, RowOf, Producers
  <2> QED BY <2>1, <2>2
<1>4. PendingInv'
  BY DEF IInv, TypeOK, PendingInv, ProgressWord, Goto, Return, local, Producers, Native,
         Windows, Supervisor
<1>5. CommitInv'
  BY DEF IInv, TypeOK, CommitInv, ProgressWord, Goto, Return, local, Producers, Native,
         Windows, Supervisor, RowOf
<1>6. ReaderInv'
  BY DEF IInv, TypeOK, CommitInv, ReaderInv, ProgressWord, Goto, Return, local
<1> QED BY <1>1, <1>2, <1>3, <1>4, <1>5, <1>6 DEF IInv

\* The written context is published.
LEMMA ProgressPublishStep ==
    ASSUME IInv, ProgressPublish
    PROVE  IInv'
<1>1. TypeOK'
  BY ProgressAssumption, WidthAssumption
     DEF IInv, TypeOK, ProgressInv, ProgressPublish, Goto, Labels, WordIds, Producers,
         Native, Windows, Supervisor
<1>2. ProgressInv'
  BY Parity, ProgressAssumption
     DEF IInv, TypeOK, ProgressInv, ProgressPublish, Goto, RowOf, Producers, Native,
         Windows, Supervisor
<1>3. CopyInv'
  <2> SUFFICES ASSUME NEW q \in Producers PROVE CopyOf(q)'
    BY DEF CopyInv
  <2>1. CASE q = Native
    BY <2>1 DEF IInv, TypeOK, ProgressPublish, Goto, CopyOf, Producers
  <2>2. CASE q # Native
    <3>1. pc'[q] = pc[q] /\ at'[q] = at[q] /\ counter' = counter + 1 /\ counter \in Nat
      BY <2>2 DEF IInv, TypeOK, ProgressPublish, Goto, Producers
    <3>2. CopyOf(q)
      BY DEF IInv, CopyInv
    <3>3. seen[q] \in 0 .. MaxProgress
      BY DEF IInv, TypeOK
    <3> QED BY <3>1, <3>2, <3>3, ProgressAssumption DEF CopyOf, ProgressPublish, RowOf
  <2> QED BY <2>1, <2>2
<1>4. PendingInv'
  BY DEF IInv, TypeOK, PendingInv, ProgressPublish, Goto, Return, local, Producers,
         Native, Windows, Supervisor
<1>5. CommitInv'
  <2> SUFFICES ASSUME commit # 0 PROVE CommitInv'
    BY DEF CommitInv, ProgressPublish
  <2>1. PICK n \in 1 .. counter : record[commit].row = RowOf(n)
    BY DEF IInv, CommitInv
  <2>2. n \in 1 .. counter'
    BY DEF IInv, TypeOK, ProgressPublish
  <2>3. \E m \in 1 .. counter' : (record[commit].row)' = RowOf(m)'
    BY <2>1, <2>2 DEF ProgressPublish, RowOf
  <2>4. pc'[commit'] \in {"done", "dead"}
    BY DEF IInv, TypeOK, CommitInv, ProgressPublish, Goto, Producers
  <2> QED BY <2>3, <2>4 DEF IInv, CommitInv, ProgressPublish
<1>6. ReaderInv'
  BY DEF IInv, TypeOK, CommitInv, ReaderInv, ProgressPublish, Goto, Return, local
<1> QED BY <1>1, <1>2, <1>3, <1>4, <1>5, <1>6 DEF IInv

\* A failure call begins.
LEMMA FailureCallStep ==
    ASSUME IInv, NEW p \in Producers, FailureCall(p)
    PROVE  IInv'
<1>1. TypeOK'
  BY DEF IInv, TypeOK, FailureCall, Goto, Return, local, Labels
<1>2. ProgressInv'
  BY Parity
     DEF IInv, TypeOK, ProgressInv, FailureCall, Goto, Return, local, RowOf, Producers,
         Native, Windows, Supervisor
<1>3. CopyInv'
  <2> SUFFICES ASSUME NEW q \in Producers PROVE CopyOf(q)'
    BY DEF CopyInv
  <2>1. CopyOf(q)
    BY DEF IInv, CopyInv
  <2>2. CASE q = p
    BY <2>2 DEF IInv, TypeOK, CopyOf, FailureCall, Goto
  <2>3. CASE q # p
    BY <2>1, <2>3 DEF IInv, TypeOK, CopyOf, RowOf, FailureCall, Goto, Return, local
  <2> QED BY <2>2, <2>3
<1>4. PendingInv'
  <2>1. PICK status \in Statuses :
           /\ pending' = [pending EXCEPT ![p] = IF @ = 0 THEN status ELSE @]
           /\ observed' = [observed EXCEPT ![p] = IF @ = 0 THEN status ELSE @]
    BY DEF FailureCall
  <2>2. /\ pending'[p] = observed'[p] /\ pending'[p] # 0 /\ pc'[p] = "commit"
    BY <2>1, StatusAssumption DEF IInv, TypeOK, PendingInv, FailureCall, Goto
  <2>3. \A q \in Producers \ {p} :
           pending'[q] = pending[q] /\ observed'[q] = observed[q] /\ pc'[q] = pc[q]
    BY <2>1 DEF IInv, TypeOK, FailureCall, Goto
  <2> QED BY <2>2, <2>3 DEF IInv, PendingInv
<1>5. CommitInv'
  BY DEF IInv, TypeOK, CommitInv, FailureCall, Goto, Return, local, RowOf, Producers,
         Native, Windows, Supervisor
<1>6. ReaderInv'
  BY DEF IInv, TypeOK, CommitInv, ReaderInv, FailureCall, Goto, Return, local
<1> QED BY <1>1, <1>2, <1>3, <1>4, <1>5, <1>6 DEF IInv

\* The producer looks at the commit word.
LEMMA CommitSeenStep ==
    ASSUME IInv, NEW p \in Producers, CommitSeen(p)
    PROVE  IInv'
<1>1. TypeOK'
  BY DEF IInv, TypeOK, CommitSeen, Goto, Return, local, Labels
<1>2. ProgressInv'
  BY Parity
     DEF IInv, TypeOK, ProgressInv, CommitSeen, Goto, Return, local, RowOf, Producers,
         Native, Windows, Supervisor
<1>3. CopyInv'
  <2> SUFFICES ASSUME NEW q \in Producers PROVE CopyOf(q)'
    BY DEF CopyInv
  <2>1. CopyOf(q)
    BY DEF IInv, CopyInv
  <2>2. CASE q = p
    BY <2>2 DEF IInv, TypeOK, CopyOf, CommitSeen, Goto
  <2>3. CASE q # p
    BY <2>1, <2>3 DEF IInv, TypeOK, CopyOf, RowOf, CommitSeen, Goto, Return, local
  <2> QED BY <2>2, <2>3
<1>4. PendingInv'
  BY DEF IInv, TypeOK, PendingInv, CommitSeen, Goto, Return, local, Producers, Native,
         Windows, Supervisor
<1>5. CommitInv'
  BY DEF IInv, TypeOK, CommitInv, CommitSeen, Goto, Return, local, RowOf, Producers,
         Native, Windows, Supervisor
<1>6. ReaderInv'
  BY DEF IInv, TypeOK, CommitInv, ReaderInv, CommitSeen, Goto, Return, local
<1> QED BY <1>1, <1>2, <1>3, <1>4, <1>5, <1>6 DEF IInv

\* The producer takes the counter.
LEMMA ContextLoadStep ==
    ASSUME IInv, NEW p \in Producers, ContextLoad(p)
    PROVE  IInv'
<1>1. TypeOK'
  BY WidthAssumption, ProgressAssumption
     DEF IInv, TypeOK, ContextLoad, Goto, Return, local, Labels, WordIds
<1>2. ProgressInv'
  BY Parity
     DEF IInv, TypeOK, ProgressInv, ContextLoad, Goto, Return, local, RowOf, Producers,
         Native, Windows, Supervisor
<1>3. CopyInv'
  <2> SUFFICES ASSUME NEW q \in Producers PROVE CopyOf(q)'
    BY DEF CopyInv
  <2>1. CopyOf(q)
    BY DEF IInv, CopyInv
  <2>2. CASE q = p
    BY <2>2, ProgressAssumption DEF IInv, TypeOK, CopyOf, ContextLoad, Goto, WordIds
  <2>3. CASE q # p
    BY <2>1, <2>3 DEF IInv, TypeOK, CopyOf, RowOf, ContextLoad, Goto, Return, local
  <2> QED BY <2>2, <2>3
<1>4. PendingInv'
  BY DEF IInv, TypeOK, PendingInv, ContextLoad, Goto, Return, local, Producers, Native,
         Windows, Supervisor
<1>5. CommitInv'
  BY DEF IInv, TypeOK, CommitInv, ContextLoad, Goto, Return, local, RowOf, Producers,
         Native, Windows, Supervisor
<1>6. ReaderInv'
  BY DEF IInv, TypeOK, CommitInv, ReaderInv, ContextLoad, Goto, Return, local
<1> QED BY <1>1, <1>2, <1>3, <1>4, <1>5, <1>6 DEF IInv

\* The producer copies one word.
LEMMA ContextCopyStep ==
    ASSUME IInv, NEW p \in Producers, ContextCopy(p)
    PROVE  IInv'
<1>1. TypeOK'
  <2>1. /\ seen[p] % 2 \in 0 .. 1
        /\ at[p] \in WordIds /\ row[p] \in Rows
        /\ slot[seen[p] % 2][at[p]] \in 0 .. MaxProgress
    BY SlotWord DEF IInv
  <2>2. [row[p] EXCEPT ![at[p]] = slot[seen[p] % 2][at[p]]] \in Rows
    BY <2>1, RowWord
  <2>3. row' \in [Producers -> Rows]
    BY <2>2 DEF IInv, TypeOK, ContextCopy
  <2>4. at' \in [Producers -> WordIds]
    BY <2>1, WidthAssumption DEF IInv, TypeOK, ContextCopy, WordIds
  <2> QED BY <2>3, <2>4 DEF IInv, TypeOK, ContextCopy, Goto, Labels
<1>2. ProgressInv'
  BY Parity
     DEF IInv, TypeOK, ProgressInv, ContextCopy, Goto, Return, local, RowOf, Producers,
         Native, Windows, Supervisor
<1>3. CopyInv'
  <2> SUFFICES ASSUME NEW q \in Producers PROVE CopyOf(q)'
    BY DEF CopyInv
  <2>1. CopyOf(q)
    BY DEF IInv, CopyInv
  <2>2. CASE q = p
    <3>1. /\ seen[p] % 2 \in 0 .. 1
          /\ at[p] \in WordIds /\ row[p] \in Rows
          /\ slot[seen[p] % 2][at[p]] \in 0 .. MaxProgress
      BY SlotWord DEF IInv
    <3>2. row'[p] = [row[p] EXCEPT ![at[p]] = slot[seen[p] % 2][at[p]]]
      BY DEF IInv, TypeOK, ContextCopy
    <3>3. row'[p] \in Rows
      BY <3>1, <3>2, RowWord
    <3>4. seen[p] \in 1 .. counter
      BY <2>1, <2>2 DEF CopyOf, ContextCopy
    <3>5. counter = seen[p] => \A i \in WordIds : i <= at[p] => row'[p][i] = seen[p]
      <4>1. counter = seen[p] => slot[seen[p] % 2][at[p]] = seen[p]
        BY <3>1 DEF IInv, ProgressInv, RowOf
      <4>2. counter = seen[p] => \A i \in WordIds : i < at[p] => row[p][i] = seen[p]
        BY <2>1, <2>2 DEF CopyOf, ContextCopy
      <4> QED BY <3>1, <3>2, <4>1, <4>2, RowWord DEF WordIds
    <3>6. CASE at[p] = Width
      <4>1. pc'[p] = "recheck"
        BY <3>6 DEF IInv, TypeOK, ContextCopy, Goto
      <4>2. counter = seen[p] => row'[p] = RowOf(seen[p])
        BY <3>3, <3>5, <3>6, WholeRow, WidthAssumption DEF WordIds
      <4> QED BY <2>2, <3>4, <4>1, <4>2 DEF CopyOf, ContextCopy, RowOf
    <3>7. CASE at[p] # Width
      <4>1. pc'[p] = "copy" /\ at'[p] = at[p] + 1
        BY <3>7 DEF IInv, TypeOK, ContextCopy
      <4>2. counter = seen[p] => \A i \in WordIds : i < at'[p] => row'[p][i] = seen[p]
        BY <3>1, <3>5, <4>1 DEF WordIds
      <4> QED BY <2>2, <3>4, <4>1, <4>2 DEF CopyOf, ContextCopy
    <3> QED BY <3>6, <3>7
  <2>3. CASE q # p
    BY <2>1, <2>3 DEF IInv, TypeOK, CopyOf, RowOf, ContextCopy, Goto, Return, local
  <2> QED BY <2>2, <2>3
<1>4. PendingInv'
  BY DEF IInv, TypeOK, PendingInv, ContextCopy, Goto, Return, local, Producers, Native,
         Windows, Supervisor
<1>5. CommitInv'
  BY DEF IInv, TypeOK, CommitInv, ContextCopy, Goto, Return, local, RowOf, Producers,
         Native, Windows, Supervisor
<1>6. ReaderInv'
  BY DEF IInv, TypeOK, CommitInv, ReaderInv, ContextCopy, Goto, Return, local
<1> QED BY <1>1, <1>2, <1>3, <1>4, <1>5, <1>6 DEF IInv

\* The producer rechecks the counter.
LEMMA ContextRecheckStep ==
    ASSUME IInv, NEW p \in Producers, ContextRecheck(p)
    PROVE  IInv'
<1>1. TypeOK'
  <2>1. 1 \in WordIds /\ RowOf(0) \in Rows
    BY WidthAssumption, ProgressAssumption, RowOfType DEF WordIds
  <2> QED BY <2>1, ProgressAssumption
    DEF IInv, TypeOK, ContextRecheck, Goto, Return, local, Labels, Attempts
<1>2. ProgressInv'
  BY Parity
     DEF IInv, TypeOK, ProgressInv, ContextRecheck, Goto, Return, local, RowOf, Producers,
         Native, Windows, Supervisor
<1>3. CopyInv'
  <2> SUFFICES ASSUME NEW q \in Producers PROVE CopyOf(q)'
    BY DEF CopyInv
  <2>1. CopyOf(q)
    BY DEF IInv, CopyInv
  <2>2. CASE q = p
    <3>1. CASE counter = seen[p]
      BY <2>1, <2>2, <3>1 DEF IInv, TypeOK, CopyOf, ContextRecheck, Goto, RowOf, WordIds
    <3>2. CASE counter # seen[p]
      <4>1. pc'[p] \in {"load", "done", "idle"}
        BY <3>2 DEF IInv, TypeOK, ContextRecheck, Goto, Return
      <4> QED BY <2>2, <4>1 DEF CopyOf
    <3> QED BY <3>1, <3>2
  <2>3. CASE q # p
    BY <2>1, <2>3 DEF IInv, TypeOK, CopyOf, RowOf, ContextRecheck, Goto, Return, local
  <2> QED BY <2>2, <2>3
<1>4. PendingInv'
  <2>1. pc'[p] \in {"write", "load", "done", "idle"}
    BY DEF IInv, TypeOK, ContextRecheck, Goto, Return
  <2>2. \A q \in Producers \ {p} : pc'[q] = pc[q]
    BY DEF IInv, TypeOK, ContextRecheck, Goto, Return
  <2> QED BY <2>1, <2>2 DEF IInv, PendingInv, ContextRecheck
<1>5. CommitInv'
  BY DEF IInv, TypeOK, CommitInv, ContextRecheck, Goto, Return, local, RowOf, Producers,
         Native, Windows, Supervisor
<1>6. ReaderInv'
  BY DEF IInv, TypeOK, CommitInv, ReaderInv, ContextRecheck, Goto, Return, local
<1> QED BY <1>1, <1>2, <1>3, <1>4, <1>5, <1>6 DEF IInv

\* The producer writes one word of its record.
LEMMA RecordWordStep ==
    ASSUME IInv, NEW p \in Producers, RecordWord(p)
    PROVE  IInv'
<1>1. TypeOK'
  <2>1. /\ at[p] \in WordIds /\ record[p].row \in Rows
        /\ row[p][at[p]] \in 0 .. MaxProgress
    BY DEF IInv, TypeOK, Rows, Records
  <2>2. [record[p].row EXCEPT ![at[p]] = row[p][at[p]]] \in Rows
    BY <2>1, RowWord
  <2>3. record' \in [Producers -> Records]
    BY <2>2 DEF IInv, TypeOK, RecordWord, Records
  <2>4. at' \in [Producers -> WordIds]
    BY <2>1, WidthAssumption DEF IInv, TypeOK, RecordWord, WordIds
  <2> QED BY <2>3, <2>4 DEF IInv, TypeOK, RecordWord, Goto, Labels
<1>2. ProgressInv'
  BY Parity
     DEF IInv, TypeOK, ProgressInv, RecordWord, Goto, Return, local, RowOf, Producers,
         Native, Windows, Supervisor
<1>3. CopyInv'
  <2> SUFFICES ASSUME NEW q \in Producers PROVE CopyOf(q)'
    BY DEF CopyInv
  <2>1. CopyOf(q)
    BY DEF IInv, CopyInv
  <2>2. CASE q = p
    <3>1. /\ at[p] \in WordIds /\ record[p].row \in Rows
          /\ row[p][at[p]] \in 0 .. MaxProgress /\ row[p][at[p]] = seen[p]
      BY <2>1, <2>2 DEF IInv, TypeOK, CopyOf, RecordWord, RowOf, Rows, Records
    <3>2. record'[p].row = [record[p].row EXCEPT ![at[p]] = row[p][at[p]]]
      BY DEF IInv, TypeOK, RecordWord, Records
    <3>3. record'[p].row \in Rows
      BY <3>1, <3>2, RowWord
    <3>4. \A i \in WordIds : i <= at[p] => record'[p].row[i] = seen[p]
      <4>1. \A i \in WordIds : i < at[p] => record[p].row[i] = seen[p]
        BY <2>1, <2>2 DEF CopyOf, RecordWord
      <4> QED BY <3>1, <3>2, <4>1, RowWord DEF WordIds
    <3>5. seen[p] \in 1 .. counter /\ row[p] = RowOf(seen[p])
      BY <2>1, <2>2 DEF CopyOf, RecordWord
    <3>6. CASE at[p] = Width
      <4>1. pc'[p] = "status"
        BY <3>6 DEF IInv, TypeOK, RecordWord, Goto
      <4>2. record'[p].row = RowOf(seen[p])
        BY <3>3, <3>4, <3>6, WholeRow, WidthAssumption DEF WordIds
      <4> QED BY <2>2, <3>5, <4>1, <4>2 DEF CopyOf, RecordWord, RowOf
    <3>7. CASE at[p] # Width
      <4>1. pc'[p] = "write" /\ at'[p] = at[p] + 1
        BY <3>7 DEF IInv, TypeOK, RecordWord
      <4>2. \A i \in WordIds : i < at'[p] => record'[p].row[i] = seen[p]
        BY <3>1, <3>4, <4>1 DEF WordIds
      <4> QED BY <2>2, <3>5, <4>1, <4>2 DEF CopyOf, RecordWord, RowOf
    <3> QED BY <3>6, <3>7
  <2>3. CASE q # p
    BY <2>1, <2>3 DEF IInv, TypeOK, CopyOf, RowOf, RecordWord, Goto, Return, local
  <2> QED BY <2>2, <2>3
<1>4. PendingInv'
  BY DEF IInv, TypeOK, PendingInv, RecordWord, Goto, Return, local, Producers, Native,
         Windows, Supervisor
<1>5. CommitInv'
  BY DEF IInv, TypeOK, CommitInv, RecordWord, Goto, Return, local, RowOf, Producers,
         Native, Windows, Supervisor
<1>6. ReaderInv'
  BY DEF IInv, TypeOK, CommitInv, ReaderInv, RecordWord, Goto, Return, local
<1> QED BY <1>1, <1>2, <1>3, <1>4, <1>5, <1>6 DEF IInv

\* The producer completes its record.
LEMMA RecordStatusStep ==
    ASSUME IInv, NEW p \in Producers, RecordStatus(p)
    PROVE  IInv'
<1>1. TypeOK'
  <2>1. record' \in [Producers -> Records]
    BY DEF IInv, TypeOK, RecordStatus, Records
  <2> QED BY <2>1 DEF IInv, TypeOK, RecordStatus, Goto, local, Labels
<1>2. ProgressInv'
  BY Parity
     DEF IInv, TypeOK, ProgressInv, RecordStatus, Goto, Return, local, RowOf, Producers,
         Native, Windows, Supervisor
<1>3. CopyInv'
  <2> SUFFICES ASSUME NEW q \in Producers PROVE CopyOf(q)'
    BY DEF CopyInv
  <2>1. CopyOf(q)
    BY DEF IInv, CopyInv
  <2>2. CASE q = p
    BY <2>1, <2>2 DEF IInv, TypeOK, CopyOf, RecordStatus, Goto, local, RowOf, Records
  <2>3. CASE q # p
    BY <2>1, <2>3 DEF IInv, TypeOK, CopyOf, RowOf, RecordStatus, Goto, Return, local
  <2> QED BY <2>2, <2>3
<1>4. PendingInv'
  BY DEF IInv, TypeOK, PendingInv, RecordStatus, Goto, Return, local, Producers, Native,
         Windows, Supervisor
<1>5. CommitInv'
  BY DEF IInv, TypeOK, CommitInv, RecordStatus, Goto, Return, local, RowOf, Producers,
         Native, Windows, Supervisor
<1>6. ReaderInv'
  BY DEF IInv, TypeOK, CommitInv, ReaderInv, RecordStatus, Goto, Return, local
<1> QED BY <1>1, <1>2, <1>3, <1>4, <1>5, <1>6 DEF IInv

\* The producer offers its record.
LEMMA RecordCommitStep ==
    ASSUME IInv, NEW p \in Producers, RecordCommit(p)
    PROVE  IInv'
<1>1. TypeOK'
  <2>1. 1 \in WordIds /\ RowOf(0) \in Rows
    BY WidthAssumption, ProgressAssumption, RowOfType DEF WordIds
  <2> QED BY <2>1, ProgressAssumption
    DEF IInv, TypeOK, RecordCommit, Goto, Return, local, Labels, Attempts
<1>2. ProgressInv'
  BY Parity
     DEF IInv, TypeOK, ProgressInv, RecordCommit, Goto, Return, local, RowOf, Producers,
         Native, Windows, Supervisor
<1>3. CopyInv'
  <2> SUFFICES ASSUME NEW q \in Producers PROVE CopyOf(q)'
    BY DEF CopyInv
  <2>1. CopyOf(q)
    BY DEF IInv, CopyInv
  <2>2. CASE q = p
    BY <2>2 DEF IInv, TypeOK, CopyOf, RecordCommit, Goto, Return
  <2>3. CASE q # p
    BY <2>1, <2>3 DEF IInv, TypeOK, CopyOf, RowOf, RecordCommit, Goto, Return, local
  <2> QED BY <2>2, <2>3
<1>4. PendingInv'
  BY DEF IInv, TypeOK, PendingInv, RecordCommit, Goto, Return, local, Producers, Native,
         Windows, Supervisor
<1>5. CommitInv'
  <2>1. CopyOf(p) /\ pending[p] = observed[p] /\ pending[p] # 0
    BY DEF IInv, CopyInv, PendingInv, RecordCommit
  <2>2. CASE commit = 0
    BY <2>1, <2>2 DEF IInv, TypeOK, CommitInv, CopyOf, RecordCommit, Goto, Return, RowOf
  <2>3. CASE commit # 0
    BY <2>3 DEF IInv, TypeOK, CommitInv, RecordCommit, Goto, Return, RowOf
  <2> QED BY <2>2, <2>3
<1>6. ReaderInv'
  BY DEF IInv, TypeOK, CommitInv, ReaderInv, RecordCommit, Goto, Return, local
<1> QED BY <1>1, <1>2, <1>3, <1>4, <1>5, <1>6 DEF IInv

\* The producer's process dies.
LEMMA KilledStep ==
    ASSUME IInv, NEW p \in Producers, Killed(p)
    PROVE  IInv'
<1>1. TypeOK'
  <2>1. 1 \in WordIds /\ RowOf(0) \in Rows
    BY WidthAssumption, ProgressAssumption, RowOfType DEF WordIds
  <2> QED BY <2>1, ProgressAssumption
    DEF IInv, TypeOK, Killed, Goto, Return, local, Labels, Attempts
<1>2. ProgressInv'
  BY Parity
     DEF IInv, TypeOK, ProgressInv, Killed, Goto, Return, local, RowOf, Producers, Native,
         Windows, Supervisor
<1>3. CopyInv'
  <2> SUFFICES ASSUME NEW q \in Producers PROVE CopyOf(q)'
    BY DEF CopyInv
  <2>1. CopyOf(q)
    BY DEF IInv, CopyInv
  <2>2. CASE q = p
    BY <2>2 DEF IInv, TypeOK, CopyOf, Killed, Goto, Return
  <2>3. CASE q # p
    BY <2>1, <2>3 DEF IInv, TypeOK, CopyOf, RowOf, Killed, Goto, Return, local
  <2> QED BY <2>2, <2>3
<1>4. PendingInv'
  BY DEF IInv, TypeOK, PendingInv, Killed, Goto, Return, local, Producers, Native,
         Windows, Supervisor
<1>5. CommitInv'
  BY DEF IInv, TypeOK, CommitInv, Killed, Goto, Return, local, RowOf, Producers, Native,
         Windows, Supervisor
<1>6. ReaderInv'
  BY DEF IInv, TypeOK, CommitInv, ReaderInv, Killed, Goto, Return, local
<1> QED BY <1>1, <1>2, <1>3, <1>4, <1>5, <1>6 DEF IInv

\* A read begins.
LEMMA ReadBeginStep ==
    ASSUME IInv, ReadBegin
    PROVE  IInv'
<1>1. TypeOK'
  <2>1. 1 \in WordIds
    BY WidthAssumption DEF WordIds
  <2> QED BY <2>1 DEF IInv, TypeOK, ReadBegin, local
<1>2. ProgressInv'
  BY DEF IInv, ProgressInv, ReadBegin, local, RowOf
<1>3. CopyInv'
  <2> SUFFICES ASSUME NEW q \in Producers PROVE CopyOf(q)'
    BY DEF CopyInv
  <2> QED BY DEF IInv, CopyInv, CopyOf, ReadBegin, local, RowOf
<1>4. PendingInv'
  BY DEF IInv, PendingInv, ReadBegin, local
<1>5. CommitInv'
  BY DEF IInv, CommitInv, ReadBegin, local, RowOf
<1>6. ReaderInv'
  BY DEF IInv, TypeOK, ReaderInv, ReadBegin, WordIds
<1> QED BY <1>1, <1>2, <1>3, <1>4, <1>5, <1>6 DEF IInv

\* A read copies one word.
LEMMA ReadWordStep ==
    ASSUME IInv, ReadWord
    PROVE  IInv'
<1>1. TypeOK'
  <2>1. /\ reader.at \in WordIds /\ reader.row \in Rows /\ reader.from \in Producers
        /\ record[reader.from].row[reader.at] \in 0 .. MaxProgress
    BY DEF IInv, TypeOK, ReaderInv, ReadWord, Rows, Records
  <2>2. [reader.row EXCEPT ![reader.at] = record[reader.from].row[reader.at]] \in Rows
    BY <2>1, RowWord
  <2>3. reader.at = Width \/ reader.at + 1 \in WordIds
    BY <2>1, WidthAssumption DEF WordIds
  <2> QED BY <2>2, <2>3 DEF IInv, TypeOK, ReadWord, local
<1>2. ProgressInv'
  BY DEF IInv, ProgressInv, ReadWord, local, RowOf
<1>3. CopyInv'
  <2> SUFFICES ASSUME NEW q \in Producers PROVE CopyOf(q)'
    BY DEF CopyInv
  <2> QED BY DEF IInv, CopyInv, CopyOf, ReadWord, local, RowOf
<1>4. PendingInv'
  BY DEF IInv, PendingInv, ReadWord, local
<1>5. CommitInv'
  BY DEF IInv, CommitInv, ReadWord, local, RowOf
<1>6. ReaderInv'
  <2>1. /\ reader.at \in WordIds /\ reader.row \in Rows /\ reader.from = commit
        /\ commit \in Producers /\ record[commit].row \in Rows
        /\ record[commit].row[reader.at] \in 0 .. MaxProgress
    BY DEF IInv, TypeOK, ReaderInv, ReadWord, Rows, Records
  <2>2. reader'.row = [reader.row EXCEPT ![reader.at] = record[commit].row[reader.at]]
    BY <2>1 DEF IInv, TypeOK, ReadWord
  <2>3. \A i \in WordIds : i <= reader.at => reader'.row[i] = record[commit].row[i]
    <3>1. \A i \in WordIds : i < reader.at => reader.row[i] = record[commit].row[i]
      BY DEF IInv, ReaderInv, ReadWord
    <3> QED BY <2>1, <2>2, <3>1, RowWord DEF WordIds
  <2>4. reader'.from = commit' /\ commit' # 0 /\ record' = record /\ commit' = commit
    BY <2>1 DEF IInv, TypeOK, ReaderInv, ReadWord
  <2>5. CASE reader.at = Width
    <3>1. reader'.pc = "status"
      BY <2>5 DEF IInv, TypeOK, ReadWord
    <3>2. reader'.row \in Rows
      BY <2>1, <2>2, RowWord
    <3>3. reader'.row = record[commit].row
      BY <2>1, <2>3, <2>5, <3>2 DEF Rows, WordIds
    <3> QED BY <2>4, <3>1, <3>3 DEF ReaderInv
  <2>6. CASE reader.at # Width
    <3>1. reader'.pc = "copy" /\ reader'.at = reader.at + 1
      BY <2>6 DEF IInv, TypeOK, ReadWord
    <3>2. \A i \in WordIds : i < reader'.at => reader'.row[i] = record[commit].row[i]
      BY <2>1, <2>3, <3>1 DEF WordIds
    <3> QED BY <2>4, <3>1, <3>2 DEF ReaderInv
  <2> QED BY <2>5, <2>6
<1> QED BY <1>1, <1>2, <1>3, <1>4, <1>5, <1>6 DEF IInv

\* A read is complete.
LEMMA ReadStatusStep ==
    ASSUME IInv, ReadStatus
    PROVE  IInv'
<1>1. TypeOK'
  BY DEF IInv, TypeOK, ReaderInv, ReadStatus, local, Records
<1>2. ProgressInv'
  BY DEF IInv, ProgressInv, ReadStatus, local, RowOf
<1>3. CopyInv'
  <2> SUFFICES ASSUME NEW q \in Producers PROVE CopyOf(q)'
    BY DEF CopyInv
  <2> QED BY DEF IInv, CopyInv, CopyOf, ReadStatus, local, RowOf
<1>4. PendingInv'
  BY DEF IInv, PendingInv, ReadStatus, local
<1>5. CommitInv'
  BY DEF IInv, CommitInv, ReadStatus, local, RowOf
<1>6. ReaderInv'
  BY DEF IInv, TypeOK, ReaderInv, ReadStatus, local
<1> QED BY <1>1, <1>2, <1>3, <1>4, <1>5, <1>6 DEF IInv

\* The next read starts over.
LEMMA ReadAgainStep ==
    ASSUME IInv, ReadAgain
    PROVE  IInv'
<1>1. TypeOK'
  <2>1. 1 \in WordIds /\ RowOf(0) \in Rows
    BY WidthAssumption, ProgressAssumption, RowOfType DEF WordIds
  <2> QED BY <2>1 DEF IInv, TypeOK, ReadAgain, NoRead, local
<1>2. ProgressInv'
  BY DEF IInv, ProgressInv, ReadAgain, local, RowOf
<1>3. CopyInv'
  <2> SUFFICES ASSUME NEW q \in Producers PROVE CopyOf(q)'
    BY DEF CopyInv
  <2> QED BY DEF IInv, CopyInv, CopyOf, ReadAgain, local, RowOf
<1>4. PendingInv'
  BY DEF IInv, PendingInv, ReadAgain, local
<1>5. CommitInv'
  BY DEF IInv, CommitInv, ReadAgain, local, RowOf
<1>6. ReaderInv'
  BY DEF IInv, TypeOK, ReaderInv, ReadAgain, NoRead
<1> QED BY <1>1, <1>2, <1>3, <1>4, <1>5, <1>6 DEF IInv

-----------------------------------------------------------------------------
(* The theorems *)

\* The initial state satisfies the inductive invariant.
LEMMA InitEstablishes == Init => IInv
<1> SUFFICES ASSUME Init PROVE IInv
  OBVIOUS
<1>1. RowOf(0) \in Rows /\ RowOf(1) \in Rows /\ 1 \in WordIds
  BY WidthAssumption, ProgressAssumption, RowOfType DEF WordIds
<1>2. TypeOK
  BY <1>1, ProgressAssumption
     DEF Init, TypeOK, NoRead, NoRecord, Records, Labels, Attempts
<1>3. ProgressInv
  BY Parity DEF Init, ProgressInv, Producers
<1>4. CopyInv /\ PendingInv
  BY DEF Init, CopyInv, CopyOf, PendingInv
<1>5. CommitInv /\ ReaderInv
  BY DEF Init, CommitInv, ReaderInv, NoRead
<1> QED BY <1>2, <1>3, <1>4, <1>5 DEF IInv

\* Every step preserves it.
LEMMA NextPreserves == IInv /\ [Next]_vars => IInv'
<1> SUFFICES ASSUME IInv, [Next]_vars PROVE IInv'
  OBVIOUS
<1>1. CASE \E p \in Producers : Produce(p)
  <2>1. PICK p \in Producers : Produce(p)
    BY <1>1
  <2> QED BY <2>1, FailureCallStep, CommitSeenStep, ContextLoadStep, ContextCopyStep,
             ContextRecheckStep, RecordWordStep, RecordStatusStep, RecordCommitStep,
             KilledStep DEF Produce
<1>2. CASE UNCHANGED vars
  <2>1. TypeOK'
    BY <1>2 DEF vars, IInv, TypeOK
  <2>2. ProgressInv' /\ PendingInv'
    BY <1>2 DEF vars, IInv, ProgressInv, PendingInv, RowOf
  <2>3. CopyInv'
    BY <1>2 DEF vars, IInv, CopyInv, CopyOf, RowOf
  <2>4. CommitInv' /\ ReaderInv'
    BY <1>2 DEF vars, IInv, CommitInv, ReaderInv, RowOf
  <2> QED BY <2>1, <2>2, <2>3, <2>4 DEF IInv
<1> QED BY <1>1, <1>2, ProgressWordStep, ProgressPublishStep, ReadBeginStep, ReadWordStep,
           ReadStatusStep, ReadAgainStep DEF Next

\* The inductive invariant holds throughout.
LEMMA Invariance == Spec => []IInv
BY InitEstablishes, NextPreserves, PTL DEF Spec

\* Type correctness, and the bound on the seqlock's attempts.
THEOREM TypeCorrect == Spec => []TypeOK
<1>1. IInv => TypeOK
  BY DEF IInv
<1> QED BY <1>1, Invariance, PTL

\* A committed record is never torn: terminal.rs's claim that a producer killed
\* before its commit, or overtaken while copying, leaves no trace in the record.
THEOREM RecordIntegrity == Spec => []CommittedIsWhole
<1>1. IInv => CommittedIsWhole
  BY DEF IInv, CommitInv, CommittedIsWhole
<1> QED BY <1>1, Invariance, PTL

\* The committed record names its producer's first failure.
THEOREM RecordAttribution == Spec => []CommittedIsFirstFailure
<1>1. IInv => CommittedIsFirstFailure
  BY DEF IInv, CommitInv, CommittedIsFirstFailure
<1> QED BY <1>1, Invariance, PTL

\* A lock-free read returns the committed record.
THEOREM ReadIntegrity == Spec => []ReadIsCommitted
<1>1. IInv => ReadIsCommitted
  BY DEF IInv, ReaderInv, ReadIsCommitted
<1> QED BY <1>1, Invariance, PTL

\* No step replaces the committed record or writes over it.
THEOREM RecordPermanence == Spec => CommittedKept
<1>1. IInv /\ [Next]_vars =>
         [commit # 0 => commit' = commit /\ record'[commit] = record[commit]]_vars
  <2> SUFFICES ASSUME IInv, Next, commit # 0
               PROVE  commit' = commit /\ record'[commit] = record[commit]
    BY DEF vars
  <2>1. commit \in Producers /\ pc[commit] \in {"done", "dead"}
    BY DEF IInv, TypeOK, CommitInv
  <2>2. CASE \E p \in Producers : Produce(p)
    <3>1. PICK p \in Producers : Produce(p)
      BY <2>2
    <3>2. commit' = commit
      BY <3>1 DEF Produce, FailureCall, CommitSeen, ContextLoad, ContextCopy,
                  ContextRecheck, RecordWord, RecordStatus, RecordCommit, Killed
    <3>3. p # commit \/ record' = record
      BY <2>1, <3>1 DEF Produce, FailureCall, CommitSeen, ContextLoad, ContextCopy,
                  ContextRecheck, RecordWord, RecordStatus, RecordCommit, Killed
    <3>4. p # commit => record'[commit] = record[commit]
      BY <2>1, <3>1 DEF IInv, TypeOK, Produce, FailureCall, CommitSeen, ContextLoad,
                  ContextCopy, ContextRecheck, RecordWord, RecordStatus, RecordCommit, Killed
    <3> QED BY <3>2, <3>3, <3>4
  <2> QED BY <2>2 DEF Next, ProgressWord, ProgressPublish, ReadBegin, ReadWord,
                      ReadStatus, ReadAgain
<1> QED BY <1>1, Invariance, PTL DEF Spec, CommittedKept
=============================================================================
