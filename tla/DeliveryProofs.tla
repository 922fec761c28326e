--------------------------- MODULE DeliveryProofs ---------------------------
(***************************************************************************)
(* Edits, saves and restores of one native instance, for every number of   *)
(* parameters, edits, starts, saves and failures: the steps of Delivery    *)
(* keep the inductive invariant of DeliveryInvariant, part by part.        *)
(*                                                                         *)
(* For each action one lemma says what it does to the fields (its effect); *)
(* for each variable one says which actions move it; for each part of the  *)
(* invariant one shows that a step which leaves what the part reads alone, *)
(* and each of the others, keeps it.                                       *)
(***************************************************************************)
EXTENDS DeliveryInvariant, SequenceTheorems, FiniteSetTheorems, TLAPS


-----------------------------------------------------------------------------
(* The line                                                                *)

\* The constants as numbers.
LEMMA BoundsAreNumbers ==
    /\ PacketMax \in Nat \ {0} /\ MaxPublished \in Nat \ {0} /\ MaxEpochs \in Nat \ {0}
    /\ MaxStamps \in Nat /\ MaxSaves \in Nat /\ MaxFaults \in Nat
  BY DeliveryAssumption

\* A START follows a STOP, at the next epoch.
LEMMA LeadsByStart ==
    ASSUME NEW e0 \in Nat, NEW o0 \in Nat, NEW x \in Seq(Items), NEW e \in Nat,
           NEW item \in Items, Leads(e0, o0, x, e, 0),
           item.kind = "START", item.epoch = e + 1
    PROVE  Leads(e0, o0, Append(x, item), e + 1, e + 1)
<1> DEFINE y == Append(x, item)
<1>1. /\ Len(x) \in Nat /\ Len(y) = Len(x) + 1 /\ y[Len(x) + 1] = item
      /\ \A i \in 1 .. Len(x) : y[i] = x[i] /\ x[i] \in Items
  OBVIOUS
<1>2. \A i \in 1 .. Len(x) : x[i].epoch \in Nat
  BY <1>1 DEF Items
<1> HIDE DEF y
<1>3. \A i \in 1 .. Len(y) : i \in 1 .. Len(x) \/ (i = Len(x) + 1 /\ y[i] = item)
  BY <1>1
<1>a. \A i \in 1 .. Len(x) : x[i].epoch > 0 /\ x[i].epoch <= e
  BY <1>1 DEF Leads
<1>b. /\ Len(x) > 0 => x[Len(x)].kind = "STOP" /\ x[Len(x)].epoch = e
      /\ Len(x) = 0 => e0 = e /\ o0 = 0
  BY DEF Leads
<1>c. ASSUME NEW i \in 1 .. Len(y)
      PROVE  /\ y[i].kind \in {"START", "STOP", "AUDIO"}
             /\ y[i].epoch > 0 /\ e0 <= y[i].epoch /\ y[i].epoch <= e + 1
             /\ o0 = 0 \/ y[i].kind = "START" => e0 < y[i].epoch
             /\ y[i].kind = "STOP" => y[i].epoch < e + 1
  BY <1>1, <1>2, <1>3, <1>a, <1>b DEF Leads
<1>d. ASSUME NEW i \in 1 .. Len(y), NEW j \in 1 .. Len(y), i < j
      PROVE  /\ y[i].epoch <= y[j].epoch
             /\ y[i].kind = "STOP" \/ y[j].kind = "START" => y[i].epoch < y[j].epoch
             /\ j = i + 1 => (y[i].kind = "STOP" <=> y[j].kind = "START")
             /\ j = i + 1 /\ y[j].kind # "START" => y[i].epoch = y[j].epoch
  <2>1. i \in 1 .. Len(x) /\ y[i] = x[i]
    BY <1>1, <1>3, <1>d
  <2>2. CASE j \in 1 .. Len(x)
    BY <1>1, <1>d, <2>1, <2>2 DEF Leads
  <2>3. CASE j = Len(x) + 1
    <3>1. x[i].epoch <= e /\ x[i].epoch \in Nat /\ (j = i + 1 => i = Len(x)) /\ Len(x) > 0
      BY <1>1, <1>2, <1>a, <2>1, <2>3
    <3>2. y[j] = item
      BY <1>1, <2>3
    <3> QED
      BY <1>b, <1>d, <2>1, <3>1, <3>2 DEF Leads
  <2> QED
    BY <1>3, <2>2, <2>3
<1>4. Leads(e0, o0, y, e + 1, e + 1)
  BY <1>1, <1>2, <1>3, <1>a, <1>b, <1>c, <1>d DEF Leads
<1> QED
  BY <1>4 DEF y

\* A STOP closes the open epoch.
LEMMA LeadsByStop ==
    ASSUME NEW e0 \in Nat, NEW o0 \in Nat, NEW x \in Seq(Items), NEW e \in Nat \ {0},
           NEW item \in Items, Leads(e0, o0, x, e, e),
           item.kind = "STOP", item.epoch = e
    PROVE  Leads(e0, o0, Append(x, item), e, 0)
<1> DEFINE y == Append(x, item)
<1>1. /\ Len(x) \in Nat /\ Len(y) = Len(x) + 1 /\ y[Len(x) + 1] = item
      /\ \A i \in 1 .. Len(x) : y[i] = x[i] /\ x[i] \in Items
  OBVIOUS
<1>2. \A i \in 1 .. Len(x) : x[i].epoch \in Nat
  BY <1>1 DEF Items
<1> HIDE DEF y
<1>3. \A i \in 1 .. Len(y) : i \in 1 .. Len(x) \/ (i = Len(x) + 1 /\ y[i] = item)
  BY <1>1
<1>a. \A i \in 1 .. Len(x) : x[i].epoch > 0 /\ x[i].epoch <= e
  BY <1>1 DEF Leads
<1>b. Len(x) > 0 => x[Len(x)].kind # "STOP" /\ x[Len(x)].epoch = e
  BY DEF Leads
<1>c. ASSUME NEW i \in 1 .. Len(y)
      PROVE  /\ y[i].kind \in {"START", "STOP", "AUDIO"}
             /\ y[i].epoch > 0 /\ e0 <= y[i].epoch /\ y[i].epoch <= e
             /\ o0 = 0 \/ y[i].kind = "START" => e0 < y[i].epoch
             /\ \A j \in 1 .. Len(y) : i < j =>
                  /\ y[i].epoch <= y[j].epoch
                  /\ y[i].kind = "STOP" \/ y[j].kind = "START" => y[i].epoch < y[j].epoch
                  /\ j = i + 1 => (y[i].kind = "STOP" <=> y[j].kind = "START")
                  /\ j = i + 1 /\ y[j].kind # "START" => y[i].epoch = y[j].epoch
  BY <1>1, <1>2, <1>3, <1>a, <1>b DEF Leads
<1>4. Leads(e0, o0, y, e, 0)
  BY <1>1, <1>2, <1>3, <1>a, <1>b, <1>c DEF Leads
<1> QED
  BY <1>4 DEF y

\* AUDIO stays in the open epoch.
LEMMA LeadsByAudio ==
    ASSUME NEW e0 \in Nat, NEW o0 \in Nat, NEW x \in Seq(Items), NEW e \in Nat \ {0},
           NEW item \in Items, Leads(e0, o0, x, e, e),
           item.kind = "AUDIO", item.epoch = e
    PROVE  Leads(e0, o0, Append(x, item), e, e)
<1> DEFINE y == Append(x, item)
<1>1. /\ Len(x) \in Nat /\ Len(y) = Len(x) + 1 /\ y[Len(x) + 1] = item
      /\ \A i \in 1 .. Len(x) : y[i] = x[i] /\ x[i] \in Items
  OBVIOUS
<1>2. \A i \in 1 .. Len(x) : x[i].epoch \in Nat
  BY <1>1 DEF Items
<1> HIDE DEF y
<1>3. \A i \in 1 .. Len(y) : i \in 1 .. Len(x) \/ (i = Len(x) + 1 /\ y[i] = item)
  BY <1>1
<1>a. \A i \in 1 .. Len(x) : x[i].epoch > 0 /\ x[i].epoch <= e
  BY <1>1 DEF Leads
<1>b. /\ Len(x) > 0 => x[Len(x)].kind # "STOP" /\ x[Len(x)].epoch = e
      /\ Len(x) = 0 => e0 = e /\ o0 # 0
  BY DEF Leads
<1>c. ASSUME NEW i \in 1 .. Len(y)
      PROVE  /\ y[i].kind \in {"START", "STOP", "AUDIO"}
             /\ y[i].epoch > 0 /\ e0 <= y[i].epoch /\ y[i].epoch <= e
             /\ o0 = 0 \/ y[i].kind = "START" => e0 < y[i].epoch
             /\ y[i].kind = "STOP" => y[i].epoch < e
  BY <1>1, <1>2, <1>3, <1>a, <1>b DEF Leads
<1>d. ASSUME NEW i \in 1 .. Len(y), NEW j \in 1 .. Len(y), i < j
      PROVE  /\ y[i].epoch <= y[j].epoch
             /\ y[i].kind = "STOP" \/ y[j].kind = "START" => y[i].epoch < y[j].epoch
             /\ j = i + 1 => (y[i].kind = "STOP" <=> y[j].kind = "START")
             /\ j = i + 1 /\ y[j].kind # "START" => y[i].epoch = y[j].epoch
  <2>1. i \in 1 .. Len(x) /\ y[i] = x[i]
    BY <1>1, <1>3, <1>d
  <2>2. CASE j \in 1 .. Len(x)
    BY <1>1, <1>d, <2>1, <2>2 DEF Leads
  <2>3. CASE j = Len(x) + 1
    <3>1. x[i].epoch <= e /\ x[i].epoch \in Nat /\ (j = i + 1 => i = Len(x)) /\ Len(x) > 0
      BY <1>1, <1>2, <1>a, <2>1, <2>3
    <3>2. y[j] = item
      BY <1>1, <2>3
    <3> QED
      BY <1>b, <1>d, <2>1, <3>1, <3>2 DEF Leads
  <2> QED
    BY <1>3, <2>2, <2>3
<1>4. Leads(e0, o0, y, e, e)
  BY <1>1, <1>2, <1>3, <1>a, <1>b, <1>c, <1>d DEF Leads
<1> QED
  BY <1>4 DEF y

\* The first request carries the session on.
LEMMA LeadsByHead ==
    ASSUME NEW e0 \in Nat, NEW o0 \in Nat, NEW x \in Seq(Items), NEW e \in Nat,
           NEW o \in Nat, Leads(e0, o0, x, e, o), x # <<>>
    PROVE  Leads(x[1].epoch, Open(x[1].kind # "STOP", x[1].epoch), Tail(x), e, o)
<1> DEFINE y == Tail(x)
<1>1. /\ Len(x) \in Nat /\ Len(x) > 0 /\ Len(y) = Len(x) - 1
      /\ \A i \in 1 .. Len(y) : y[i] = x[i + 1]
      /\ \A i \in 1 .. Len(x) : x[i] \in Items
  OBVIOUS
<1>2. \A i \in 1 .. Len(x) : x[i].epoch \in Nat
  BY <1>1 DEF Items
<1> HIDE DEF y
<1>3. \A i \in 1 .. Len(y) : i + 1 \in 1 .. Len(x) /\ y[i] = x[i + 1]
  BY <1>1
<1>a. /\ x[1].epoch \in Nat /\ x[1].epoch > 0 /\ x[1].epoch <= e
      /\ x[1].kind \in {"START", "STOP", "AUDIO"}
  BY <1>1, <1>2 DEF Leads
<1>b. ASSUME NEW i \in 1 .. Len(y)
      PROVE  /\ y[i].kind \in {"START", "STOP", "AUDIO"}
             /\ y[i].epoch > 0 /\ x[1].epoch <= y[i].epoch /\ y[i].epoch <= e
             /\ x[1].kind = "STOP" \/ y[i].kind = "START" => x[1].epoch < y[i].epoch
             /\ y[i].kind = "STOP" /\ o # 0 => y[i].epoch < e
  <2>1. i + 1 \in 1 .. Len(x) /\ 1 \in 1 .. Len(x) /\ 1 < i + 1 /\ y[i] = x[i + 1]
    BY <1>1, <1>b
  <2> QED
    BY <2>1, <1>2 DEF Leads
<1>c. ASSUME NEW i \in 1 .. Len(y), NEW j \in 1 .. Len(y), i < j
      PROVE  /\ y[i].epoch <= y[j].epoch
             /\ y[i].kind = "STOP" \/ y[j].kind = "START" => y[i].epoch < y[j].epoch
             /\ j = i + 1 => (y[i].kind = "STOP" <=> y[j].kind = "START")
             /\ j = i + 1 /\ y[j].kind # "START" => y[i].epoch = y[j].epoch
  <2>1. i + 1 \in 1 .. Len(x) /\ j + 1 \in 1 .. Len(x) /\ i + 1 < j + 1
    BY <1>1, <1>c
  <2>2. y[i] = x[i + 1] /\ y[j] = x[j + 1] /\ (j = i + 1 => j + 1 = (i + 1) + 1)
    BY <1>1
  <2> QED
    BY SMTT(30), <2>1, <2>2 DEF Leads
<1>d. /\ Len(y) > 0 => /\ x[1].kind # "STOP" <=> y[1].kind # "START"
                       /\ x[1].kind # "STOP" => y[1].epoch = x[1].epoch
                       /\ y[Len(y)].kind = "STOP" <=> o = 0
                       /\ y[Len(y)].epoch = e
      /\ Len(y) = 0 => x[1].epoch = e /\ (x[1].kind = "STOP" <=> o = 0)
  <2>1. CASE Len(y) = 0
    <3>1. Len(x) = 1
      BY <1>1, <2>1
    <3> QED
      BY <2>1, <3>1, <1>a DEF Leads
  <2>2. CASE Len(y) > 0
    <3>1. 1 \in 1 .. Len(x) /\ 2 \in 1 .. Len(x) /\ y[1] = x[2] /\ y[Len(y)] = x[Len(x)]
      BY <1>1, <2>2
    <3>2. Len(x) > 0 /\ 1 < 2 /\ 2 = 1 + 1
      BY <1>1
    <3> QED
      BY <3>1, <3>2, <2>2 DEF Leads
  <2> QED
    BY <1>1, <2>1, <2>2
<1>4. Leads(x[1].epoch, Open(x[1].kind # "STOP", x[1].epoch), y, e, o)
  BY <1>a, <1>b, <1>c, <1>d DEF Leads, Open
<1> QED
  BY <1>4 DEF y

\* What is not empty has a first element.
LEMMA NotEmpty == ASSUME NEW s \in Seq(Items), s # <<>> PROVE Len(s) \in Nat /\ Len(s) > 0
  OBVIOUS

\* What Append and Tail do to the line.
Added(item) ==
    /\ Upcoming' = Append(Upcoming, item)
    /\ Len(Upcoming') = Len(Upcoming) + 1 /\ Upcoming'[Len(Upcoming) + 1] = item
    /\ \A i \in 1 .. Len(Upcoming) : Upcoming'[i] = Upcoming[i]
    /\ \A i \in 1 .. Len(Upcoming') :
         i \in 1 .. Len(Upcoming) \/ (i = Len(Upcoming) + 1 /\ Upcoming'[i] = item)
Removed ==
    /\ Upcoming # <<>> /\ Upcoming' = Tail(Upcoming)
    /\ Len(Upcoming) > 0 /\ Len(Upcoming') = Len(Upcoming) - 1
    /\ \A i \in 1 .. Len(Upcoming') :
         i + 1 \in 1 .. Len(Upcoming) /\ Upcoming'[i] = Upcoming[i + 1]

\* The line is the request put back and the queue.
LEMMA LineTyped ==
    ASSUME Typed
    PROVE  /\ Upcoming \in Seq(Items) /\ Len(Upcoming) \in Nat
           /\ \A i \in 1 .. Len(Upcoming) : Upcoming[i] \in Items
           /\ Len(Upcoming) = Len(w.deferred) + Len(requests)
           /\ Len(requests) \in Nat /\ Len(w.deferred) \in {0, 1}
           /\ w.deferred = <<>> => Upcoming = requests
           /\ w.deferred # <<>> => Len(w.deferred) = 1
           /\ Upcoming = <<>> <=> Len(Upcoming) = 0
<1>1. w.deferred \in Seq(Items) /\ Len(w.deferred) <= 1 /\ requests \in Seq(Items)
  BY DEF Typed, Workers
<1> DEFINE d == w.deferred
<1>2. d \in Seq(Items) /\ Len(d) <= 1
  BY <1>1
<1> HIDE DEF d
<1>3. d \o requests \in Seq(Items) /\ Len(d \o requests) = Len(d) + Len(requests)
  BY <1>1, <1>2, ConcatProperties
<1>4. d = <<>> => d \o requests = requests
  BY <1>1, ConcatEmptySeq
<1>5. d # <<>> => Len(d) = 1
  BY <1>2, NotEmpty
<1> QED
  BY <1>1, <1>2, <1>3, <1>4, <1>5 DEF Upcoming, d

\* A step that leaves the request put back and the queue alone leaves the line alone.
LEMMA LineKept ==
    ASSUME requests' = requests, w'.deferred = w.deferred
    PROVE  Upcoming' = Upcoming
  BY DEF Upcoming

\* A request published goes to the line's end.
LEMMA LineAdded ==
    ASSUME Typed, NEW item \in Items, requests' = Append(requests, item),
           w'.deferred = w.deferred
    PROVE  /\ Added(item) /\ requests' \in Seq(Items)
           /\ Len(requests') = Len(requests) + 1
<1>1. w.deferred \in Seq(Items) /\ requests \in Seq(Items)
  BY DEF Typed, Workers
<1> DEFINE d == w.deferred
           r == requests
<1>2. d \in Seq(Items) /\ r \in Seq(Items)
  BY <1>1
<1> HIDE DEF d, r
<1>3. d \o Append(r, item) = Append(d \o r, item)
  <2>1. <<item>> \in Seq(Items) /\ d \o r \in Seq(Items)
    BY <1>2, ConcatProperties
  <2>2. /\ Append(r, item) = r \o <<item>>
        /\ Append(d \o r, item) = (d \o r) \o <<item>>
    BY <1>2, <2>1, AppendIsConcat
  <2> QED
    BY <1>2, <2>1, <2>2, ConcatAssociative
<1>4. Upcoming' = Append(Upcoming, item) /\ Upcoming \in Seq(Items)
  BY <1>3, LineTyped DEF Upcoming, d, r
<1>5. requests' \in Seq(Items) /\ Len(requests') = Len(requests) + 1
  BY <1>1
<1> QED
  BY <1>4, <1>5 DEF Added

\* The worker takes the line's first request, from where it put it back or from the
\* queue.
LEMMA LineTaken ==
    ASSUME Typed, Upcoming # <<>>, Taken, w'.deferred = <<>>, requests' \in Seq(Items)
    PROVE  Removed /\ Head(Upcoming) = Upcoming[1] /\ Upcoming[1] \in Items
<1>1. w.deferred \in Seq(Items) /\ requests \in Seq(Items) /\ Len(w.deferred) <= 1
  BY DEF Typed, Workers
<1> DEFINE d == w.deferred
           r == requests
<1>2. d \in Seq(Items) /\ r \in Seq(Items) /\ Len(d) <= 1
  BY <1>1
<1>3. Upcoming' = requests'
  BY ConcatEmptySeq DEF Upcoming
<1>4. requests' = IF d = <<>> THEN Tail(r) ELSE r
  BY DEF Taken
<1>5. Upcoming = d \o r /\ Upcoming \in Seq(Items)
  BY LineTyped DEF Upcoming
<1>8. d # <<>> => Len(d) = 1
  BY LineTyped
<1> HIDE DEF d, r
<1>6. Tail(d \o r) = IF d = <<>> THEN Tail(r) ELSE r
  <2>1. CASE d = <<>>
    BY <1>2, <2>1, ConcatEmptySeq
  <2>2. CASE d # <<>>
    <3>1. Len(d) = 1
      BY <1>8, <2>2
    <3>2. /\ d \o r \in Seq(Items) /\ Len(d \o r) = Len(d) + Len(r)
          /\ \A i \in 1 .. Len(d) + Len(r) :
               (d \o r)[i] = IF i <= Len(d) THEN d[i] ELSE r[i - Len(d)]
      BY <1>2, ConcatProperties
    <3>3. d \o r # <<>>
      BY <1>2, <3>1, <3>2
    <3>4. /\ Tail(d \o r) \in Seq(Items) /\ Len(Tail(d \o r)) = Len(r)
          /\ \A i \in 1 .. Len(r) : Tail(d \o r)[i] = (d \o r)[i + 1]
      BY <1>2, <3>1, <3>2, <3>3, HeadTailProperties
    <3>5. \A i \in 1 .. Len(r) : Tail(d \o r)[i] = r[i]
      BY <1>2, <3>1, <3>2, <3>4
    <3>6. Tail(d \o r) = r
      BY <1>2, <3>4, <3>5, SeqEqual
    <3> QED
      BY <2>2, <3>6
  <2> QED
    BY <2>1, <2>2
<1>7. Upcoming' = Tail(Upcoming)
  BY <1>3, <1>4, <1>5, <1>6
<1> QED
  BY <1>5, <1>7 DEF Removed

\* A request put back is the line's first.
LEMMA LinePutBack ==
    ASSUME Typed, w.deferred = <<>>, requests # <<>>, requests' = Tail(requests),
           w'.deferred = <<Head(requests)>>
    PROVE  Upcoming' = Upcoming /\ Upcoming # <<>> /\ Head(requests) = Upcoming[1]
<1>1. requests \in Seq(Items) /\ Upcoming = requests
  BY LineTyped DEF Typed
<1> DEFINE r == requests
<1>2. r \in Seq(Items) /\ r # <<>>
  BY <1>1
<1> HIDE DEF r
<1>3. /\ Head(r) \in Items /\ Tail(r) \in Seq(Items) /\ Len(Tail(r)) = Len(r) - 1
      /\ \A i \in 1 .. Len(Tail(r)) : Tail(r)[i] = r[i + 1]
      /\ Head(r) = r[1]
  BY <1>2, HeadTailProperties
<1>4. <<Head(r)>> \in Seq(Items) /\ Len(<<Head(r)>>) = 1 /\ <<Head(r)>>[1] = r[1]
  BY <1>3
<1>5. <<Head(r)>> \o Tail(r) = r
  <2> DEFINE h == <<Head(r)>>
             t == Tail(r)
  <2>1. h \in Seq(Items) /\ t \in Seq(Items) /\ Len(h) = 1 /\ h[1] = r[1]
    BY <1>3, <1>4
  <2>2. \A i \in 1 .. Len(t) : t[i] = r[i + 1]
    BY <1>3
  <2>3. Len(t) = Len(r) - 1 /\ Len(r) \in Nat \ {0}
    BY <1>2, <1>3
  <2> HIDE DEF h, t
  <2>4. /\ h \o t \in Seq(Items) /\ Len(h \o t) = Len(h) + Len(t)
        /\ \A i \in 1 .. Len(h) + Len(t) :
             (h \o t)[i] = IF i <= Len(h) THEN h[i] ELSE t[i - Len(h)]
    BY <2>1, ConcatProperties
  <2>5. Len(h \o t) = Len(r)
    BY <2>1, <2>3, <2>4
  <2>6. \A i \in 1 .. Len(r) : (h \o t)[i] = r[i]
    BY <2>1, <2>2, <2>3, <2>4
  <2>7. h \o t = r
    BY <1>2, <2>4, <2>5, <2>6, SeqEqual
  <2> QED
    BY <2>7 DEF h, t
<1>6. Upcoming' = <<Head(r)>> \o Tail(r)
  BY DEF Upcoming, r
<1> QED
  BY <1>1, <1>3, <1>5, <1>6 DEF r

-----------------------------------------------------------------------------
(* The steps, by what they do to the line                                  *)

TurnOn == Free /\ Start /\ UNCHANGED <<mode, ctl, w, mbox, session, peer, plugin, snap, accepted>>
TurnOff ==
    /\ Free /\ Stop /\ clock' = Counted(clock, 0)
    /\ UNCHANGED <<mode, ctl, w, mbox, session, peer, plugin, snap, accepted>>
RestoreRunning == Restore /\ cb.running
RestoreStopped == Restore /\ ~cb.running
AnswerStarting == TakeAnswer /\ ctl.resume /\ Healthy
AnswerOnly == TakeAnswer /\ ~(ctl.resume /\ Healthy)
TakeBack == Take /\ Served(Head(Upcoming)) = "top"
TakeNext == Take /\ Served(Head(Upcoming)) # "top"
PopBack == PendingPop /\ ControlPrecedes(TRUE)
PopNext == PendingPop /\ ~ControlPrecedes(TRUE)

\* The callback at work; what grows the line; what takes from it; the rest.
Listening == Process \/ Retain \/ Ready \/ Flushed \/ Drain \/ Drained
Sending == Flush \/ Submit
Opening == TurnOn \/ AnswerStarting
Closing == TurnOff \/ RestoreRunning
Asking == Save \/ RestoreStopped \/ Admit \/ AnswerOnly
Capturing == BeginCapture \/ EndCapture \/ ComponentState \/ CaptureInAudio
Taking == TakeNext \/ PopNext
PuttingBack == TakeBack \/ PopBack
Waiting == TakeNothing \/ PendingStart \/ PendingEmpty \/ PollStart \/ PendingWait
Serving == Transition \/ FinishStart \/ StartedInAudio \/ Publish \/ Synced
Failing == Fault \/ Recover

\* Every step belongs to one of the groups.
LEMMA StepKinds ==
    ASSUME Next
    PROVE  \/ Listening \/ Sending \/ Opening \/ Closing \/ Asking \/ Capturing
           \/ Taking \/ PuttingBack \/ Waiting \/ Serving \/ PeerStep \/ Failing
<1>1. SetProcessing => TurnOn \/ TurnOff
  BY DEF SetProcessing, TurnOn, TurnOff
<1>2. Restore => RestoreRunning \/ RestoreStopped
  BY DEF RestoreRunning, RestoreStopped
<1>3. TakeAnswer => AnswerStarting \/ AnswerOnly
  BY DEF AnswerStarting, AnswerOnly
<1>4. Take => TakeBack \/ TakeNext
  BY DEF TakeBack, TakeNext
<1>5. PendingPop => PopBack \/ PopNext
  BY DEF PopBack, PopNext
<1> QED
  BY <1>1, <1>2, <1>3, <1>4, <1>5
  DEF Next, Callback, Owner, Worker, Listening, Sending, Opening, Closing, Asking, Capturing,
      Taking, PuttingBack, Waiting, Serving, Failing

\* What the invariant says of types and of the line.
LEMMA Line ==
    ASSUME IInv
    PROVE  /\ Typed /\ Upcoming \in Seq(Items) /\ Len(Upcoming) \in Nat
           /\ \A i \in 1 .. Len(Upcoming) : Upcoming[i] \in Items
           /\ Len(Upcoming) = Len(w.deferred) + Len(requests)
           /\ Len(requests) \in Nat /\ Len(w.deferred) \in {0, 1}
           /\ w.deferred = <<>> => Upcoming = requests
           /\ w.deferred # <<>> => Len(w.deferred) = 1
           /\ Upcoming = <<>> <=> Len(Upcoming) = 0
  BY LineTyped DEF IInv

\* The type of what an item, a result holds.
LEMMA FieldsTyped ==
    /\ \A i \in Items : /\ i.kind \in {"none", "START", "STOP", "AUDIO"}
                        /\ i.epoch \in Nat /\ i.ticket \in Nat /\ i.sync \in BOOLEAN
                        /\ i.edits \in Values
    /\ \A e \in Values : \A p \in Params : e[p] \in Nat
    /\ NoEdits \in Values /\ NoItem \in Items
    /\ \A p \in Params : NoEdits[p] = 0
    /\ NoItem.kind = "none" /\ NoItem.epoch = 0 /\ NoItem.ticket = 0
    /\ NoItem.edits = NoEdits /\ NoItem.sync = FALSE
<1>1. NoEdits \in Values /\ \A p \in Params : NoEdits[p] = 0
  BY DEF NoEdits, Values
<1>2. NoItem \in Items
  BY <1>1 DEF NoItem, Item, Items
<1> QED
  BY <1>1, <1>2 DEF Items, Values, NoItem, Item

\* The worker serves a request that its session is ready for.
LEMMA HeadReached ==
    ASSUME IInv, Healthy, Upcoming # <<>>
    PROVE  /\ Upcoming[1] \in Items /\ Upcoming[1].kind \in {"START", "STOP", "AUDIO"}
           /\ Upcoming[1].epoch > 0 /\ Upcoming[1].epoch <= cb.epoch
           /\ Upcoming[1].kind = "START" <=> AheadOpen = 0
           /\ Upcoming[1].kind # "START" =>
                AheadOpen = AheadEpoch /\ Upcoming[1].epoch = AheadEpoch
           /\ Upcoming[1].kind = "START" => AheadEpoch < Upcoming[1].epoch
<1>1. 1 \in 1 .. Len(Upcoming)
  BY Line
<1>2. LineInv
  BY DEF IInv
<1> QED
  BY <1>1, <1>2, Line, FieldsTyped DEF LineInv, Leads

\* What the worker does with a request.
LEMMA ServedAs ==
    ASSUME NEW item
    PROVE  Served(item) =
               IF item.kind = "AUDIO" THEN "audio"
               ELSE IF peer.capture.st # "none" THEN "top"
               ELSE IF item.kind = "START" /\ mode.overlap THEN "pstart" ELSE "transition"
  BY DEF Served

\* The next request taken: never refused by the session, and behind a capture only
\* AUDIO.
LEMMA TakeNextDoes ==
    ASSUME IInv, TakeNext
    PROVE  /\ Healthy /\ w.pc \in Between /\ Removed
           /\ Upcoming[1] \in Items
           /\ w' = [w EXCEPT !.pc = Served(Upcoming[1]), !.item = Upcoming[1],
                             !.deferred = <<>>]
           /\ Upcoming[1].kind = "AUDIO" => w'.pc = "audio"
           /\ Upcoming[1].kind # "AUDIO" =>
                w'.pc \in {"pstart", "transition"} /\ peer.capture.st = "none"
           /\ w'.pc = "pstart" => Upcoming[1].kind = "START"
           /\ requests' \in Seq(Items)
           /\ peer' = [peer EXCEPT !.start = peer'.start]
           /\ peer'.start \in {peer.start, "asked"}
           /\ UNCHANGED <<mode, cb, ctl, published, results, shared, mbox, session, plugin,
                          snap, clock, accepted>>
<1>1. Healthy /\ w.pc \in Between /\ Upcoming # <<>> /\ Taken
  BY DEF TakeNext, Take, Between
<1>2. Head(Upcoming) = Upcoming[1] /\ Upcoming[1] \in Items
  BY <1>1, Line, HeadReached
<1>3. /\ w' = [w EXCEPT !.pc = Served(Upcoming[1]), !.item = Upcoming[1],
                        !.deferred = <<>>]
      /\ shared' = IF Upcoming[1].kind = "AUDIO" /\ ~InSession(Upcoming[1])
                   THEN Failed(shared) ELSE shared
      /\ peer' = IF Upcoming[1].kind = "START" THEN [peer EXCEPT !.start = "asked"]
                 ELSE peer
      /\ UNCHANGED <<mode, cb, ctl, published, results, mbox, session, plugin,
                     snap, clock, accepted>>
  BY <1>2 DEF TakeNext, Take
<1>4. /\ w \in Workers /\ requests \in Seq(Items) /\ peer \in Peers
      /\ session \in Sessions
  BY Line DEF Typed
<1>5. requests' \in Seq(Items)
  <2>1. CASE w.deferred # <<>>
    BY <1>1, <1>4, <2>1 DEF Taken
  <2>2. CASE w.deferred = <<>>
    <3>1. requests # <<>>
      BY <1>1, <2>2, Line
    <3> QED
      BY <1>1, <1>4, <2>2, <3>1, HeadTailProperties DEF Taken
  <2> QED
    BY <2>1, <2>2
<1>6. w'.deferred = <<>> /\ w'.pc = Served(Upcoming[1])
  BY <1>3, <1>4 DEF Workers
<1>7. Removed
  BY <1>1, <1>5, <1>6, Line, LineTaken
<1>8. shared' = shared
  <2>1. Upcoming[1].kind = "AUDIO" => InSession(Upcoming[1])
    BY <1>1, <1>4, HeadReached, FieldsTyped
    DEF InSession, AheadOpen, AheadEpoch, Open, Between, Sessions
  <2> QED
    BY <1>3, <2>1
<1>9. /\ Upcoming[1].kind = "AUDIO" => w'.pc = "audio"
      /\ Upcoming[1].kind # "AUDIO" =>
           w'.pc \in {"pstart", "transition"} /\ peer.capture.st = "none"
      /\ w'.pc = "pstart" => Upcoming[1].kind = "START"
  <2>1. Served(Upcoming[1]) # "top"
    BY <1>2 DEF TakeNext
  <2> QED
    BY <1>6, <2>1, ServedAs
<1>10. /\ peer' = [peer EXCEPT !.start = peer'.start]
       /\ peer'.start \in {peer.start, "asked"}
  BY <1>3, <1>4 DEF Peers
<1> QED
  BY <1>1, <1>2, <1>3, <1>5, <1>7, <1>8, <1>9, <1>10

\* A START or STOP met behind a capture is put back.
LEMMA TakeBackDoes ==
    ASSUME IInv, TakeBack
    PROVE  /\ Healthy /\ w.pc \in Between /\ Upcoming' = Upcoming /\ Upcoming # <<>>
           /\ Upcoming[1] \in Items
           /\ w' = [w EXCEPT !.pc = "top", !.item = NoItem, !.deferred = <<Upcoming[1]>>]
           /\ peer.capture.st # "none"
           /\ requests' \in Seq(Items) /\ Len(requests') = Len(Upcoming) - 1
           /\ UNCHANGED <<mode, cb, ctl, published, results, shared, mbox, session, peer,
                          plugin, snap, clock, accepted>>
<1>1. Healthy /\ w.pc \in Between /\ Upcoming # <<>> /\ Taken
  BY DEF TakeBack, Take, Between
<1>2. Head(Upcoming) = Upcoming[1] /\ Upcoming[1] \in Items
  BY <1>1, Line, HeadReached
<1>3. Upcoming[1].kind # "AUDIO" /\ peer.capture.st # "none"
  BY <1>2, ServedAs DEF TakeBack
<1>4. /\ w' = [w EXCEPT !.pc = "top", !.item = NoItem, !.deferred = <<Upcoming[1]>>]
      /\ UNCHANGED <<mode, cb, ctl, published, results, shared, mbox, session, peer,
                     plugin, snap, clock, accepted>>
  BY <1>2, <1>3 DEF TakeBack, Take
<1>5. /\ w \in Workers /\ requests \in Seq(Items)
  BY Line DEF Typed
<1>6. w'.deferred = <<Upcoming[1]>>
  BY <1>4, <1>5 DEF Workers
<1>7. CASE w.deferred = <<>>
  <2>1. requests # <<>> /\ requests' = Tail(requests) /\ Upcoming = requests
    BY <1>1, <1>7, Line DEF Taken
  <2>2. /\ Head(requests) = Upcoming[1] /\ Tail(requests) \in Seq(Items)
        /\ Len(Tail(requests)) = Len(requests) - 1
    BY <1>2, <1>5, <2>1, HeadTailProperties
  <2>3. Upcoming' = Upcoming
    BY <1>6, <1>7, <2>1, <2>2, Line, LinePutBack
  <2> QED
    BY <1>1, <1>2, <1>3, <1>4, <2>1, <2>2, <2>3
<1>8. CASE w.deferred # <<>>
  <2>1. requests' = requests /\ Len(w.deferred) = 1
    BY <1>1, <1>8, Line DEF Taken
  <2>2. Upcoming[1] = w.deferred[1]
    <3>1. w.deferred \in Seq(Items)
      BY <1>5 DEF Workers
    <3> QED
      BY <1>5, <2>1, <3>1, ConcatProperties DEF Upcoming
  <2>3. w.deferred = <<Upcoming[1]>>
    <3>1. w.deferred \in Seq(Items) /\ <<Upcoming[1]>> \in Seq(Items)
      BY <1>2, <1>5 DEF Workers
    <3>2. Len(<<Upcoming[1]>>) = 1 /\ <<Upcoming[1]>>[1] = Upcoming[1]
      OBVIOUS
    <3> QED
      BY <2>1, <2>2, <3>1, <3>2, SeqEqual
  <2>4. Upcoming' = Upcoming
    BY <1>6, <2>1, <2>3 DEF Upcoming
  <2> QED
    BY <1>1, <1>2, <1>3, <1>4, <1>5, <2>1, <2>4, Line
<1> QED
  BY <1>7, <1>8

\* While a start is pending the worker holds it and nothing is put back.
LEMMA StartHeld ==
    ASSUME IInv, w.pc \in Starting
    PROVE  /\ w.item.kind = "START" /\ w.deferred = <<>> /\ Upcoming = requests
           /\ AheadOpen = w.item.epoch /\ AheadEpoch = w.item.epoch
  BY Line DEF IInv, WorkerInv, DeferredInv, Starting, Between, AheadOpen, AheadEpoch

\* AUDIO passes a pending start at its own epoch, a STOP ends the wait.
LEMMA PopNextDoes ==
    ASSUME IInv, PopNext
    PROVE  /\ Healthy /\ w.pc \in {"pop1", "pop2"} /\ Removed
           /\ Upcoming[1] \in Items /\ Upcoming[1].kind \in {"STOP", "AUDIO"}
           /\ Upcoming[1].epoch = w.item.epoch
           /\ w' = [w EXCEPT !.pc = IF Upcoming[1].kind = "AUDIO" THEN "audio" ELSE "finish",
                             !.item = Upcoming[1],
                             !.overlap = Upcoming[1].kind = "AUDIO"]
           /\ shared' = [shared EXCEPT !.hint = FALSE]
           /\ requests' \in Seq(Items)
           /\ UNCHANGED <<mode, cb, ctl, published, results, mbox, session, peer, plugin,
                          snap, clock, accepted>>
<1>1. /\ Healthy /\ w.pc \in {"pop1", "pop2"} /\ requests # <<>>
      /\ requests' = Tail(requests) /\ ~ControlPrecedes(TRUE)
  BY DEF PopNext, PendingPop
<1>2. /\ w.pc \in Starting /\ w.deferred = <<>> /\ Upcoming = requests
      /\ AheadOpen = w.item.epoch /\ AheadEpoch = w.item.epoch /\ w.item.kind = "START"
  BY <1>1, StartHeld DEF Starting
<1>3. /\ w \in Workers /\ requests \in Seq(Items)
  BY Line DEF Typed
<1>4. Head(requests) = Upcoming[1] /\ Tail(requests) \in Seq(Items)
  BY <1>1, <1>2, <1>3, HeadTailProperties
<1>5. /\ w' = [w EXCEPT !.pc = IF Upcoming[1].kind = "AUDIO" THEN "audio" ELSE "finish",
                        !.item = Upcoming[1],
                        !.overlap = Upcoming[1].kind = "AUDIO"]
      /\ shared' = IF \/ Upcoming[1].kind = "START"
                      \/ Upcoming[1].epoch # w.item.epoch
                   THEN Failed(shared)
                   ELSE [shared EXCEPT !.hint = FALSE]
      /\ UNCHANGED <<mode, cb, ctl, published, results, mbox, session, peer, plugin,
                     snap, clock, accepted>>
  BY <1>1, <1>4 DEF PopNext, PendingPop
<1>6. /\ Upcoming[1] \in Items /\ Upcoming[1].kind \in {"START", "STOP", "AUDIO"}
      /\ Upcoming[1].epoch > 0 /\ Upcoming[1].epoch \in Nat /\ w.item.epoch \in Nat
      /\ Upcoming[1].kind = "START" <=> w.item.epoch = 0
      /\ Upcoming[1].kind # "START" => Upcoming[1].epoch = w.item.epoch
  BY <1>1, <1>2, <1>3, HeadReached, FieldsTyped DEF Workers
<1>7. w.item.epoch # 0
  BY <1>2 DEF IInv, WorkerInv
<1>8. w'.deferred = <<>>
  BY <1>2, <1>3, <1>5 DEF Workers
<1>9. Removed
  BY <1>1, <1>2, <1>3, <1>4, <1>8, Line, LineTaken DEF Taken
<1> QED
  BY <1>1, <1>4, <1>5, <1>6, <1>7, <1>9

\* A request that a control call precedes is put back: the call is a save.
LEMMA PopBackDoes ==
    ASSUME IInv, PopBack
    PROVE  /\ Healthy /\ w.pc \in {"pop1", "pop2"} /\ Upcoming' = Upcoming
           /\ Upcoming # <<>> /\ Upcoming[1] \in Items
           /\ w' = [w EXCEPT !.pc = "finish", !.deferred = <<Upcoming[1]>>]
           /\ shared' = [shared EXCEPT !.hint = FALSE]
           /\ requests' \in Seq(Items) /\ Len(requests') = Len(Upcoming) - 1
           /\ mbox.st = "asked" /\ mbox.op = 16 /\ mbox.barrier <= consumed
           /\ UNCHANGED <<mode, cb, ctl, published, results, mbox, session, peer, plugin,
                          snap, clock, accepted>>
<1>1. /\ Healthy /\ w.pc \in {"pop1", "pop2"} /\ requests # <<>>
      /\ requests' = Tail(requests) /\ ControlPrecedes(TRUE)
  BY DEF PopBack, PendingPop
<1>2. /\ w.pc \in Starting /\ w.deferred = <<>> /\ Upcoming = requests
      /\ AheadOpen = w.item.epoch /\ AheadEpoch = w.item.epoch /\ w.item.kind = "START"
  BY <1>1, StartHeld DEF Starting
<1>3. /\ w \in Workers /\ requests \in Seq(Items) /\ mbox \in Mails /\ published \in Nat
      /\ Len(requests) \in Nat
  BY Line DEF Typed
<1>4. /\ Head(requests) = Upcoming[1] /\ Tail(requests) \in Seq(Items)
      /\ Upcoming[1] \in Items /\ Len(Tail(requests)) = Len(requests) - 1
  BY <1>1, <1>2, <1>3, HeadTailProperties
<1>5. /\ w' = [w EXCEPT !.pc = "finish", !.deferred = <<Upcoming[1]>>]
      /\ shared' = [shared EXCEPT !.hint = FALSE]
      /\ UNCHANGED <<mode, cb, ctl, published, results, mbox, session, peer, plugin,
                     snap, clock, accepted>>
  BY <1>1, <1>4 DEF PopBack, PendingPop
<1>6. w'.deferred = <<Head(requests)>>
  BY <1>3, <1>4, <1>5 DEF Workers
<1>7. Upcoming' = Upcoming
  BY <1>1, <1>2, <1>6, Line, LinePutBack
<1>8. mbox.st = "asked" /\ mbox.barrier <= consumed
  BY <1>1, <1>3 DEF ControlPrecedes, consumed, Mails
<1>9. mbox.op = 16
  <2>1. CallInv
    BY DEF IInv
  <2>2. Len(requests) > 0
    BY <1>1, <1>3, NotEmpty
  <2>3. mbox.barrier # published
    BY <1>3, <1>8, <2>2 DEF consumed, Mails
  <2> QED
    BY <1>8, <2>1, <2>3 DEF CallInv, IdleControl
<1> QED
  BY <1>1, <1>2, <1>4, <1>5, <1>7, <1>8, <1>9

\* The next result is the callback's next ticket.
LEMMA DrainDoes ==
    ASSUME IInv, Drain
    PROVE  /\ Healthy /\ cb.pc = "drain" /\ cb.running /\ results # <<>>
           /\ results' = Tail(results)
           /\ LET reached == cb.sync # 0 /\ cb.completed + 1 >= cb.sync
              IN  /\ cb' = [cb EXCEPT !.completed = cb.completed + 1,
                                      !.sync = IF reached THEN 0 ELSE @]
                  /\ shared' = IF reached THEN Acknowledged(shared, cb.epoch) ELSE shared
           /\ UNCHANGED <<mode, ctl, w, requests, published, mbox, session, peer,
                          plugin, snap, clock, accepted>>
<1>1. Healthy /\ cb.pc = "drain" /\ results # <<>> /\ results' = Tail(results)
  BY DEF Drain
<1>2. cb.running
  BY <1>1 DEF IInv, CallbackInv
<1>3. results \in Seq(Results) /\ cb \in Callbacks
  BY Line DEF Typed
<1>4. Head(results) = results[1] /\ 1 \in 1 .. Len(results)
  BY <1>1, <1>3
<1>5. results[1].epoch = cb.epoch /\ results[1].ticket = cb.completed + 1
  <2>1. TicketInv
    BY DEF IInv
  <2> QED
    BY <1>1, <1>4, <2>1 DEF TicketInv, ResultTickets
<1>6. cb.epoch \in Nat
  BY <1>3 DEF Callbacks
<1> DEFINE r == Head(results)
<1>7. ~(r.epoch < cb.epoch) /\ r.epoch = cb.epoch /\ r.ticket = cb.completed + 1
  BY <1>4, <1>5, <1>6
<1>8. /\ cb' = [cb EXCEPT !.completed = r.ticket,
                          !.sync = IF cb.sync # 0 /\ r.ticket >= cb.sync THEN 0 ELSE @]
      /\ shared' = IF cb.sync # 0 /\ r.ticket >= cb.sync
                   THEN Acknowledged(shared, r.epoch) ELSE shared
      /\ UNCHANGED <<mode, ctl, w, requests, published, mbox, session, peer,
                     plugin, snap, clock, accepted>>
  BY <1>7 DEF Drain
<1> QED
  BY <1>1, <1>2, <1>7, <1>8

\* At a barrier that is reached the worker's session has everything before it.
LEMMA FencedMeans ==
    ASSUME IInv, Healthy, w.pc = "top", Fenced
    PROVE  /\ w.item = NoItem
           /\ mbox.barrier + Len(Upcoming) <= published
           /\ mbox.op = 18 => /\ Upcoming = <<>> /\ ~session.running
                              /\ mbox.barrier = published
<1>1. /\ Typed /\ CallInv /\ WorkerInv /\ DeferredInv /\ LineInv
  BY DEF IInv
<1>2. /\ w \in Workers /\ published \in Nat /\ mbox \in Mails /\ session \in Sessions
      /\ Len(Upcoming) = Len(w.deferred) + Len(requests) /\ Len(requests) \in Nat
      /\ Len(w.deferred) \in {0, 1} /\ Len(Upcoming) \in Nat
  BY Line DEF Typed
<1>3. /\ mbox.st = "asked" /\ mbox.barrier <= published - Len(requests)
      /\ mbox.barrier \in Nat
  BY <1>2 DEF Fenced, consumed, Mails
<1>4. w.item = NoItem
  BY <1>1 DEF WorkerInv, Between
<1>5. w.deferred # <<>> => mbox.op = 16 /\ mbox.barrier < published - Len(requests)
  BY <1>1 DEF DeferredInv, consumed
<1>6. w.deferred = <<>> => Len(w.deferred) = 0
  OBVIOUS
<1>7. mbox.barrier + Len(Upcoming) <= published
  <2>1. CASE w.deferred = <<>>
    BY <1>2, <1>3, <1>6, <2>1
  <2>2. CASE w.deferred # <<>>
    <3>1. Len(Upcoming) = 1 + Len(requests)
      BY <2>2, Line
    <3> QED
      BY <1>2, <1>3, <1>5, <2>2, <3>1
  <2> QED
    BY <2>1, <2>2
<1>8. ASSUME mbox.op = 18
      PROVE  Upcoming = <<>> /\ ~session.running /\ mbox.barrier = published
  <2>1. mbox.barrier = published /\ ~cb.running
    BY <1>1, <1>3, <1>8 DEF CallInv
  <2>2. Len(Upcoming) = 0 /\ Upcoming = <<>>
    BY <1>2, <1>7, <2>1, Line
  <2>3. AheadOpen = 0
    BY <1>1, <2>1, <2>2 DEF LineInv, Leads, Open
  <2>4. session.running => session.epoch = 0
    BY <2>3 DEF AheadOpen, Between, Open
  <2> QED
    BY <1>1, <2>1, <2>2, <2>4 DEF WorkerInv
<1> QED
  BY <1>4, <1>7, <1>8

\* A control call of a component that is not processing.
LEMMA ComponentStateDoes ==
    ASSUME IInv, ComponentState
    PROVE  /\ w.pc = "top" /\ Healthy /\ Fenced /\ peer.capture.st = "none"
           /\ mbox.op \in {16, 18} /\ ~session.running
           /\ plugin' = IF mbox.op = 18 THEN All(mbox.stamp) ELSE plugin
           /\ Complete(plugin')
           /\ w' = [w EXCEPT !.pc = "take"]
           /\ UNCHANGED <<mode, cb, ctl, requests, published, results, session, peer,
                          clock, accepted>>
<1>1. /\ w.pc = "top" /\ Healthy /\ Fenced /\ mbox.st = "asked"
      /\ mbox.op = 18 \/ ~session.running
  BY DEF ComponentState, Fenced
<1>2. ~session.running
  BY <1>1, FencedMeans
<1>3. mbox.op \in {16, 18}
  BY <1>1 DEF IInv, CallInv, IdleControl
<1> QED
  BY <1>1, <1>2, <1>3 DEF ComponentState

\* Every other step leaves the line.
LEMMA Quiet ==
    ASSUME IInv,
           \/ Listening \/ Asking \/ Capturing \/ PuttingBack \/ Waiting \/ Serving
           \/ PeerStep
    PROVE  Upcoming' = Upcoming
<1>1. w \in Workers
  BY Line DEF Typed
<1>2. CASE Listening
  BY <1>2, LineKept
  DEF Listening, Process, Retain, Ready, Flushed, Drain, Drained
<1>3. CASE Asking
  BY <1>3, LineKept DEF Asking, Save, RestoreStopped, Restore, Admit, AnswerOnly, TakeAnswer
<1>4. CASE Capturing
  BY <1>1, <1>4, LineKept
  DEF Capturing, BeginCapture, EndCapture, ComponentState, CaptureInAudio, Workers
<1>5. CASE PuttingBack
  BY <1>5, TakeBackDoes, PopBackDoes DEF PuttingBack
<1>6. CASE Waiting
  BY <1>1, <1>6, LineKept
  DEF Waiting, TakeNothing, PendingStart, PendingEmpty, PollStart, PendingWait, Workers
<1>7. CASE Serving
  BY <1>1, <1>7, LineKept
  DEF Serving, Transition, FinishStart, StartedInAudio, Publish, Synced, Workers
<1>8. CASE PeerStep
  BY <1>8, LineKept DEF PeerStep
<1> QED
  BY <1>2, <1>3, <1>4, <1>5, <1>6, <1>7, <1>8

\* What grows the line.
LEMMA StartsTheLine ==
    ASSUME IInv, Opening
    PROVE  /\ Added(Item("START", cb.epoch + 1, 0, NoEdits, FALSE))
           /\ requests' \in Seq(Items) /\ Len(requests') = Len(requests) + 1
<1> DEFINE item == Item("START", cb.epoch + 1, 0, NoEdits, FALSE)
<1>1. item \in Items
  BY Line, FieldsTyped DEF Item, Items, Typed, Callbacks
<1>2. w' = w /\ requests' = Append(requests, item)
  BY DEF Opening, TurnOn, AnswerStarting, TakeAnswer, Start, Push
<1> HIDE DEF item
<1>3. Added(item) /\ requests' \in Seq(Items) /\ Len(requests') = Len(requests) + 1
  BY <1>1, <1>2, Line, LineAdded
<1> QED
  BY <1>3 DEF item

\* A STOP is published at the line's end.
LEMMA StopsTheLine ==
    ASSUME IInv, Closing
    PROVE  /\ Added(Item("STOP", cb.epoch, 0, NoEdits, FALSE))
           /\ requests' \in Seq(Items) /\ Len(requests') = Len(requests) + 1
<1> DEFINE item == Item("STOP", cb.epoch, 0, NoEdits, FALSE)
<1>1. item \in Items
  BY Line, FieldsTyped DEF Item, Items, Typed, Callbacks
<1>2. w' = w /\ requests' = Append(requests, item)
  BY DEF Closing, TurnOff, RestoreRunning, Restore, Stop, Push
<1> HIDE DEF item
<1>3. Added(item) /\ requests' \in Seq(Items) /\ Len(requests') = Len(requests) + 1
  BY <1>1, <1>2, Line, LineAdded
<1> QED
  BY <1>3 DEF item

\* AUDIO is published at the line's end.
LEMMA SendsTheLine ==
    ASSUME IInv, NEW edits \in Values, NEW sync \in BOOLEAN, NEW flush \in BOOLEAN,
           SendAudio(edits, sync, flush), w' = w
    PROVE  /\ Added(Item("AUDIO", cb.epoch, cb.submitted + 1, edits, sync))
           /\ requests' \in Seq(Items) /\ Len(requests') = Len(requests) + 1
<1> DEFINE item == Item("AUDIO", cb.epoch, cb.submitted + 1, edits, sync)
<1>1. item \in Items
  BY Line, FieldsTyped DEF Item, Items, Typed, Callbacks
<1>2. requests' = Append(requests, item)
  BY DEF SendAudio, Push
<1> HIDE DEF item
<1>3. Added(item) /\ requests' \in Seq(Items) /\ Len(requests') = Len(requests) + 1
  BY <1>1, <1>2, Line, LineAdded
<1> QED
  BY <1>3 DEF item

\* What the callback sends: retained values, of which the last packet acknowledges
\* the epoch, or its own edits once nothing is retained.
LEMMA SendDoes ==
    ASSUME IInv, Sending
    PROVE  \E edits \in Values, sync \in BOOLEAN, flush \in BOOLEAN :
             /\ SendAudio(edits, sync, flush)
             /\ Added(Item("AUDIO", cb.epoch, cb.submitted + 1, edits, sync))
             /\ Healthy /\ cb.running /\ cb.epoch > 0
             /\ flush => /\ cb.pc = "replay" /\ ~Nothing /\ Edited(edits) # {}
                         /\ Edited(edits) \subseteq Edited(cb.retained)
                         /\ \A p \in Params : edits[p] \in {0, cb.retained[p]}
                         /\ sync <=> Edited(cb.retained) = Edited(edits)
             /\ ~flush => cb.pc = "push" /\ edits = cb.edits /\ ~sync
             /\ UNCHANGED <<mode, ctl, w, results, mbox, session, peer, plugin, snap,
                            accepted>>
<1>1. cb \in Callbacks /\ cb.retained \in Values /\ cb.edits \in Values
  BY Line DEF Typed, Callbacks
<1>2. cb.pc # "idle" => cb.running /\ cb.epoch > 0
  BY DEF IInv, CallbackInv
<1>3. CASE Submit
  <2>1. SendAudio(cb.edits, FALSE, FALSE) /\ Healthy /\ cb.pc = "push" /\ w' = w
    BY <1>3 DEF Submit
  <2>2. Added(Item("AUDIO", cb.epoch, cb.submitted + 1, cb.edits, FALSE))
    BY <1>1, <2>1, SendsTheLine
  <2> QED
    BY <1>1, <1>2, <1>3, <2>1, <2>2 DEF Submit
<1>4. CASE Flush
  <2>1. PICK Q \in Packets : SendAudio(Restricted(cb.retained, Q), Edited(cb.retained) = Q, TRUE)
    BY <1>4 DEF Flush
  <2>2. Q \subseteq Params /\ Q # {} /\ Q \subseteq Edited(cb.retained)
    BY DEF Packets, Edited
  <2> DEFINE edits == Restricted(cb.retained, Q)
             sync == Edited(cb.retained) = Q
  <2>3. /\ edits \in Values
        /\ \A p \in Params : edits[p] = IF p \in Q THEN cb.retained[p] ELSE 0
    BY <1>1 DEF Restricted, Values
  <2>4. Edited(edits) = Q /\ \A p \in Params : edits[p] \in {0, cb.retained[p]}
    BY <2>2, <2>3 DEF Edited
  <2>5. Healthy /\ cb.pc = "replay" /\ ~Nothing /\ w' = w
    BY <1>4, <2>2 DEF Flush, Nothing
  <2>6. sync \in BOOLEAN /\ SendAudio(edits, sync, TRUE)
    BY <2>1
  <2> HIDE DEF edits
  <2>7. Added(Item("AUDIO", cb.epoch, cb.submitted + 1, edits, sync))
    BY <2>3, <2>5, <2>6, SendsTheLine
  <2>8. UNCHANGED <<mode, ctl, w, results, mbox, session, peer, plugin, snap, accepted>>
    BY <1>4 DEF Flush
  <2>9. sync <=> Edited(cb.retained) = Edited(edits)
    BY <2>4
  <2> QED
    BY <1>2, <2>2, <2>3, <2>4, <2>5, <2>6, <2>7, <2>8, <2>9
<1> QED
  BY <1>3, <1>4 DEF Sending

\* What a step does to the line, request by request.
Grown(kind, epoch, ticket, edits, sync) ==
    /\ Len(Upcoming') = Len(Upcoming) + 1
    /\ \A i \in 1 .. Len(Upcoming) : Upcoming'[i] = Upcoming[i]
    /\ \A i \in 1 .. Len(Upcoming') : i \in 1 .. Len(Upcoming) \/ i = Len(Upcoming) + 1
    /\ Len(Upcoming) + 1 \in 1 .. Len(Upcoming')
    /\ \A i \in 1 .. Len(Upcoming) : i \in 1 .. Len(Upcoming')
    /\ Upcoming'[Len(Upcoming) + 1].kind = kind
    /\ Upcoming'[Len(Upcoming) + 1].epoch = epoch
    /\ Upcoming'[Len(Upcoming) + 1].ticket = ticket
    /\ Upcoming'[Len(Upcoming) + 1].edits = edits
    /\ Upcoming'[Len(Upcoming) + 1].sync <=> sync
Shrunk ==
    /\ Len(Upcoming) > 0 /\ Len(Upcoming') = Len(Upcoming) - 1
    /\ 1 \in 1 .. Len(Upcoming)
    /\ \A i \in 1 .. Len(Upcoming') :
         i + 1 \in 1 .. Len(Upcoming) /\ Upcoming'[i] = Upcoming[i + 1]
    /\ \A i \in 1 .. Len(Upcoming) : i = 1 \/ i - 1 \in 1 .. Len(Upcoming')

\* What a request added means for the line's fields.
LEMMA GrownBy ==
    ASSUME Len(Upcoming) \in Nat, NEW kind \in {"START", "STOP", "AUDIO"}, NEW epoch \in Nat,
           NEW ticket \in Nat, NEW edits \in Values, NEW sync \in BOOLEAN,
           Added(Item(kind, epoch, ticket, edits, sync))
    PROVE  Grown(kind, epoch, ticket, edits, sync)
<1> DEFINE item == Item(kind, epoch, ticket, edits, sync)
<1>1. /\ item.kind = kind /\ item.epoch = epoch /\ item.ticket = ticket
      /\ item.edits = edits /\ item.sync = sync
  BY DEF Item
<1>2. /\ Len(Upcoming') = Len(Upcoming) + 1 /\ Upcoming'[Len(Upcoming) + 1] = item
      /\ \A i \in 1 .. Len(Upcoming) : Upcoming'[i] = Upcoming[i]
  BY DEF Added
<1> HIDE DEF item
<1>3. /\ \A i \in 1 .. Len(Upcoming') : i \in 1 .. Len(Upcoming) \/ i = Len(Upcoming) + 1
      /\ Len(Upcoming) + 1 \in 1 .. Len(Upcoming')
      /\ \A i \in 1 .. Len(Upcoming) : i \in 1 .. Len(Upcoming')
  BY <1>2
<1> QED
  BY <1>1, <1>2, <1>3 DEF Grown

\* What a request taken means for the line's fields.
LEMMA ShrunkBy == ASSUME Len(Upcoming) \in Nat, Removed PROVE Shrunk
  BY DEF Removed, Shrunk

\* The fields of the line's requests.
LEMMA LineFields ==
    ASSUME Typed
    PROVE  /\ Len(Upcoming) \in Nat
           /\ \A i \in 1 .. Len(Upcoming) :
                /\ Upcoming[i] \in Items
                /\ Upcoming[i].kind \in {"none", "START", "STOP", "AUDIO"}
                /\ Upcoming[i].epoch \in Nat /\ Upcoming[i].ticket \in Nat
                /\ Upcoming[i].sync \in BOOLEAN /\ Upcoming[i].edits \in Values
                /\ \A p \in Params : Upcoming[i].edits[p] \in Nat
  BY LineTyped, FieldsTyped

\* Behind the request that was taken the line is as it was.
LEMMA ShrunkRest ==
    ASSUME Shrunk, NEW i \in 1 .. Len(Upcoming), i # 1
    PROVE  \E j \in 1 .. Len(Upcoming') : i = j + 1 /\ Upcoming'[j] = Upcoming[i]
<1> DEFINE j == i - 1
<1>1. j \in 1 .. Len(Upcoming') /\ i = j + 1
  BY DEF Shrunk
<1> HIDE DEF j
<1>2. Upcoming'[j] = Upcoming[i]
  BY <1>1 DEF Shrunk
<1> QED
  BY <1>1, <1>2

\* A bound of the line's values is kept when what is added keeps it.
LEMMA GrownValues ==
    ASSUME NEW kind, NEW epoch, NEW ticket, NEW edits, NEW sync,
           Grown(kind, epoch, ticket, edits, sync), NEW p \in Params, NEW b \in Nat,
           edits[p] <= b, \A i \in 1 .. Len(Upcoming) : Upcoming[i].edits[p] <= b
    PROVE  \A i \in 1 .. Len(Upcoming') : Upcoming'[i].edits[p] <= b
  BY DEF Grown

\* A bound on the edits of the line's requests is one on the rest and on the first.
LEMMA ShrunkValues ==
    ASSUME Shrunk, NEW p \in Params, NEW b \in Nat,
           \A i \in 1 .. Len(Upcoming) : Upcoming[i].edits[p] <= b
    PROVE  /\ \A i \in 1 .. Len(Upcoming') : Upcoming'[i].edits[p] <= b
           /\ Upcoming[1].edits[p] <= b
  BY DEF Shrunk

\* A bound of the line's tickets likewise.
LEMMA GrownTickets ==
    ASSUME NEW kind, NEW epoch, NEW ticket, NEW edits, NEW sync,
           Grown(kind, epoch, ticket, edits, sync), NEW b \in Nat,
           ticket <= b, \A i \in 1 .. Len(Upcoming) : Upcoming[i].ticket <= b
    PROVE  \A i \in 1 .. Len(Upcoming') : Upcoming'[i].ticket <= b
  BY DEF Grown

\* A bound on the tickets of the line's requests is one on the rest and on the first.
LEMMA ShrunkTickets ==
    ASSUME Shrunk, NEW b \in Nat,
           \A i \in 1 .. Len(Upcoming) : Upcoming[i].ticket <= b
    PROVE  /\ \A i \in 1 .. Len(Upcoming') : Upcoming'[i].ticket <= b
           /\ Upcoming[1].ticket <= b
  BY DEF Shrunk

\* A failure and a recovery leave no line.
LEMMA FailingEmpties ==
    ASSUME Failing
    PROVE  Upcoming' = <<>> /\ Len(Upcoming') = 0
<1>1. requests' = <<>> /\ w'.deferred = <<>>
  BY DEF Failing, Fault, Recover, NewWorker
<1>2. Upcoming' = <<>>
  BY <1>1, ConcatEmptySeq DEF Upcoming
<1> QED
  BY <1>2

\* The values made of others.
LEMMA ValuesMade ==
    /\ \A a, b \in Values : Newer(a, b) \in Values
    /\ \A a \in Values : \A P : Restricted(a, P) \in Values
    /\ \A s \in Nat : All(s) \in Values
    /\ NoEdits \in Values
  BY DEF Newer, Restricted, All, NoEdits, Values

\* The requests the callback publishes are requests.
LEMMA ItemsMade ==
    ASSUME NEW kind \in {"none", "START", "STOP", "AUDIO"}, NEW epoch \in Nat,
           NEW ticket \in Nat, NEW edits \in Values, NEW sync \in BOOLEAN
    PROVE  /\ Item(kind, epoch, ticket, edits, sync) \in Items
           /\ Item(kind, epoch, ticket, edits, sync).kind = kind
           /\ Item(kind, epoch, ticket, edits, sync).epoch = epoch
           /\ Item(kind, epoch, ticket, edits, sync).ticket = ticket
           /\ Item(kind, epoch, ticket, edits, sync).edits = edits
           /\ Item(kind, epoch, ticket, edits, sync).sync = sync
  BY DEF Item, Items

\* The initial values are of their types.
LEMMA InitialsTyped ==
    /\ NewCallback \in Callbacks /\ IdleControl \in Calls /\ NewWorker \in Workers
    /\ NewShared \in Words /\ NoMail \in Mails /\ NewPeer \in Peers /\ NoCapture \in Captures
  BY FieldsTyped
  DEF NewCallback, Callbacks, IdleControl, Calls, NewWorker, Workers, Labels, NewShared, Words,
      NoMail, Mails, NewPeer, Peers, NoCapture, Captures

\* A notification only moves the wake word.
LEMMA NotifiedDoes ==
    ASSUME NEW s \in Words
    PROVE  /\ Notified(s) \in Words
           /\ w.pc \in {"pop2", "pwait"} => Notified(s).hint
           /\ Notified(s).pending = s.pending /\ Notified(s).revision = s.revision
           /\ Notified(s).ready = s.ready /\ Notified(s).wanted = s.wanted
           /\ Notified(s).lastEdit = s.lastEdit /\ Notified(s).fault = s.fault
<1>1. CASE w.pc \in {"pop2", "pwait"}
  <2>1. (w.pc \in {"pop2", "pwait"}) = TRUE
    BY <1>1
  <2>2. Notified(s) = [s EXCEPT !.hint = TRUE]
    BY <2>1, Zenon DEF Notified
  <2> QED
    BY <2>2 DEF Words
<1>2. CASE ~(w.pc \in {"pop2", "pwait"})
  <2>1. (w.pc \in {"pop2", "pwait"}) = FALSE
    BY <1>2
  <2>2. Notified(s) = [s EXCEPT !.hint = FALSE]
    BY <2>1, Zenon DEF Notified
  <2>3. /\ Notified(s) \in Words
        /\ Notified(s).pending = s.pending /\ Notified(s).revision = s.revision
        /\ Notified(s).ready = s.ready /\ Notified(s).wanted = s.wanted
        /\ Notified(s).lastEdit = s.lastEdit /\ Notified(s).fault = s.fault
    BY <2>2 DEF Words
  <2> QED
    BY <1>2, <2>3
<1> QED
  BY <1>1, <1>2

\* Lines of one request, and of one result more.
LEMMA OneRequest == ASSUME NEW i \in Items PROVE <<i>> \in Seq(Items) /\ Len(<<i>>) = 1
  OBVIOUS

\* A result published is the last one.
LEMMA OneResult ==
    ASSUME NEW s \in Seq(Results), NEW r \in Results
    PROVE  /\ Append(s, r) \in Seq(Results) /\ Len(Append(s, r)) = Len(s) + 1
           /\ Append(s, r)[Len(s) + 1] = r
           /\ \A j \in 1 .. Len(s) : Append(s, r)[j] = s[j]
  OBVIOUS

\* A result drained was the first one.
LEMMA ResultTaken ==
    ASSUME NEW s \in Seq(Results), s # <<>>
    PROVE  /\ Tail(s) \in Seq(Results) /\ Len(s) > 0 /\ Len(Tail(s)) = Len(s) - 1
           /\ \A j \in 1 .. Len(Tail(s)) : j + 1 \in 1 .. Len(s) /\ Tail(s)[j] = s[j + 1]
  OBVIOUS

\* What is known of each variable's fields.
LEMMA CallbackFields ==
    ASSUME Typed
    PROVE  /\ cb \in Callbacks
           /\ cb.pc \in {"idle", "ready", "replay", "push", "drain"}
           /\ cb.epoch \in Nat /\ cb.epoch + 1 \in Nat
           /\ cb.running \in BOOLEAN /\ cb.flush \in BOOLEAN
           /\ cb.retained \in Values /\ cb.edits \in Values
           /\ cb.sync \in Nat /\ cb.rev \in Nat
           /\ cb.submitted \in Nat /\ cb.submitted + 1 \in Nat
           /\ cb.completed \in Nat /\ cb.completed + 1 \in Nat
  BY DEF Typed, Callbacks

\* The owner's call.
LEMMA CallFields ==
    ASSUME Typed
    PROVE  /\ ctl \in Calls
           /\ ctl.pc \in {"idle", "admit", "wait"} /\ ctl.op \in {0, 16, 18}
           /\ ctl.barrier \in Nat /\ ctl.stamp \in Nat /\ ctl.resume \in BOOLEAN
           /\ ctl.covers \in Values
  BY DEF Typed, Calls

\* The worker.
LEMMA WorkerFields ==
    ASSUME Typed
    PROVE  /\ w \in Workers
           /\ w.pc \in Labels /\ w.item \in Items
           /\ w.item.kind \in {"none", "START", "STOP", "AUDIO"}
           /\ w.item.epoch \in Nat /\ w.item.ticket \in Nat /\ w.item.sync \in BOOLEAN
           /\ w.item.edits \in Values /\ w.overlap \in BOOLEAN
           /\ w.deferred \in Seq(Items) /\ Len(w.deferred) <= 1
  BY DEF Typed, Workers, Items

\* The queue.
LEMMA QueueFields ==
    ASSUME Typed
    PROVE  /\ requests \in Seq(Items) /\ published \in Nat
           /\ Len(requests) \in Nat /\ published + 1 \in Nat
  BY DEF Typed

\* The results.
LEMMA ResultFields ==
    ASSUME Typed
    PROVE  /\ results \in Seq(Results)
           /\ Len(results) \in Nat
  BY DEF Typed

\* The shared words.
LEMMA SharedFields ==
    ASSUME Typed
    PROVE  /\ shared \in Words
           /\ shared.pending \in Nat /\ shared.revision \in Nat /\ shared.revision + 1 \in Nat
           /\ shared.ready \in Nat /\ shared.wanted \in Nat /\ shared.lastEdit \in Nat
           /\ shared.fault \in {"none", "outside", "own"} /\ shared.hint \in BOOLEAN
  BY DEF Typed, Words

\* The mailbox.
LEMMA MailFields ==
    ASSUME Typed
    PROVE  /\ mbox \in Mails
           /\ mbox.st \in {"none", "asked", "answered"} /\ mbox.op \in {0, 16, 18}
           /\ mbox.barrier \in Nat /\ mbox.stamp \in Nat
           /\ mbox.ok \in BOOLEAN /\ mbox.bytes \in Values
  BY DEF Typed, Mails

\* The session.
LEMMA SessionFields ==
    ASSUME Typed
    PROVE  /\ session \in Sessions
           /\ session.running \in BOOLEAN /\ session.epoch \in Nat
  BY DEF Typed, Sessions

\* The peer.
LEMMA PeerFields ==
    ASSUME Typed
    PROVE  /\ peer \in Peers
           /\ peer.start \in {"none", "asked", "acked"} /\ peer.applied \in BOOLEAN
           /\ peer.capture \in Captures /\ peer.capture.bytes \in Values
           /\ peer.capture.st \in {"none", "taken", "done"}
  BY DEF Typed, Peers, Captures

\* The values in the plug-in and those accepted.
LEMMA ValueFields ==
    ASSUME Typed
    PROVE  plugin \in Values /\ accepted \in Values
  BY DEF Typed

\* The snapshot.
LEMMA SnapFields ==
    ASSUME Typed
    PROVE  /\ snap \in Snapshots
           /\ snap.generation \in Nat /\ snap.through \in Nat /\ snap.bytes \in Values
  BY DEF Typed, Snapshots

\* The counts and the mode.
LEMMA ClockFields ==
    ASSUME Typed
    PROVE  /\ clock \in Clocks /\ mode \in Modes
           /\ clock.stamps \in Nat /\ clock.stamps + 1 \in Nat
           /\ clock.saves \in Nat /\ clock.saves + 1 \in Nat
           /\ clock.starts \in Nat /\ clock.starts + 1 \in Nat
           /\ clock.starts + 0 = clock.starts
           /\ clock.requests \in Nat /\ clock.requests + 1 \in Nat
           /\ clock.generation \in Nat \ {0} /\ clock.generation + 1 \in Nat \ {0}
  BY DEF Typed, Clocks

\* A block outside the stream: its values are retained.
LEMMA RetainEffect ==
    ASSUME IInv, Retain
    PROVE  /\ Typed' /\ cb.pc = "ready" /\ Healthy /\ cb.running
           /\ cb.rev = shared.revision /\ ~mode.offline /\ shared.ready # cb.epoch
           /\ Upcoming' = Upcoming /\ cb'.pc = "idle"
           /\ \A p \in Params : cb'.retained[p] =
                  IF cb.edits[p] # 0 THEN cb.edits[p] ELSE cb.retained[p]
           /\ cb'.edits = NoEdits /\ ~cb'.flush
           /\ shared'.pending = IF Edited(cb.edits) = {} THEN shared.pending ELSE cb.epoch
           /\ \A p \in Params : accepted'[p] =
                  IF cb.edits[p] # 0 THEN cb.edits[p] ELSE accepted[p]
           /\ UNCHANGED <<mode, ctl, w, requests, published, results, mbox, session, peer, plugin,
                          snap, clock, cb.epoch, cb.running, cb.sync, cb.rev,
                          cb.submitted, cb.completed, shared.revision, shared.ready,
                          shared.wanted, shared.lastEdit, shared.fault, shared.hint>>
<1>t. Typed /\ CallInv /\ CallbackInv /\ FaultInv
  BY DEF IInv
<1>g. /\ cb.pc = "ready" /\ Healthy /\ cb.running /\ cb.rev = shared.revision
      /\ ~mode.offline /\ shared.ready # cb.epoch
  BY <1>t DEF Retain, Return, CallbackInv, CallInv, FaultInv, IdleControl
<1>r. /\ cb' = [cb EXCEPT !.pc = "idle", !.retained = Newer(cb.retained, cb.edits), !.edits = NoEdits, !.flush = FALSE]
      /\ shared' = IF Edited(cb.edits) = {} THEN shared
                        ELSE [shared EXCEPT !.pending = cb.epoch]
      /\ accepted' = Newer(accepted, cb.edits)
      /\ UNCHANGED <<mode, ctl, w, requests, published, results, mbox, session, peer,
                    plugin, snap, clock>>
  BY <1>t, <1>g DEF Retain, Return
<1>1. Upcoming' = Upcoming
  BY Quiet DEF Listening
<1>y. Typed'
  BY <1>t, <1>g, <1>r, CallbackFields, ValuesMade, SharedFields, ValueFields DEF Typed,
     Callbacks, Newer, Words
<1> QED
  BY <1>t, <1>g, <1>r, <1>y, <1>1, CallbackFields, ValuesMade, SharedFields,
     ValueFields DEF Callbacks, Newer, Words

\* The start is acknowledged.
LEMMA ReadyEffect ==
    ASSUME IInv, Ready
    PROVE  /\ Typed' /\ cb.pc = "ready" /\ Healthy /\ cb.running
           /\ cb.rev = shared.revision /\ Prepared /\ Upcoming' = Upcoming
           /\ cb'.pc = IF cb.sync = 0 /\ shared.pending # 0 THEN "replay" ELSE "push"
           /\ shared'.pending =
                  IF cb.sync = 0 /\ shared.pending # 0 /\ ~Nothing THEN cb.epoch ELSE shared.pending
           /\ UNCHANGED <<mode, ctl, w, requests, published, results, mbox, session, peer, plugin,
                          snap, clock, accepted, cb.epoch, cb.running, cb.retained,
                          cb.sync, cb.rev, cb.submitted, cb.completed, cb.edits,
                          cb.flush, shared.revision, shared.ready, shared.wanted,
                          shared.lastEdit, shared.fault, shared.hint>>
<1>t. Typed /\ CallInv /\ CallbackInv /\ FaultInv
  BY DEF IInv
<1>g. /\ cb.pc = "ready" /\ Healthy /\ cb.running /\ cb.rev = shared.revision
      /\ Prepared
  BY <1>t DEF Ready, Nothing, Prepared, CallbackInv, CallInv, FaultInv, IdleControl
<1>r. /\ cb' = [cb EXCEPT !.pc = IF cb.sync = 0 /\ shared.pending # 0 THEN "replay" ELSE "push"]
      /\ shared' = IF cb.sync = 0 /\ shared.pending # 0 /\ ~Nothing
                        THEN [shared EXCEPT !.pending = cb.epoch] ELSE shared
      /\ UNCHANGED <<mode, ctl, w, requests, published, results, mbox, session, peer,
                    plugin, snap, clock, accepted>>
  BY <1>t, <1>g DEF Ready, Nothing, Prepared
<1>1. Upcoming' = Upcoming
  BY Quiet DEF Listening
<1>y. Typed'
  BY <1>t, <1>g, <1>r, CallbackFields, SharedFields DEF Typed, Callbacks, Words
<1> QED
  BY <1>t, <1>g, <1>r, <1>y, <1>1, CallbackFields, SharedFields DEF Callbacks, Words

\* Every packet of the replay is sent.
LEMMA FlushedEffect ==
    ASSUME IInv, Flushed
    PROVE  /\ Typed' /\ cb.pc = "replay" /\ Healthy /\ cb.running
           /\ cb.rev = shared.revision /\ Nothing /\ Upcoming' = Upcoming
           /\ cb'.pc = "push"
           /\ cb'.sync = IF cb.completed < cb.submitted THEN cb.submitted ELSE cb.sync
           /\ shared'.pending =
                  IF cb.submitted <= cb.completed /\ shared.pending = cb.epoch THEN 0 ELSE shared.pending
           /\ UNCHANGED <<mode, ctl, w, requests, published, results, mbox, session, peer, plugin,
                          snap, clock, accepted, cb.epoch, cb.running, cb.retained,
                          cb.rev, cb.submitted, cb.completed, cb.edits, cb.flush,
                          shared.revision, shared.ready, shared.wanted,
                          shared.lastEdit, shared.fault, shared.hint>>
<1>t. Typed /\ CallInv /\ CallbackInv /\ FaultInv
  BY DEF IInv
<1>g. /\ cb.pc = "replay" /\ Healthy /\ cb.running /\ cb.rev = shared.revision
      /\ Nothing
  BY <1>t DEF Flushed, Acknowledged, Nothing, CallbackInv, CallInv, FaultInv, IdleControl
<1>r. /\ cb' = IF cb.completed < cb.submitted
                    THEN [cb EXCEPT !.pc = "push", !.sync = cb.submitted]
                    ELSE [cb EXCEPT !.pc = "push"]
      /\ shared' = IF ~(cb.completed < cb.submitted) /\ shared.pending = cb.epoch
                        THEN [shared EXCEPT !.pending = 0] ELSE shared
      /\ UNCHANGED <<mode, ctl, w, requests, published, results, mbox, session, peer,
                    plugin, snap, clock, accepted>>
  BY <1>t, <1>g DEF Flushed, Acknowledged, Nothing
<1>1. /\ cb' \in Callbacks /\ cb'.pc = "push"
      /\ cb'.sync = IF cb.completed < cb.submitted THEN cb.submitted ELSE cb.sync
      /\ UNCHANGED <<cb.epoch, cb.running, cb.retained, cb.rev, cb.submitted,
                    cb.completed, cb.edits, cb.flush>>
  BY <1>t, <1>g, <1>r, CallbackFields DEF Callbacks
<1>2. /\ shared' \in Words
      /\ shared'.pending =
             IF cb.submitted <= cb.completed /\ shared.pending = cb.epoch THEN 0 ELSE shared.pending
      /\ UNCHANGED <<shared.revision, shared.ready, shared.wanted, shared.lastEdit,
                    shared.fault, shared.hint>>
  BY <1>t, <1>g, <1>r, SharedFields, CallbackFields DEF Words
<1>3. Upcoming' = Upcoming
  BY Quiet DEF Listening
<1>y. Typed'
  BY <1>t, <1>r, <1>1, <1>2, <1>3 DEF Typed
<1> QED
  BY <1>g, <1>r, <1>y, <1>1, <1>2, <1>3

\* One result is taken.
LEMMA DrainEffect ==
    ASSUME IInv, Drain
    PROVE  /\ Typed' /\ cb.pc = "drain" /\ Healthy /\ cb.running
           /\ cb.rev = shared.revision /\ results # <<>> /\ Upcoming' = Upcoming
           /\ cb'.sync = IF cb.sync # 0 /\ cb.sync <= cb.completed + 1 THEN 0 ELSE cb.sync
           /\ cb'.completed = cb.completed + 1 /\ results' = Tail(results)
           /\ shared'.pending =
                  IF cb.sync # 0 /\ cb.sync <= cb.completed + 1 /\ shared.pending = cb.epoch THEN 0 ELSE shared.pending
           /\ results' \in Seq(Results)
           /\ Len(results) > 0 /\ Len(results') = Len(results) - 1
           /\ \A j \in 1 .. Len(results') : j + 1 \in 1 .. Len(results) /\ results'[j] = results[j + 1]
           /\ UNCHANGED <<mode, ctl, w, requests, published, mbox, session, peer, plugin, snap,
                          clock, accepted, cb.pc, cb.epoch, cb.running, cb.retained,
                          cb.rev, cb.submitted, cb.edits, cb.flush, shared.revision,
                          shared.ready, shared.wanted, shared.lastEdit, shared.fault,
                          shared.hint>>
<1>t. Typed /\ CallInv /\ CallbackInv /\ FaultInv
  BY DEF IInv
<1>g. /\ cb.pc = "drain" /\ Healthy /\ cb.running /\ cb.rev = shared.revision
      /\ results # <<>>
  BY <1>t, DrainDoes DEF Acknowledged, CallbackInv, CallInv, FaultInv, IdleControl
<1>r. /\ cb' = [cb EXCEPT !.completed = cb.completed + 1,
                                !.sync =
                                       IF cb.sync # 0 /\ cb.completed + 1 >= cb.sync THEN 0 ELSE @]
      /\ results' = Tail(results)
      /\ shared' = IF cb.sync # 0 /\ cb.completed + 1 >= cb.sync /\ shared.pending = cb.epoch
                        THEN [shared EXCEPT !.pending = 0] ELSE shared
      /\ UNCHANGED <<mode, ctl, w, requests, published, mbox, session, peer, plugin,
                    snap, clock, accepted>>
  BY <1>t, <1>g, DrainDoes DEF Acknowledged
<1>1. Upcoming' = Upcoming
  BY Quiet DEF Listening
<1>2. /\ results' \in Seq(Results)
      /\ Len(results) > 0 /\ Len(results') = Len(results) - 1
      /\ \A j \in 1 .. Len(results') : j + 1 \in 1 .. Len(results) /\ results'[j] = results[j + 1]
  BY <1>t, <1>g, <1>r, ResultTaken, ResultFields
<1>y. Typed'
  BY <1>t, <1>g, <1>r, <1>2, CallbackFields, ResultFields, SharedFields DEF Typed,
     Callbacks, Results, Words
<1> QED
  BY <1>t, <1>g, <1>r, <1>y, <1>1, <1>2, CallbackFields, ResultFields, SharedFields
     DEF Callbacks, Results, Words

\* No result is left: the block returns, or the next packet follows.
LEMMA DrainedEffect ==
    ASSUME IInv, Drained
    PROVE  /\ Typed' /\ cb.pc = "drain" /\ Healthy /\ cb.running
           /\ cb.rev = shared.revision /\ results = <<>> /\ Upcoming' = Upcoming
           /\ cb'.pc = IF cb.flush THEN "replay" ELSE "idle"
           /\ cb'.edits = IF cb.flush THEN cb.edits ELSE NoEdits
           /\ ~cb'.flush
           /\ cb.flush => accepted' = accepted
           /\ ~cb.flush => \A p \in Params : accepted'[p] =
                  IF cb.edits[p] # 0 THEN cb.edits[p] ELSE accepted[p]
           /\ UNCHANGED <<mode, ctl, w, requests, published, results, shared, mbox, session, peer,
                          plugin, snap, clock, cb.epoch, cb.running, cb.retained,
                          cb.sync, cb.rev, cb.submitted, cb.completed>>
<1>t. Typed /\ CallInv /\ CallbackInv /\ FaultInv
  BY DEF IInv
<1>g. /\ cb.pc = "drain" /\ Healthy /\ cb.running /\ cb.rev = shared.revision
      /\ results = <<>>
  BY <1>t DEF Drained, Return, CallbackInv, CallInv, FaultInv, IdleControl
<1>r. /\ cb' = IF cb.flush THEN [cb EXCEPT !.pc = "replay", !.flush = FALSE]
                    ELSE [cb EXCEPT !.pc = "idle", !.edits = NoEdits, !.flush = FALSE]
      /\ accepted' = IF cb.flush THEN accepted ELSE Newer(accepted, cb.edits)
      /\ UNCHANGED <<mode, ctl, w, requests, published, results, shared, mbox, session,
                    peer, plugin, snap, clock>>
  BY <1>t, <1>g DEF Drained, Return
<1>1. Upcoming' = Upcoming
  BY Quiet DEF Listening
<1>y. Typed'
  BY <1>t, <1>g, <1>r, CallbackFields, ValuesMade, ValueFields DEF Typed, Callbacks, Newer
<1> QED
  BY <1>t, <1>g, <1>r, <1>y, <1>1, CallbackFields, ValuesMade, ValueFields DEF Callbacks, Newer

\* The DAW starts processing.
LEMMA TurnOnEffect ==
    ASSUME IInv, TurnOn
    PROVE  /\ Typed' /\ Healthy /\ ~cb.running /\ cb.pc = "idle"
           /\ clock.starts < MaxEpochs /\ clock.requests < MaxPublished /\ ctl.op # 18
           /\ Added(Item("START", cb.epoch + 1, 0, NoEdits, FALSE))
           /\ Grown("START", cb.epoch + 1, 0, NoEdits, FALSE) /\ cb'.epoch = cb.epoch + 1
           /\ cb'.running /\ cb'.sync = 0 /\ cb'.submitted = 0 /\ cb'.completed = 0
           /\ shared'.wanted = cb.epoch + 1
           /\ w.pc \in {"pop2", "pwait"} => shared'.hint
           /\ published' = published + 1 /\ results' = <<>>
           /\ clock'.starts = clock.starts + 1 /\ clock'.requests = clock.requests + 1
           /\ requests' \in Seq(Items) /\ Len(requests') = Len(requests) + 1
           /\ UNCHANGED <<mode, ctl, w, mbox, session, peer, plugin, snap, accepted, cb.pc,
                          cb.retained, cb.rev, cb.edits, cb.flush, shared.pending,
                          shared.revision, shared.ready, shared.lastEdit,
                          shared.fault, clock.stamps, clock.saves, clock.generation>>
<1>t. Typed /\ CallInv /\ CallbackInv /\ FaultInv
  BY DEF IInv
<1>g. /\ Healthy /\ ~cb.running /\ cb.pc = "idle" /\ clock.starts < MaxEpochs
      /\ clock.requests < MaxPublished /\ ctl.op # 18
  BY <1>t DEF TurnOn, Start, Started, Counted, Notified, Push, Free, CallbackInv, CallInv,
     FaultInv, IdleControl
<1>r. /\ cb' = [cb EXCEPT !.epoch = cb.epoch + 1, !.running = TRUE, !.sync = 0, !.submitted = 0, !.completed = 0]
      /\ shared' = Notified([shared EXCEPT !.wanted = cb.epoch + 1])
      /\ published' = published + 1
      /\ results' = <<>>
      /\ clock' = [clock EXCEPT !.requests = clock.requests + 1, !.starts = clock.starts + 1]
      /\ UNCHANGED <<mode, ctl, w, mbox, session, peer, plugin, snap, accepted>>
  BY <1>t, <1>g DEF TurnOn, Start, Started, Counted, Notified, Push, Free
<1>1. /\ cb' \in Callbacks /\ cb'.epoch = cb.epoch + 1 /\ cb'.running
      /\ cb'.sync = 0 /\ cb'.submitted = 0 /\ cb'.completed = 0
      /\ UNCHANGED <<cb.pc, cb.retained, cb.rev, cb.edits, cb.flush>>
  BY <1>t, <1>g, <1>r, CallbackFields DEF Callbacks
<1>2. /\ shared' \in Words /\ shared'.wanted = cb.epoch + 1
      /\ w.pc \in {"pop2", "pwait"} => shared'.hint
      /\ UNCHANGED <<shared.pending, shared.revision, shared.ready, shared.lastEdit,
                    shared.fault>>
  <2> DEFINE s == [shared EXCEPT !.wanted = cb.epoch + 1]
  <2>1. /\ s \in Words /\ s.wanted = cb.epoch + 1
        /\ s.pending = shared.pending /\ s.revision = shared.revision /\ s.ready = shared.ready
        /\ s.lastEdit = shared.lastEdit /\ s.fault = shared.fault
    BY <1>t, CallbackFields, SharedFields DEF Words
  <2> HIDE DEF s
  <2>2. shared' = Notified(s)
    BY <1>r DEF s
  <2> QED
    BY <2>1, <2>2, NotifiedDoes
<1>3. /\ published' \in Nat /\ published' = published + 1
  BY <1>t, <1>g, <1>r, QueueFields
<1>4. /\ results' \in Seq(Results) /\ results' = <<>>
  BY <1>t, <1>g, <1>r, ResultFields DEF Results
<1>5. /\ clock' \in Clocks /\ clock'.starts = clock.starts + 1
      /\ clock'.requests = clock.requests + 1
      /\ UNCHANGED <<clock.stamps, clock.saves, clock.generation>>
  BY <1>t, <1>g, <1>r, ClockFields DEF Clocks
<1>6. Added(Item("START", cb.epoch + 1, 0, NoEdits, FALSE))
  BY StartsTheLine DEF Opening
<1>7. Grown("START", cb.epoch + 1, 0, NoEdits, FALSE)
  BY <1>6, <1>t, Line, CallbackFields, FieldsTyped, GrownBy
<1>8. /\ requests' \in Seq(Items) /\ Len(requests') = Len(requests) + 1
  BY <1>r, StartsTheLine DEF Opening
<1>y. Typed'
  BY <1>t, <1>r, <1>1, <1>2, <1>3, <1>4, <1>5, <1>6, <1>7, <1>8 DEF Typed
<1> QED
  BY <1>g, <1>r, <1>y, <1>1, <1>2, <1>3, <1>4, <1>5, <1>6, <1>7, <1>8

\* The answered restore starts processing again.
LEMMA AnswerStartingEffect ==
    ASSUME IInv, AnswerStarting
    PROVE  /\ Typed' /\ Healthy /\ ~cb.running /\ cb.pc = "idle"
           /\ clock.starts < MaxEpochs /\ clock.requests < MaxPublished /\ ctl.pc = "wait"
           /\ mbox.st = "answered"
           /\ Added(Item("START", cb.epoch + 1, 0, NoEdits, FALSE))
           /\ Grown("START", cb.epoch + 1, 0, NoEdits, FALSE) /\ cb'.epoch = cb.epoch + 1
           /\ cb'.running /\ cb'.sync = 0 /\ cb'.submitted = 0 /\ cb'.completed = 0
           /\ shared'.wanted = cb.epoch + 1
           /\ w.pc \in {"pop2", "pwait"} => shared'.hint
           /\ published' = published + 1 /\ results' = <<>>
           /\ clock'.starts = clock.starts + 1 /\ clock'.requests = clock.requests + 1
           /\ mbox'.st = "none" /\ mbox'.op = 0 /\ mbox'.barrier = 0 /\ mbox'.stamp = 0
           /\ mbox'.bytes = NoEdits /\ ctl'.pc = "idle" /\ ctl'.op = 0 /\ ctl'.barrier = 0
           /\ ctl'.stamp = 0 /\ ~ctl'.resume /\ ctl'.covers = NoEdits
           /\ mbox.op = 18 => \A p \in Params : accepted'[p] = mbox.stamp
           /\ mbox.op # 18 => accepted' = accepted
           /\ requests' \in Seq(Items) /\ Len(requests') = Len(requests) + 1
           /\ ctl' = IdleControl
           /\ UNCHANGED <<mode, w, session, peer, plugin, snap, cb.pc, cb.retained, cb.rev,
                          cb.edits, cb.flush, shared.pending, shared.revision,
                          shared.ready, shared.lastEdit, shared.fault, clock.stamps,
                          clock.saves, clock.generation>>
<1>t. Typed /\ CallInv /\ CallbackInv /\ FaultInv
  BY DEF IInv
<1>g. /\ Healthy /\ ~cb.running /\ cb.pc = "idle" /\ clock.starts < MaxEpochs
      /\ clock.requests < MaxPublished /\ ctl.pc = "wait" /\ mbox.st = "answered"
  BY <1>t DEF AnswerStarting, TakeAnswer, Start, Started, Counted, Notified, Push,
     CallbackInv, CallInv, FaultInv, IdleControl
<1>r. /\ cb' = [cb EXCEPT !.epoch = cb.epoch + 1, !.running = TRUE, !.sync = 0, !.submitted = 0, !.completed = 0]
      /\ shared' = Notified([shared EXCEPT !.wanted = cb.epoch + 1])
      /\ published' = published + 1
      /\ results' = <<>>
      /\ clock' = [clock EXCEPT !.requests = clock.requests + 1, !.starts = clock.starts + 1]
      /\ mbox' = NoMail
      /\ ctl' = IdleControl
      /\ accepted' = IF mbox.op = 18 THEN All(mbox.stamp) ELSE accepted
      /\ UNCHANGED <<mode, w, session, peer, plugin, snap>>
  BY <1>t, <1>g DEF AnswerStarting, TakeAnswer, Start, Started, Counted, Notified, Push
<1>1. /\ cb' \in Callbacks /\ cb'.epoch = cb.epoch + 1 /\ cb'.running
      /\ cb'.sync = 0 /\ cb'.submitted = 0 /\ cb'.completed = 0
      /\ UNCHANGED <<cb.pc, cb.retained, cb.rev, cb.edits, cb.flush>>
  BY <1>t, <1>g, <1>r, CallbackFields DEF Callbacks
<1>2. /\ shared' \in Words /\ shared'.wanted = cb.epoch + 1
      /\ w.pc \in {"pop2", "pwait"} => shared'.hint
      /\ UNCHANGED <<shared.pending, shared.revision, shared.ready, shared.lastEdit,
                    shared.fault>>
  <2> DEFINE s == [shared EXCEPT !.wanted = cb.epoch + 1]
  <2>1. /\ s \in Words /\ s.wanted = cb.epoch + 1
        /\ s.pending = shared.pending /\ s.revision = shared.revision /\ s.ready = shared.ready
        /\ s.lastEdit = shared.lastEdit /\ s.fault = shared.fault
    BY <1>t, CallbackFields, SharedFields DEF Words
  <2> HIDE DEF s
  <2>2. shared' = Notified(s)
    BY <1>r DEF s
  <2> QED
    BY <2>1, <2>2, NotifiedDoes
<1>3. /\ published' \in Nat /\ published' = published + 1
  BY <1>t, <1>g, <1>r, QueueFields
<1>4. /\ results' \in Seq(Results) /\ results' = <<>>
  BY <1>t, <1>g, <1>r, ResultFields DEF Results
<1>5. /\ clock' \in Clocks /\ clock'.starts = clock.starts + 1
      /\ clock'.requests = clock.requests + 1
      /\ UNCHANGED <<clock.stamps, clock.saves, clock.generation>>
  BY <1>t, <1>g, <1>r, ClockFields DEF Clocks
<1>6. /\ mbox' \in Mails /\ mbox'.st = "none" /\ mbox'.op = 0 /\ mbox'.barrier = 0
      /\ mbox'.stamp = 0 /\ mbox'.bytes = NoEdits
  BY <1>t, <1>g, <1>r, InitialsTyped DEF Mails, NoMail
<1>7. /\ ctl' \in Calls /\ ctl'.pc = "idle" /\ ctl'.op = 0 /\ ctl'.barrier = 0
      /\ ctl'.stamp = 0 /\ ~ctl'.resume /\ ctl'.covers = NoEdits
  BY <1>t, <1>g, <1>r, InitialsTyped DEF Calls, IdleControl
<1>8. /\ accepted' \in Values
      /\ mbox.op = 18 => \A p \in Params : accepted'[p] = mbox.stamp
      /\ mbox.op # 18 => accepted' = accepted
  BY <1>t, <1>g, <1>r, ValueFields, MailFields, ValuesMade DEF All
<1>9. Added(Item("START", cb.epoch + 1, 0, NoEdits, FALSE))
  BY StartsTheLine DEF Opening
<1>10. Grown("START", cb.epoch + 1, 0, NoEdits, FALSE)
  BY <1>9, <1>t, Line, CallbackFields, FieldsTyped, GrownBy
<1>11. /\ requests' \in Seq(Items) /\ Len(requests') = Len(requests) + 1
      /\ ctl' = IdleControl
  BY <1>r, StartsTheLine DEF Opening
<1>y. Typed'
  BY <1>t, <1>r, <1>1, <1>2, <1>3, <1>4, <1>5, <1>6, <1>7, <1>8, <1>9, <1>10, <1>11 DEF Typed
<1> QED
  BY <1>g, <1>r, <1>y, <1>1, <1>2, <1>3, <1>4, <1>5, <1>6, <1>7, <1>8, <1>9, <1>10, <1>11

\* The DAW stops processing.
LEMMA TurnOffEffect ==
    ASSUME IInv, TurnOff
    PROVE  /\ Typed' /\ Healthy /\ cb.running /\ cb.pc = "idle"
           /\ clock.requests < MaxPublished /\ ctl.op # 18
           /\ Added(Item("STOP", cb.epoch, 0, NoEdits, FALSE))
           /\ Grown("STOP", cb.epoch, 0, NoEdits, FALSE) /\ ~cb'.running
           /\ shared'.wanted = 0
           /\ w.pc \in {"pop2", "pwait"} => shared'.hint
           /\ published' = published + 1 /\ results' = <<>>
           /\ clock'.requests = clock.requests + 1 /\ requests' \in Seq(Items)
           /\ Len(requests') = Len(requests) + 1
           /\ UNCHANGED <<mode, ctl, w, mbox, session, peer, plugin, snap, accepted, cb.pc,
                          cb.epoch, cb.retained, cb.sync, cb.rev, cb.submitted,
                          cb.completed, cb.edits, cb.flush, shared.pending,
                          shared.revision, shared.ready, shared.lastEdit,
                          shared.fault, clock.stamps, clock.saves, clock.starts,
                          clock.generation>>
<1>t. Typed /\ CallInv /\ CallbackInv /\ FaultInv
  BY DEF IInv
<1>g. /\ Healthy /\ cb.running /\ cb.pc = "idle" /\ clock.requests < MaxPublished
      /\ ctl.op # 18
  BY <1>t DEF TurnOff, Stop, Counted, Notified, Push, Free, CallbackInv, CallInv, FaultInv,
     IdleControl
<1>r. /\ cb' = [cb EXCEPT !.running = FALSE]
      /\ shared' = Notified([shared EXCEPT !.wanted = 0])
      /\ published' = published + 1
      /\ results' = <<>>
      /\ clock' = [clock EXCEPT !.requests = @ + 1, !.starts = @ + 0]
      /\ UNCHANGED <<mode, ctl, w, mbox, session, peer, plugin, snap, accepted>>
  BY <1>t, <1>g DEF TurnOff, Stop, Counted, Notified, Push, Free
<1>1. /\ cb' \in Callbacks /\ ~cb'.running
      /\ UNCHANGED <<cb.pc, cb.epoch, cb.retained, cb.sync, cb.rev, cb.submitted,
                    cb.completed, cb.edits, cb.flush>>
  BY <1>t, <1>g, <1>r, CallbackFields DEF Callbacks
<1>2. /\ shared' \in Words /\ shared'.wanted = 0
      /\ w.pc \in {"pop2", "pwait"} => shared'.hint
      /\ UNCHANGED <<shared.pending, shared.revision, shared.ready, shared.lastEdit,
                    shared.fault>>
  <2> DEFINE s == [shared EXCEPT !.wanted = 0]
  <2>1. /\ s \in Words /\ s.wanted = 0
        /\ s.pending = shared.pending /\ s.revision = shared.revision /\ s.ready = shared.ready
        /\ s.lastEdit = shared.lastEdit /\ s.fault = shared.fault
    BY <1>t, CallbackFields, SharedFields DEF Words
  <2> HIDE DEF s
  <2>2. shared' = Notified(s)
    BY <1>r DEF s
  <2> QED
    BY <2>1, <2>2, NotifiedDoes
<1>3. /\ published' \in Nat /\ published' = published + 1
  BY <1>t, <1>g, <1>r, QueueFields
<1>4. /\ results' \in Seq(Results) /\ results' = <<>>
  BY <1>t, <1>g, <1>r, ResultFields DEF Results
<1>5. /\ clock' \in Clocks /\ clock'.requests = clock.requests + 1
      /\ UNCHANGED <<clock.stamps, clock.saves, clock.starts, clock.generation>>
  BY <1>t, <1>g, <1>r, ClockFields DEF Clocks
<1>6. Added(Item("STOP", cb.epoch, 0, NoEdits, FALSE))
  BY StopsTheLine DEF Closing
<1>7. Grown("STOP", cb.epoch, 0, NoEdits, FALSE)
  BY <1>6, <1>t, Line, CallbackFields, FieldsTyped, GrownBy
<1>8. /\ requests' \in Seq(Items) /\ Len(requests') = Len(requests) + 1
  BY <1>r, StopsTheLine DEF Closing
<1>y. Typed'
  BY <1>t, <1>r, <1>1, <1>2, <1>3, <1>4, <1>5, <1>6, <1>7, <1>8 DEF Typed
<1> QED
  BY <1>g, <1>r, <1>y, <1>1, <1>2, <1>3, <1>4, <1>5, <1>6, <1>7, <1>8

\* A restore stops processing first.
LEMMA RestoreRunningEffect ==
    ASSUME IInv, RestoreRunning
    PROVE  /\ Typed' /\ Healthy /\ cb.running /\ cb.pc = "idle"
           /\ clock.requests < MaxPublished /\ ctl.op # 18 /\ ctl.pc = "idle"
           /\ clock.stamps < MaxStamps /\ Added(Item("STOP", cb.epoch, 0, NoEdits, FALSE))
           /\ Grown("STOP", cb.epoch, 0, NoEdits, FALSE) /\ ~cb'.running
           /\ shared'.wanted = 0
           /\ w.pc \in {"pop2", "pwait"} => shared'.hint
           /\ published' = published + 1 /\ results' = <<>>
           /\ clock'.stamps = clock.stamps + 1 /\ clock'.requests = clock.requests + 1
           /\ ctl'.pc = "admit" /\ ctl'.op = 18 /\ ctl'.barrier = published + 1
           /\ ctl'.stamp = clock.stamps + 1 /\ ctl'.resume /\ ctl'.covers = NoEdits
           /\ requests' \in Seq(Items) /\ Len(requests') = Len(requests) + 1
           /\ UNCHANGED <<mode, w, mbox, session, peer, plugin, snap, accepted, cb.pc, cb.epoch,
                          cb.retained, cb.sync, cb.rev, cb.submitted, cb.completed,
                          cb.edits, cb.flush, shared.pending, shared.revision,
                          shared.ready, shared.lastEdit, shared.fault, clock.saves,
                          clock.starts, clock.generation>>
<1>t. Typed /\ CallInv /\ CallbackInv /\ FaultInv
  BY DEF IInv
<1>g. /\ Healthy /\ cb.running /\ cb.pc = "idle" /\ clock.requests < MaxPublished
      /\ ctl.op # 18 /\ ctl.pc = "idle" /\ clock.stamps < MaxStamps
  BY <1>t DEF RestoreRunning, Restore, Stop, Notified, Push, Free, IdleControl, CallbackInv,
     CallInv, FaultInv
<1>r. /\ cb' = [cb EXCEPT !.running = FALSE]
      /\ shared' = Notified([shared EXCEPT !.wanted = 0])
      /\ published' = published + 1
      /\ results' = <<>>
      /\ clock' = [clock EXCEPT !.stamps = clock.stamps + 1, !.requests = clock.requests + 1]
      /\ ctl' = [IdleControl EXCEPT !.pc = "admit", !.op = 18, !.barrier = published',
                                           !.stamp = clock.stamps + 1, !.resume = cb.running]
      /\ UNCHANGED <<mode, w, mbox, session, peer, plugin, snap, accepted>>
  BY <1>t, <1>g DEF RestoreRunning, Restore, Stop, Notified, Push, Free, IdleControl
<1>1. /\ cb' \in Callbacks /\ ~cb'.running
      /\ UNCHANGED <<cb.pc, cb.epoch, cb.retained, cb.sync, cb.rev, cb.submitted,
                    cb.completed, cb.edits, cb.flush>>
  BY <1>t, <1>g, <1>r, CallbackFields DEF Callbacks
<1>2. /\ shared' \in Words /\ shared'.wanted = 0
      /\ w.pc \in {"pop2", "pwait"} => shared'.hint
      /\ UNCHANGED <<shared.pending, shared.revision, shared.ready, shared.lastEdit,
                    shared.fault>>
  <2> DEFINE s == [shared EXCEPT !.wanted = 0]
  <2>1. /\ s \in Words /\ s.wanted = 0
        /\ s.pending = shared.pending /\ s.revision = shared.revision /\ s.ready = shared.ready
        /\ s.lastEdit = shared.lastEdit /\ s.fault = shared.fault
    BY <1>t, CallbackFields, SharedFields DEF Words
  <2> HIDE DEF s
  <2>2. shared' = Notified(s)
    BY <1>r DEF s
  <2> QED
    BY <2>1, <2>2, NotifiedDoes
<1>3. /\ published' \in Nat /\ published' = published + 1
  BY <1>t, <1>g, <1>r, QueueFields
<1>4. /\ results' \in Seq(Results) /\ results' = <<>>
  BY <1>t, <1>g, <1>r, ResultFields DEF Results
<1>5. /\ clock' \in Clocks /\ clock'.stamps = clock.stamps + 1
      /\ clock'.requests = clock.requests + 1
      /\ UNCHANGED <<clock.saves, clock.starts, clock.generation>>
  BY <1>t, <1>g, <1>r, ClockFields DEF Clocks
<1>6. /\ ctl' \in Calls /\ ctl'.pc = "admit" /\ ctl'.op = 18
      /\ ctl'.barrier = published + 1 /\ ctl'.stamp = clock.stamps + 1
      /\ ctl'.resume /\ ctl'.covers = NoEdits
  BY <1>t, <1>g, <1>r, CallFields, ClockFields, QueueFields, ValuesMade, CallbackFields,
     QueueFields DEF Calls, IdleControl
<1>7. Added(Item("STOP", cb.epoch, 0, NoEdits, FALSE))
  BY StopsTheLine DEF Closing
<1>8. Grown("STOP", cb.epoch, 0, NoEdits, FALSE)
  BY <1>7, <1>t, Line, CallbackFields, FieldsTyped, GrownBy
<1>9. /\ requests' \in Seq(Items) /\ Len(requests') = Len(requests) + 1
  BY <1>r, StopsTheLine DEF Closing
<1>y. Typed'
  BY <1>t, <1>r, <1>1, <1>2, <1>3, <1>4, <1>5, <1>6, <1>7, <1>8, <1>9 DEF Typed
<1> QED
  BY <1>g, <1>r, <1>y, <1>1, <1>2, <1>3, <1>4, <1>5, <1>6, <1>7, <1>8, <1>9

\* A restore of a stopped instance.
LEMMA RestoreStoppedEffect ==
    ASSUME IInv, RestoreStopped
    PROVE  /\ Typed' /\ Healthy /\ ~cb.running /\ cb.pc = "idle" /\ ctl.pc = "idle"
           /\ ctl.op # 18 /\ clock.stamps < MaxStamps /\ Upcoming' = Upcoming
           /\ clock'.stamps = clock.stamps + 1 /\ ctl'.pc = "admit" /\ ctl'.op = 18
           /\ ctl'.barrier = published /\ ctl'.stamp = clock.stamps + 1 /\ ~ctl'.resume
           /\ ctl'.covers = NoEdits
           /\ UNCHANGED <<mode, cb, w, requests, published, results, shared, mbox, session, peer,
                          plugin, snap, accepted, clock.saves, clock.starts,
                          clock.requests, clock.generation>>
<1>t. Typed /\ CallInv /\ CallbackInv /\ FaultInv
  BY DEF IInv
<1>g. /\ Healthy /\ ~cb.running /\ cb.pc = "idle" /\ ctl.pc = "idle" /\ ctl.op # 18
      /\ clock.stamps < MaxStamps
  BY <1>t DEF RestoreStopped, Restore, Free, IdleControl, CallbackInv, CallInv, FaultInv
<1>r. /\ clock' = [clock EXCEPT !.stamps = clock.stamps + 1]
      /\ ctl' = [IdleControl EXCEPT !.pc = "admit", !.op = 18, !.barrier = published',
                                           !.stamp = clock.stamps + 1, !.resume = cb.running]
      /\ UNCHANGED <<mode, cb, w, requests, published, results, shared, mbox, session,
                    peer, plugin, snap, accepted>>
  BY <1>t, <1>g DEF RestoreStopped, Restore, Free, IdleControl
<1>1. Upcoming' = Upcoming
  BY Quiet DEF Asking
<1>y. Typed'
  BY <1>t, <1>g, <1>r, ClockFields, CallFields, QueueFields, ValuesMade,
     CallbackFields DEF Typed, Clocks, Calls, IdleControl
<1> QED
  BY <1>t, <1>g, <1>r, <1>y, <1>1, ClockFields, CallFields, QueueFields, ValuesMade,
     CallbackFields DEF Clocks, Calls, IdleControl

\* A save is admitted unless edits are pending.
LEMMA SaveEffect ==
    ASSUME IInv, Save
    PROVE  /\ Typed' /\ Healthy /\ ctl.pc = "idle" /\ clock.saves < MaxSaves
           /\ Upcoming' = Upcoming /\ clock'.saves = clock.saves + 1
           /\ ctl'.pc = IF shared.pending = 0 THEN "admit" ELSE "idle"
           /\ ctl'.op = IF shared.pending = 0 THEN 16 ELSE 0
           /\ ctl'.barrier = IF shared.pending = 0 THEN published ELSE 0
           /\ ctl'.stamp = 0 /\ ~ctl'.resume
           /\ ctl'.covers = IF shared.pending = 0 THEN accepted ELSE NoEdits
           /\ shared.pending # 0 => ctl' = IdleControl
           /\ UNCHANGED <<mode, cb, w, requests, published, results, shared, mbox, session, peer,
                          plugin, snap, accepted, clock.stamps, clock.starts,
                          clock.requests, clock.generation>>
<1>t. Typed /\ CallInv /\ CallbackInv /\ FaultInv
  BY DEF IInv
<1>g. /\ Healthy /\ ctl.pc = "idle" /\ clock.saves < MaxSaves
  BY <1>t DEF Save, IdleControl, CallbackInv, CallInv, FaultInv
<1>r. /\ clock' = [clock EXCEPT !.saves = clock.saves + 1]
      /\ ctl' = IF shared.pending # 0 THEN IdleControl
                     ELSE [IdleControl EXCEPT !.pc = "admit", !.op = 16, !.barrier = published,
                                              !.covers = accepted]
      /\ UNCHANGED <<mode, cb, w, requests, published, results, shared, mbox, session,
                    peer, plugin, snap, accepted>>
  BY <1>t, <1>g DEF Save, IdleControl
<1>1. Upcoming' = Upcoming
  BY Quiet DEF Asking
<1>2. /\ shared.pending # 0 => ctl' = IdleControl
  BY <1>t, <1>g, <1>r
<1>y. Typed'
  BY <1>t, <1>g, <1>r, <1>2, ClockFields, CallFields, SharedFields, ValueFields,
     QueueFields, ValuesMade DEF Typed, Clocks, Calls, IdleControl
<1> QED
  BY <1>t, <1>g, <1>r, <1>y, <1>1, <1>2, ClockFields, CallFields, SharedFields,
     ValueFields, QueueFields, ValuesMade DEF Clocks, Calls, IdleControl

\* The request reaches the mailbox.
LEMMA AdmitEffect ==
    ASSUME IInv, Admit
    PROVE  /\ Typed' /\ ctl.pc = "admit" /\ mbox.st = "none" /\ Healthy
           /\ ctl.op \in {16, 18} /\ Upcoming' = Upcoming /\ ctl'.pc = "wait"
           /\ mbox'.st = "asked" /\ mbox'.op = ctl.op /\ mbox'.barrier = ctl.barrier
           /\ mbox'.stamp = ctl.stamp /\ mbox'.bytes = NoEdits
           /\ shared'.revision = IF ctl.op = 18 THEN shared.revision + 1 ELSE shared.revision
           /\ w.pc \in {"pop2", "pwait"} => shared'.hint
           /\ UNCHANGED <<mode, cb, w, requests, published, results, session, peer, plugin, snap,
                          clock, accepted, ctl.op, ctl.barrier, ctl.stamp, ctl.resume,
                          ctl.covers, shared.pending, shared.ready, shared.wanted,
                          shared.lastEdit, shared.fault>>
<1>t. Typed /\ CallInv /\ CallbackInv /\ FaultInv
  BY DEF IInv
<1>g. /\ ctl.pc = "admit" /\ mbox.st = "none" /\ Healthy /\ ctl.op \in {16, 18}
  BY <1>t DEF Admit, NoMail, Notified, CallbackInv, CallInv, FaultInv, IdleControl
<1>r. /\ ctl' = [ctl EXCEPT !.pc = "wait"]
      /\ mbox' = [NoMail EXCEPT !.st = "asked", !.op = ctl.op, !.barrier = ctl.barrier,
                                    !.stamp = ctl.stamp]
      /\ shared' = Notified([shared EXCEPT !.revision = IF ctl.op = 18 THEN @ + 1 ELSE @])
      /\ UNCHANGED <<mode, cb, w, requests, published, results, session, peer, plugin,
                    snap, clock, accepted>>
  BY <1>t, <1>g DEF Admit, NoMail, Notified
<1>1. /\ shared' \in Words
      /\ shared'.revision = IF ctl.op = 18 THEN shared.revision + 1 ELSE shared.revision
      /\ w.pc \in {"pop2", "pwait"} => shared'.hint
      /\ UNCHANGED <<shared.pending, shared.ready, shared.wanted, shared.lastEdit,
                    shared.fault>>
  <2> DEFINE s == [shared EXCEPT !.revision = IF ctl.op = 18 THEN @ + 1 ELSE @]
  <2>1. /\ s \in Words /\ s.revision = IF ctl.op = 18 THEN shared.revision + 1 ELSE shared.revision
        /\ s.pending = shared.pending /\ s.ready = shared.ready /\ s.wanted = shared.wanted
        /\ s.lastEdit = shared.lastEdit /\ s.fault = shared.fault
    BY <1>t, CallbackFields, SharedFields DEF Words
  <2> HIDE DEF s
  <2>2. shared' = Notified(s)
    BY <1>r DEF s
  <2> QED
    BY <2>1, <2>2, NotifiedDoes
<1>2. Upcoming' = Upcoming
  BY Quiet DEF Asking
<1>y. Typed'
  BY <1>t, <1>g, <1>r, <1>1, CallFields, MailFields, ValuesMade DEF Typed, Calls, Mails, NoMail
<1> QED
  BY <1>t, <1>g, <1>r, <1>y, <1>1, <1>2, CallFields, MailFields, ValuesMade DEF Calls,
     Mails, NoMail

\* The answer ends the call.
LEMMA AnswerOnlyEffect ==
    ASSUME IInv, AnswerOnly
    PROVE  /\ Typed' /\ ctl.pc = "wait" /\ mbox.st = "answered" /\ Healthy
           /\ Upcoming' = Upcoming /\ mbox'.st = "none" /\ mbox'.op = 0
           /\ mbox'.barrier = 0 /\ mbox'.stamp = 0 /\ mbox'.bytes = NoEdits
           /\ ctl'.pc = "idle" /\ ctl'.op = 0 /\ ctl'.barrier = 0 /\ ctl'.stamp = 0
           /\ ~ctl'.resume /\ ctl'.covers = NoEdits
           /\ mbox.op = 18 => \A p \in Params : accepted'[p] = mbox.stamp
           /\ mbox.op # 18 => accepted' = accepted
           /\ ctl' = IdleControl
           /\ UNCHANGED <<mode, cb, w, requests, published, results, shared, session, peer, plugin,
                          snap, clock>>
<1>t. Typed /\ CallInv /\ CallbackInv /\ FaultInv
  BY DEF IInv
<1>g. /\ ctl.pc = "wait" /\ mbox.st = "answered" /\ Healthy
  BY <1>t DEF AnswerOnly, TakeAnswer, CallbackInv, CallInv, FaultInv, IdleControl
<1>r. /\ mbox' = NoMail
      /\ ctl' = IdleControl
      /\ accepted' = IF mbox.op = 18 THEN All(mbox.stamp) ELSE accepted
      /\ UNCHANGED <<mode, cb, w, requests, published, results, shared, session, peer,
                    plugin, snap, clock>>
  BY <1>t, <1>g DEF AnswerOnly, TakeAnswer
<1>1. Upcoming' = Upcoming
  BY Quiet DEF Asking
<1>2. /\ ctl' = IdleControl
  BY <1>t, <1>g, <1>r
<1>y. Typed'
  BY <1>t, <1>g, <1>r, <1>2, InitialsTyped, ValueFields, MailFields, ValuesMade DEF Typed,
     Mails, NoMail, Calls, IdleControl, All
<1> QED
  BY <1>t, <1>g, <1>r, <1>y, <1>1, <1>2, InitialsTyped, ValueFields, MailFields,
     ValuesMade DEF Mails, NoMail, Calls, IdleControl, All

\* The Windows side takes a save.
LEMMA BeginCaptureEffect ==
    ASSUME IInv, BeginCapture
    PROVE  /\ Typed' /\ w.pc = "top" /\ Healthy /\ Fenced /\ mbox.st = "asked"
           /\ mbox.op = 16 /\ peer.capture.st = "none" /\ session.running
           /\ Upcoming' = Upcoming /\ peer'.capture.st = "taken"
           /\ UNCHANGED <<mode, cb, ctl, w, requests, published, results, shared, mbox, session,
                          plugin, snap, clock, accepted, peer.start,
                          peer.capture.bytes, peer.applied>>
<1>t. Typed /\ CallInv /\ CallbackInv /\ FaultInv
  BY DEF IInv
<1>g. /\ w.pc = "top" /\ Healthy /\ Fenced /\ mbox.st = "asked" /\ mbox.op = 16
      /\ peer.capture.st = "none" /\ session.running
  BY <1>t DEF BeginCapture, Fenced, CallbackInv, CallInv, FaultInv, IdleControl
<1>r. /\ peer' = [peer EXCEPT !.capture.st = "taken"]
      /\ UNCHANGED <<mode, cb, ctl, w, requests, published, results, shared, mbox,
                    session, plugin, snap, clock, accepted>>
  BY <1>t, <1>g DEF BeginCapture, Fenced
<1>1. Upcoming' = Upcoming
  BY Quiet DEF Capturing
<1>y. Typed'
  BY <1>t, <1>g, <1>r, PeerFields DEF Typed, Peers, Captures
<1> QED
  BY <1>t, <1>g, <1>r, <1>y, <1>1, PeerFields DEF Peers, Captures

\* The capture's reply answers the save at the worker's top.
LEMMA EndCaptureEffect ==
    ASSUME IInv, EndCapture
    PROVE  /\ Typed' /\ w.pc = "top" /\ Healthy /\ Fenced /\ mbox.st = "asked"
           /\ mbox.op = 16 /\ peer.capture.st = "done" /\ Upcoming' = Upcoming
           /\ mbox'.st = "answered" /\ mbox'.bytes = peer.capture.bytes
           /\ shared'.pending = IF mbox.op = 18 THEN 0 ELSE shared.pending
           /\ snap'.generation =
                  IF (mbox.op = 16 => shared.pending = 0) THEN clock.generation ELSE snap.generation
           /\ snap'.through =
                  IF (mbox.op = 16 => shared.pending = 0) THEN mbox.barrier ELSE snap.through
           /\ snap'.bytes =
                  IF (mbox.op = 16 => shared.pending = 0) THEN peer.capture.bytes ELSE snap.bytes
           /\ peer'.capture.st = "none" /\ peer'.capture.bytes = NoEdits /\ w'.pc = "take"
           /\ UNCHANGED <<mode, cb, ctl, requests, published, results, session, plugin, clock,
                          accepted, mbox.op, mbox.barrier, mbox.stamp,
                          shared.revision, shared.ready, shared.wanted,
                          shared.lastEdit, shared.fault, shared.hint, peer.start,
                          peer.applied, w.item, w.deferred, w.overlap>>
<1>t. Typed /\ CallInv /\ CallbackInv /\ FaultInv /\ CaptureInv
  BY DEF IInv
<1>g. /\ w.pc = "top" /\ Healthy /\ Fenced /\ mbox.st = "asked" /\ mbox.op = 16
      /\ peer.capture.st = "done"
  BY <1>t DEF EndCapture, Complete, Fenced, NoCapture, CallbackInv, CallInv, FaultInv,
     IdleControl, CaptureInv, CaptureFenced
<1>r. /\ mbox' = [mbox EXCEPT !.st = "answered", !.ok = (mbox.op = 16 => shared.pending = 0),
                                    !.bytes = peer.capture.bytes]
      /\ shared' = IF mbox.op = 18 THEN [shared EXCEPT !.pending = 0] ELSE shared
      /\ snap' = IF mbox.op = 16 => shared.pending = 0
                      THEN [generation |-> clock.generation, through |-> mbox.barrier,
                            bytes |-> peer.capture.bytes]
                      ELSE snap
      /\ peer' = [peer EXCEPT !.capture = NoCapture]
      /\ w' = [w EXCEPT !.pc = "take"]
      /\ UNCHANGED <<mode, cb, ctl, requests, published, results, session, plugin,
                    clock, accepted>>
  BY <1>t, <1>g DEF EndCapture, Complete, Fenced, NoCapture
<1>1. Upcoming' = Upcoming
  BY Quiet DEF Capturing
<1>y. Typed'
  BY <1>t, <1>g, <1>r, MailFields, SharedFields, PeerFields, SnapFields, ClockFields,
     ValuesMade, WorkerFields, FieldsTyped
  DEF Typed, Mails, Words, Snapshots, Peers, Captures, NoCapture, Workers, Labels
<1> QED
  BY <1>t, <1>g, <1>r, <1>y, <1>1, MailFields, SharedFields, PeerFields, SnapFields,
     ClockFields, ValuesMade, WorkerFields, FieldsTyped
  DEF Mails, Words, Snapshots, Peers, Captures, NoCapture, Workers, Labels

\* The capture's reply comes while AUDIO is in flight.
LEMMA CaptureInAudioEffect ==
    ASSUME IInv, CaptureInAudio
    PROVE  /\ Typed' /\ w.pc = "audio" /\ Healthy /\ mbox.st = "asked" /\ mbox.op = 16
           /\ peer.capture.st = "done" /\ Upcoming' = Upcoming /\ mbox'.st = "answered"
           /\ mbox'.bytes = peer.capture.bytes
           /\ shared'.pending = IF mbox.op = 18 THEN 0 ELSE shared.pending
           /\ snap'.generation =
                  IF (mbox.op = 16 => shared.pending = 0) THEN clock.generation ELSE snap.generation
           /\ snap'.through =
                  IF (mbox.op = 16 => shared.pending = 0) THEN mbox.barrier ELSE snap.through
           /\ snap'.bytes =
                  IF (mbox.op = 16 => shared.pending = 0) THEN peer.capture.bytes ELSE snap.bytes
           /\ peer'.capture.st = "none" /\ peer'.capture.bytes = NoEdits
           /\ UNCHANGED <<mode, cb, ctl, w, requests, published, results, session, plugin, clock,
                          accepted, mbox.op, mbox.barrier, mbox.stamp,
                          shared.revision, shared.ready, shared.wanted,
                          shared.lastEdit, shared.fault, shared.hint, peer.start,
                          peer.applied>>
<1>t. Typed /\ CallInv /\ CallbackInv /\ FaultInv /\ CaptureInv
  BY DEF IInv
<1>g. /\ w.pc = "audio" /\ Healthy /\ mbox.st = "asked" /\ mbox.op = 16
      /\ peer.capture.st = "done"
  BY <1>t DEF CaptureInAudio, Complete, NoCapture, CallbackInv, CallInv, FaultInv,
     IdleControl, CaptureInv, CaptureFenced
<1>r. /\ mbox' = [mbox EXCEPT !.st = "answered", !.ok = (mbox.op = 16 => shared.pending = 0),
                                    !.bytes = peer.capture.bytes]
      /\ shared' = IF mbox.op = 18 THEN [shared EXCEPT !.pending = 0] ELSE shared
      /\ snap' = IF mbox.op = 16 => shared.pending = 0
                      THEN [generation |-> clock.generation, through |-> mbox.barrier,
                            bytes |-> peer.capture.bytes]
                      ELSE snap
      /\ peer' = [peer EXCEPT !.capture = NoCapture]
      /\ UNCHANGED <<mode, cb, ctl, w, requests, published, results, session, plugin,
                    clock, accepted>>
  BY <1>t, <1>g DEF CaptureInAudio, Complete, NoCapture
<1>1. Upcoming' = Upcoming
  BY Quiet DEF Capturing
<1>y. Typed'
  BY <1>t, <1>g, <1>r, MailFields, SharedFields, PeerFields, SnapFields, ClockFields,
     ValuesMade DEF Typed, Mails, Words, Snapshots, Peers, Captures, NoCapture
<1> QED
  BY <1>t, <1>g, <1>r, <1>y, <1>1, MailFields, SharedFields, PeerFields, SnapFields,
     ClockFields, ValuesMade DEF Mails, Words, Snapshots, Peers, Captures, NoCapture

\* The state of a component that is not processing is read or set.
LEMMA ComponentStateEffect ==
    ASSUME IInv, ComponentState
    PROVE  /\ Typed' /\ w.pc = "top" /\ Healthy /\ Fenced /\ mbox.st = "asked"
           /\ mbox.op \in {16, 18} /\ ~session.running /\ peer.capture.st = "none"
           /\ Upcoming' = Upcoming /\ mbox'.st = "answered" /\ mbox'.bytes = plugin'
           /\ shared'.pending = IF mbox.op = 18 THEN 0 ELSE shared.pending
           /\ snap'.generation =
                  IF (mbox.op = 16 => shared.pending = 0) THEN clock.generation ELSE snap.generation
           /\ snap'.through =
                  IF (mbox.op = 16 => shared.pending = 0) THEN mbox.barrier ELSE snap.through
           /\ snap'.bytes = IF (mbox.op = 16 => shared.pending = 0) THEN plugin' ELSE snap.bytes
           /\ mbox.op = 18 => \A p \in Params : plugin'[p] = mbox.stamp
           /\ mbox.op # 18 => plugin' = plugin
           /\ w'.pc = "take"
           /\ UNCHANGED <<mode, cb, ctl, requests, published, results, session, peer, clock,
                          accepted, mbox.op, mbox.barrier, mbox.stamp,
                          shared.revision, shared.ready, shared.wanted,
                          shared.lastEdit, shared.fault, shared.hint, w.item,
                          w.deferred, w.overlap>>
<1>t. Typed /\ CallInv /\ CallbackInv /\ FaultInv
  BY DEF IInv
<1>g. /\ w.pc = "top" /\ Healthy /\ Fenced /\ mbox.st = "asked"
      /\ mbox.op \in {16, 18} /\ ~session.running /\ peer.capture.st = "none"
  BY <1>t, ComponentStateDoes DEF Complete, Fenced, CallbackInv, CallInv, FaultInv, IdleControl
<1>r. /\ mbox' = [mbox EXCEPT !.st = "answered", !.ok = (mbox.op = 16 => shared.pending = 0),
                                    !.bytes = plugin']
      /\ shared' = IF mbox.op = 18 THEN [shared EXCEPT !.pending = 0] ELSE shared
      /\ snap' = IF mbox.op = 16 => shared.pending = 0
                      THEN [generation |-> clock.generation, through |-> mbox.barrier,
                            bytes |-> plugin']
                      ELSE snap
      /\ plugin' = IF mbox.op = 18 THEN All(mbox.stamp) ELSE plugin
      /\ w' = [w EXCEPT !.pc = "take"]
      /\ UNCHANGED <<mode, cb, ctl, requests, published, results, session, peer, clock,
                    accepted>>
  BY <1>t, <1>g, ComponentStateDoes DEF Complete, Fenced
<1>p. plugin' \in Values
  BY <1>t, <1>r, ValueFields, MailFields, ValuesMade
<1>1. Upcoming' = Upcoming
  BY Quiet DEF Capturing
<1>y. Typed'
  <2>1. /\ mbox' \in Mails /\ snap' \in Snapshots
    BY <1>t, <1>r, <1>p, MailFields, SnapFields, ClockFields DEF Mails, Snapshots
  <2>2. shared' \in Words /\ plugin' \in Values
    BY <1>t, <1>r, <1>p, SharedFields DEF Words
  <2>3. w' \in Workers /\ Len(w'.deferred) <= 1
    BY <1>t, <1>r, WorkerFields DEF Workers, Labels
  <2> QED
    BY <1>t, <1>r, <2>1, <2>2, <2>3 DEF Typed
<1> QED
  BY <1>t, <1>g, <1>r, <1>y, <1>1, <1>p, MailFields, SharedFields, ValueFields,
     SnapFields, ClockFields, ValuesMade, WorkerFields, FieldsTyped
  DEF Mails, Words, Snapshots, All, Workers, Labels

\* The next request is served.
LEMMA TakeNextEffect ==
    ASSUME IInv, TakeNext
    PROVE  /\ Typed' /\ Healthy /\ w.pc \in Between /\ Upcoming[1] \in Items /\ Removed
           /\ Shrunk /\ w'.pc = Served(Upcoming[1]) /\ w'.item = Upcoming[1]
           /\ w'.deferred = <<>> /\ requests' \in Seq(Items)
           /\ Upcoming[1].kind = "AUDIO" => w'.pc = "audio"
           /\ Upcoming[1].kind # "AUDIO" => w'.pc \in {"pstart", "transition"} /\ peer.capture.st = "none"
           /\ w'.pc = "pstart" => Upcoming[1].kind = "START"
           /\ peer'.start \in {peer.start, "asked"}
           /\ UNCHANGED <<mode, cb, ctl, published, results, shared, mbox, session, plugin, snap,
                          clock, accepted, w.overlap, peer.capture.st,
                          peer.capture.bytes, peer.applied>>
<1>t. Typed /\ CallInv /\ CallbackInv /\ FaultInv
  BY DEF IInv
<1>g. /\ Healthy /\ w.pc \in Between /\ Upcoming[1] \in Items
  BY <1>t, TakeNextDoes DEF CallbackInv, CallInv, FaultInv, IdleControl
<1>r. /\ w' = [w EXCEPT !.pc = Served(Upcoming[1]), !.item = Upcoming[1], !.deferred = <<>>]
      /\ peer' = [peer EXCEPT !.start = peer'.start]
      /\ UNCHANGED <<mode, cb, ctl, published, results, shared, mbox, session, plugin,
                    snap, clock, accepted>>
  BY <1>t, <1>g, TakeNextDoes
<1>p. /\ w'.pc \in Labels /\ <<>> \in Seq(Items) /\ Len(<<>>) <= 1
      /\ Served(Upcoming[1]) \in Labels
  BY ServedAs, <1>r, <1>t, WorkerFields DEF Labels
<1>q. peer'.start \in {"none", "asked", "acked"}
  BY <1>t, TakeNextDoes, PeerFields
<1>1. Removed
  BY TakeNextDoes
<1>2. Shrunk
  BY <1>1, Line, ShrunkBy
<1>3. /\ requests' \in Seq(Items)
      /\ Upcoming[1].kind = "AUDIO" => w'.pc = "audio"
      /\ Upcoming[1].kind # "AUDIO" => w'.pc \in {"pstart", "transition"} /\ peer.capture.st = "none"
      /\ w'.pc = "pstart" => Upcoming[1].kind = "START"
      /\ peer'.start \in {peer.start, "asked"}
  BY <1>t, <1>g, <1>r, TakeNextDoes
<1>y. Typed'
  BY <1>t, <1>g, <1>r, <1>3, <1>p, <1>q, WorkerFields, FieldsTyped, PeerFields DEF Typed,
     Workers, Labels, Peers, Captures
<1> QED
  BY <1>t, <1>g, <1>r, <1>y, <1>1, <1>2, <1>3, <1>p, <1>q, WorkerFields, FieldsTyped,
     PeerFields DEF Workers, Labels, Peers, Captures

\* A request overlaps the pending start, or ends the wait for it.
LEMMA PopNextEffect ==
    ASSUME IInv, PopNext
    PROVE  /\ Typed' /\ Healthy /\ w.pc \in {"pop1", "pop2"} /\ Upcoming[1] \in Items
           /\ Upcoming[1].kind \in {"STOP", "AUDIO"} /\ Upcoming[1].epoch = w.item.epoch
           /\ Removed /\ Shrunk
           /\ w'.pc = IF Upcoming[1].kind = "AUDIO" THEN "audio" ELSE "finish"
           /\ w'.item = Upcoming[1]
           /\ w'.overlap <=> (Upcoming[1].kind = "AUDIO")
           /\ ~shared'.hint /\ requests' \in Seq(Items)
           /\ UNCHANGED <<mode, cb, ctl, published, results, mbox, session, peer, plugin, snap,
                          clock, accepted, w.deferred, shared.pending,
                          shared.revision, shared.ready, shared.wanted,
                          shared.lastEdit, shared.fault>>
<1>t. Typed /\ CallInv /\ CallbackInv /\ FaultInv
  BY DEF IInv
<1>g. /\ Healthy /\ w.pc \in {"pop1", "pop2"} /\ Upcoming[1] \in Items
      /\ Upcoming[1].kind \in {"STOP", "AUDIO"} /\ Upcoming[1].epoch = w.item.epoch
  BY <1>t, PopNextDoes DEF CallbackInv, CallInv, FaultInv, IdleControl
<1>r. /\ w' = [w EXCEPT !.pc = IF Upcoming[1].kind = "AUDIO" THEN "audio" ELSE "finish", !.item = Upcoming[1], !.overlap = Upcoming[1].kind = "AUDIO"]
      /\ shared' = [shared EXCEPT !.hint = FALSE]
      /\ UNCHANGED <<mode, cb, ctl, published, results, mbox, session, peer, plugin,
                    snap, clock, accepted>>
  BY <1>t, <1>g, PopNextDoes
<1>1. Removed
  BY PopNextDoes
<1>2. Shrunk
  BY <1>1, Line, ShrunkBy
<1>3. /\ requests' \in Seq(Items)
  BY <1>t, <1>g, <1>r, PopNextDoes
<1>y. Typed'
  BY <1>t, <1>g, <1>r, <1>3, WorkerFields, FieldsTyped, SharedFields DEF Typed, Workers,
     Labels, Words
<1> QED
  BY <1>t, <1>g, <1>r, <1>y, <1>1, <1>2, <1>3, WorkerFields, FieldsTyped, SharedFields
     DEF Workers, Labels, Words

\* A request waits behind a capture.
LEMMA TakeBackEffect ==
    ASSUME IInv, TakeBack
    PROVE  /\ Typed' /\ Healthy /\ w.pc \in Between /\ Upcoming # <<>>
           /\ Upcoming[1] \in Items /\ peer.capture.st # "none" /\ Upcoming' = Upcoming
           /\ w'.pc = "top" /\ w'.item = NoItem /\ w'.deferred = <<Upcoming[1]>>
           /\ requests' \in Seq(Items) /\ Len(requests') = Len(Upcoming) - 1
           /\ UNCHANGED <<mode, cb, ctl, published, results, shared, mbox, session, peer, plugin,
                          snap, clock, accepted, w.overlap>>
<1>t. Typed /\ CallInv /\ CallbackInv /\ FaultInv
  BY DEF IInv
<1>g. /\ Healthy /\ w.pc \in Between /\ Upcoming # <<>> /\ Upcoming[1] \in Items
      /\ peer.capture.st # "none"
  BY <1>t, TakeBackDoes DEF CallbackInv, CallInv, FaultInv, IdleControl
<1>r. /\ w' = [w EXCEPT !.pc = "top", !.item = NoItem, !.deferred = <<Upcoming[1]>>]
      /\ UNCHANGED <<mode, cb, ctl, published, results, shared, mbox, session, peer,
                    plugin, snap, clock, accepted>>
  BY <1>t, <1>g, TakeBackDoes
<1>1. /\ w' \in Workers /\ Len(w'.deferred) <= 1 /\ w'.pc = "top"
      /\ w'.item = NoItem /\ w'.deferred = <<Upcoming[1]>>
      /\ UNCHANGED <<w.overlap>>
  <2> DEFINE d == <<Upcoming[1]>>
  <2>1. d \in Seq(Items) /\ Len(d) <= 1
    BY <1>g, OneRequest
  <2>2. w' = [w EXCEPT !.pc = "top", !.item = NoItem, !.deferred = d]
    BY <1>r
  <2> HIDE DEF d
  <2>3. /\ w' \in Workers /\ Len(w'.deferred) <= 1 /\ w'.pc = "top" /\ w'.item = NoItem
        /\ w'.deferred = d /\ UNCHANGED w.overlap
    BY <1>t, <2>1, <2>2, WorkerFields, FieldsTyped DEF Workers, Labels
  <2> QED
    BY <2>3 DEF d
<1>2. Upcoming' = Upcoming
  BY Quiet DEF PuttingBack
<1>3. /\ requests' \in Seq(Items) /\ Len(requests') = Len(Upcoming) - 1
  BY <1>t, <1>g, <1>r, TakeBackDoes
<1>y. Typed'
  BY <1>t, <1>g, <1>r, <1>1, <1>3 DEF Typed
<1> QED
  BY <1>t, <1>g, <1>r, <1>y, <1>1, <1>2, <1>3

\* A request waits behind a save that precedes it.
LEMMA PopBackEffect ==
    ASSUME IInv, PopBack
    PROVE  /\ Typed' /\ Healthy /\ w.pc \in {"pop1", "pop2"} /\ Upcoming # <<>>
           /\ Upcoming[1] \in Items /\ mbox.st = "asked" /\ mbox.op = 16
           /\ mbox.barrier <= published - Len(requests) /\ Upcoming' = Upcoming
           /\ w'.pc = "finish" /\ w'.deferred = <<Upcoming[1]>> /\ ~shared'.hint
           /\ requests' \in Seq(Items) /\ Len(requests') = Len(Upcoming) - 1
           /\ UNCHANGED <<mode, cb, ctl, published, results, mbox, session, peer, plugin, snap,
                          clock, accepted, w.item, w.overlap, shared.pending,
                          shared.revision, shared.ready, shared.wanted,
                          shared.lastEdit, shared.fault>>
<1>t. Typed /\ CallInv /\ CallbackInv /\ FaultInv
  BY DEF IInv
<1>g. /\ Healthy /\ w.pc \in {"pop1", "pop2"} /\ Upcoming # <<>>
      /\ Upcoming[1] \in Items /\ mbox.st = "asked" /\ mbox.op = 16
      /\ mbox.barrier <= published - Len(requests)
  BY <1>t, PopBackDoes DEF CallbackInv, CallInv, FaultInv, IdleControl, consumed
<1>r. /\ w' = [w EXCEPT !.pc = "finish", !.deferred = <<Upcoming[1]>>]
      /\ shared' = [shared EXCEPT !.hint = FALSE]
      /\ UNCHANGED <<mode, cb, ctl, published, results, mbox, session, peer, plugin,
                    snap, clock, accepted>>
  BY <1>t, <1>g, PopBackDoes
<1>1. /\ w' \in Workers /\ Len(w'.deferred) <= 1 /\ w'.pc = "finish"
      /\ w'.deferred = <<Upcoming[1]>> /\ UNCHANGED <<w.item, w.overlap>>
  <2> DEFINE d == <<Upcoming[1]>>
  <2>1. d \in Seq(Items) /\ Len(d) <= 1
    BY <1>g, OneRequest
  <2>2. w' = [w EXCEPT !.pc = "finish", !.deferred = d]
    BY <1>r
  <2> HIDE DEF d
  <2>3. /\ w' \in Workers /\ Len(w'.deferred) <= 1 /\ w'.pc = "finish" /\ w'.item = w.item
        /\ w'.deferred = d /\ UNCHANGED w.overlap
    BY <1>t, <2>1, <2>2, WorkerFields, FieldsTyped DEF Workers, Labels
  <2> QED
    BY <2>3 DEF d
<1>2. Upcoming' = Upcoming
  BY Quiet DEF PuttingBack
<1>3. /\ requests' \in Seq(Items) /\ Len(requests') = Len(Upcoming) - 1
  BY <1>t, <1>g, <1>r, PopBackDoes
<1>y. Typed'
  BY <1>t, <1>g, <1>r, <1>1, <1>3, SharedFields DEF Typed, Words
<1> QED
  BY <1>t, <1>g, <1>r, <1>y, <1>1, <1>2, <1>3, SharedFields DEF Words

\* The queue is empty.
LEMMA TakeNothingEffect ==
    ASSUME IInv, TakeNothing
    PROVE  /\ Typed' /\ w.pc = "take" /\ Healthy /\ Upcoming = <<>>
           /\ Upcoming' = Upcoming /\ w'.pc = "top"
           /\ UNCHANGED <<mode, cb, ctl, requests, published, results, shared, mbox, session, peer,
                          plugin, snap, clock, accepted, w.item, w.deferred, w.overlap>>
<1>t. Typed /\ CallInv /\ CallbackInv /\ FaultInv
  BY DEF IInv
<1>g. /\ w.pc = "take" /\ Healthy /\ Upcoming = <<>>
  BY <1>t DEF TakeNothing, CallbackInv, CallInv, FaultInv, IdleControl
<1>r. /\ w' = [w EXCEPT !.pc = "top"]
      /\ UNCHANGED <<mode, cb, ctl, requests, published, results, shared, mbox,
                    session, peer, plugin, snap, clock, accepted>>
  BY <1>t, <1>g DEF TakeNothing
<1>1. Upcoming' = Upcoming
  BY Quiet DEF Waiting
<1>y. Typed'
  BY <1>t, <1>g, <1>r, WorkerFields, FieldsTyped DEF Typed, Workers, Labels
<1> QED
  BY <1>t, <1>g, <1>r, <1>y, <1>1, WorkerFields, FieldsTyped DEF Workers, Labels

\* The worker looks after a pending start.
LEMMA PendingStartEffect ==
    ASSUME IInv, PendingStart
    PROVE  /\ Typed' /\ w.pc = "pstart" /\ Healthy /\ Upcoming' = Upcoming
           /\ w'.pc = IF ControlPrecedes(FALSE) THEN "finish" ELSE "pop1"
           /\ w'.pc \in {"finish", "pop1"}
           /\ UNCHANGED <<mode, cb, ctl, requests, published, results, shared, mbox, session, peer,
                          plugin, snap, clock, accepted, w.item, w.deferred, w.overlap>>
<1>t. Typed /\ CallInv /\ CallbackInv /\ FaultInv
  BY DEF IInv
<1>g. /\ w.pc = "pstart" /\ Healthy
  BY <1>t DEF PendingStart, CallbackInv, CallInv, FaultInv, IdleControl
<1>r. /\ w' = [w EXCEPT !.pc = IF ControlPrecedes(FALSE) THEN "finish" ELSE "pop1"]
      /\ UNCHANGED <<mode, cb, ctl, requests, published, results, shared, mbox,
                    session, peer, plugin, snap, clock, accepted>>
  BY <1>t, <1>g DEF PendingStart
<1>1. Upcoming' = Upcoming
  BY Quiet DEF Waiting
<1>2. /\ w'.pc \in {"finish", "pop1"}
  BY <1>t, <1>g, <1>r
<1>y. Typed'
  BY <1>t, <1>g, <1>r, <1>2, WorkerFields, FieldsTyped DEF Typed, Workers, Labels
<1> QED
  BY <1>t, <1>g, <1>r, <1>y, <1>1, <1>2, WorkerFields, FieldsTyped DEF Workers, Labels

\* Nothing overlaps the pending start.
LEMMA PendingEmptyEffect ==
    ASSUME IInv, PendingEmpty
    PROVE  /\ Typed' /\ w.pc \in {"pop1", "pop2"} /\ Healthy /\ requests = <<>>
           /\ Upcoming' = Upcoming
           /\ w'.pc = IF w.pc = "pop1" THEN "poll" ELSE "pwait"
           /\ UNCHANGED <<mode, cb, ctl, requests, published, results, shared, mbox, session, peer,
                          plugin, snap, clock, accepted, w.item, w.deferred, w.overlap>>
<1>t. Typed /\ CallInv /\ CallbackInv /\ FaultInv
  BY DEF IInv
<1>g. /\ w.pc \in {"pop1", "pop2"} /\ Healthy /\ requests = <<>>
  BY <1>t DEF PendingEmpty, CallbackInv, CallInv, FaultInv, IdleControl
<1>r. /\ w' = [w EXCEPT !.pc = IF w.pc = "pop1" THEN "poll" ELSE "pwait"]
      /\ UNCHANGED <<mode, cb, ctl, requests, published, results, shared, mbox,
                    session, peer, plugin, snap, clock, accepted>>
  BY <1>t, <1>g DEF PendingEmpty
<1>1. Upcoming' = Upcoming
  BY Quiet DEF Waiting
<1>y. Typed'
  BY <1>t, <1>g, <1>r, WorkerFields, FieldsTyped DEF Typed, Workers, Labels
<1> QED
  BY <1>t, <1>g, <1>r, <1>y, <1>1, WorkerFields, FieldsTyped DEF Workers, Labels

\* The start is acknowledged, or the wake word is read.
LEMMA PollStartEffect ==
    ASSUME IInv, PollStart
    PROVE  /\ Typed' /\ w.pc = "poll" /\ Healthy /\ Upcoming' = Upcoming
           /\ session'.running <=> (peer.start = "acked" \/ session.running)
           /\ session'.epoch = IF peer.start = "acked" THEN w.item.epoch ELSE session.epoch
           /\ shared'.ready = IF peer.start = "acked" THEN w.item.epoch ELSE shared.ready
           /\ peer'.start = IF peer.start = "acked" THEN "none" ELSE peer.start
           /\ w'.pc = IF peer.start = "acked" THEN "top" ELSE "pop2"
           /\ w'.item = IF peer.start = "acked" THEN NoItem ELSE w.item
           /\ UNCHANGED <<mode, cb, ctl, requests, published, results, mbox, plugin, snap, clock,
                          accepted, shared.pending, shared.revision, shared.wanted,
                          shared.lastEdit, shared.fault, shared.hint, peer.capture.st,
                          peer.capture.bytes, peer.applied, w.deferred, w.overlap>>
<1>t. Typed /\ CallInv /\ CallbackInv /\ FaultInv
  BY DEF IInv
<1>g. /\ w.pc = "poll" /\ Healthy
  BY <1>t DEF PollStart, CommitStart, SetReady, CallbackInv, CallInv, FaultInv, IdleControl
<1>r. /\ session' = IF peer.start = "acked" THEN [running |-> TRUE, epoch |-> w.item.epoch]
                         ELSE session
      /\ shared' =
             IF peer.start = "acked" THEN [shared EXCEPT !.ready = w.item.epoch] ELSE shared
      /\ peer' = IF peer.start = "acked" THEN [peer EXCEPT !.start = "none"] ELSE peer
      /\ w' = IF peer.start = "acked" THEN [w EXCEPT !.pc = "top", !.item = NoItem]
                   ELSE [w EXCEPT !.pc = "pop2"]
      /\ UNCHANGED <<mode, cb, ctl, requests, published, results, mbox, plugin, snap,
                    clock, accepted>>
  BY <1>t, <1>g DEF PollStart, CommitStart, SetReady
<1>1. Upcoming' = Upcoming
  BY Quiet DEF Waiting
<1>y. Typed'
  BY <1>t, <1>g, <1>r, SessionFields, WorkerFields, PeerFields, SharedFields,
     FieldsTyped DEF Typed, Sessions, Words, Peers, Captures, Workers, Labels
<1> QED
  BY <1>t, <1>g, <1>r, <1>y, <1>1, SessionFields, WorkerFields, PeerFields,
     SharedFields, FieldsTyped DEF Sessions, Words, Peers, Captures, Workers, Labels

\* The wait for the start ends.
LEMMA PendingWaitEffect ==
    ASSUME IInv, PendingWait
    PROVE  /\ Typed' /\ w.pc = "pwait" /\ Healthy /\ Upcoming' = Upcoming
           /\ w'.pc = "pstart" /\ ~shared'.hint
           /\ UNCHANGED <<mode, cb, ctl, requests, published, results, mbox, session, peer, plugin,
                          snap, clock, accepted, w.item, w.deferred, w.overlap,
                          shared.pending, shared.revision, shared.ready,
                          shared.wanted, shared.lastEdit, shared.fault>>
<1>t. Typed /\ CallInv /\ CallbackInv /\ FaultInv
  BY DEF IInv
<1>g. /\ w.pc = "pwait" /\ Healthy
  BY <1>t DEF PendingWait, CallbackInv, CallInv, FaultInv, IdleControl
<1>r. /\ w' = [w EXCEPT !.pc = "pstart"]
      /\ shared' = [shared EXCEPT !.hint = FALSE]
      /\ UNCHANGED <<mode, cb, ctl, requests, published, results, mbox, session, peer,
                    plugin, snap, clock, accepted>>
  BY <1>t, <1>g DEF PendingWait
<1>1. Upcoming' = Upcoming
  BY Quiet DEF Waiting
<1>y. Typed'
  BY <1>t, <1>g, <1>r, WorkerFields, FieldsTyped, SharedFields DEF Typed, Workers, Labels, Words
<1> QED
  BY <1>t, <1>g, <1>r, <1>y, <1>1, WorkerFields, FieldsTyped, SharedFields DEF Workers,
     Labels, Words

\* A start or a stop is acknowledged.
LEMMA TransitionEffect ==
    ASSUME IInv, Transition
    PROVE  /\ Typed' /\ w.pc = "transition" /\ Healthy /\ Upcoming' = Upcoming
           /\ session'.running <=> (w.item.kind = "START")
           /\ session'.epoch = IF w.item.kind = "START" THEN w.item.epoch ELSE session.epoch
           /\ shared'.ready = IF w.item.kind = "START" THEN w.item.epoch ELSE 0
           /\ peer'.start = IF w.item.kind = "START" THEN "none" ELSE peer.start
           /\ w'.pc = "top" /\ w'.item = NoItem
           /\ UNCHANGED <<mode, cb, ctl, requests, published, results, mbox, plugin, snap, clock,
                          accepted, shared.pending, shared.revision, shared.wanted,
                          shared.lastEdit, shared.fault, shared.hint, peer.capture.st,
                          peer.capture.bytes, peer.applied, w.deferred, w.overlap>>
<1>t. Typed /\ CallInv /\ CallbackInv /\ FaultInv
  BY DEF IInv
<1>g. /\ w.pc = "transition" /\ Healthy
  BY <1>t DEF Transition, CommitStart, SetReady, CallbackInv, CallInv, FaultInv, IdleControl
<1>r. /\ session' = IF w.item.kind = "START" THEN [running |-> TRUE, epoch |-> w.item.epoch]
                         ELSE [session EXCEPT !.running = FALSE]
      /\ shared' = [shared EXCEPT !.ready = IF w.item.kind = "START" THEN w.item.epoch ELSE 0]
      /\ peer' = IF w.item.kind = "START" THEN [peer EXCEPT !.start = "none"] ELSE peer
      /\ w' = [w EXCEPT !.pc = "top", !.item = NoItem]
      /\ UNCHANGED <<mode, cb, ctl, requests, published, results, mbox, plugin, snap,
                    clock, accepted>>
  BY <1>t, <1>g DEF Transition, CommitStart, SetReady
<1>1. Upcoming' = Upcoming
  BY Quiet DEF Serving
<1>y. Typed'
  BY <1>t, <1>g, <1>r, SessionFields, WorkerFields, SharedFields, PeerFields,
     FieldsTyped DEF Typed, Sessions, Words, Peers, Captures, Workers, Labels
<1> QED
  BY <1>t, <1>g, <1>r, <1>y, <1>1, SessionFields, WorkerFields, SharedFields,
     PeerFields, FieldsTyped DEF Sessions, Words, Peers, Captures, Workers, Labels

\* The pending start is waited for.
LEMMA FinishStartEffect ==
    ASSUME IInv, FinishStart
    PROVE  /\ Typed' /\ w.pc = "finish" /\ Healthy /\ Upcoming' = Upcoming
           /\ session'.running /\ session'.epoch = w.item.epoch
           /\ shared'.ready = w.item.epoch /\ peer'.start = "none"
           /\ w'.pc = IF w.item.kind = "STOP" THEN "transition" ELSE "top"
           /\ w'.item = IF w.item.kind = "STOP" THEN w.item ELSE NoItem
           /\ UNCHANGED <<mode, cb, ctl, requests, published, results, mbox, plugin, snap, clock,
                          accepted, shared.pending, shared.revision, shared.wanted,
                          shared.lastEdit, shared.fault, shared.hint, peer.capture.st,
                          peer.capture.bytes, peer.applied, w.deferred, w.overlap>>
<1>t. Typed /\ CallInv /\ CallbackInv /\ FaultInv
  BY DEF IInv
<1>g. /\ w.pc = "finish" /\ Healthy
  BY <1>t DEF FinishStart, CommitStart, SetReady, CallbackInv, CallInv, FaultInv, IdleControl
<1>r. /\ session' = [running |-> TRUE, epoch |-> w.item.epoch]
      /\ shared' = [shared EXCEPT !.ready = w.item.epoch]
      /\ peer' = [peer EXCEPT !.start = "none"]
      /\ w' = IF w.item.kind = "STOP" THEN [w EXCEPT !.pc = "transition"]
                   ELSE [w EXCEPT !.pc = "top", !.item = NoItem]
      /\ UNCHANGED <<mode, cb, ctl, requests, published, results, mbox, plugin, snap,
                    clock, accepted>>
  BY <1>t, <1>g DEF FinishStart, CommitStart, SetReady
<1>1. Upcoming' = Upcoming
  BY Quiet DEF Serving
<1>y. Typed'
  BY <1>t, <1>g, <1>r, SessionFields, WorkerFields, SharedFields, PeerFields,
     FieldsTyped DEF Typed, Sessions, Words, Peers, Captures, Workers, Labels
<1> QED
  BY <1>t, <1>g, <1>r, <1>y, <1>1, SessionFields, WorkerFields, SharedFields,
     PeerFields, FieldsTyped DEF Sessions, Words, Peers, Captures, Workers, Labels

\* The start is acknowledged under overlapped AUDIO.
LEMMA StartedInAudioEffect ==
    ASSUME IInv, StartedInAudio
    PROVE  /\ Typed' /\ w.pc = "audio" /\ w.overlap /\ Healthy /\ Upcoming' = Upcoming
           /\ session'.running /\ session'.epoch = w.item.epoch
           /\ shared'.ready = w.item.epoch /\ peer'.start = "none" /\ ~w'.overlap
           /\ UNCHANGED <<mode, cb, ctl, requests, published, results, mbox, plugin, snap, clock,
                          accepted, shared.pending, shared.revision, shared.wanted,
                          shared.lastEdit, shared.fault, shared.hint, peer.capture.st,
                          peer.capture.bytes, peer.applied, w.pc, w.item, w.deferred>>
<1>t. Typed /\ CallInv /\ CallbackInv /\ FaultInv
  BY DEF IInv
<1>g. /\ w.pc = "audio" /\ w.overlap /\ Healthy
  BY <1>t DEF StartedInAudio, CommitStart, SetReady, CallbackInv, CallInv, FaultInv, IdleControl
<1>r. /\ session' = [running |-> TRUE, epoch |-> w.item.epoch]
      /\ shared' = [shared EXCEPT !.ready = w.item.epoch]
      /\ peer' = [peer EXCEPT !.start = "none"]
      /\ w' = [w EXCEPT !.overlap = FALSE]
      /\ UNCHANGED <<mode, cb, ctl, requests, published, results, mbox, plugin, snap,
                    clock, accepted>>
  BY <1>t, <1>g DEF StartedInAudio, CommitStart, SetReady
<1>1. Upcoming' = Upcoming
  BY Quiet DEF Serving
<1>y. Typed'
  BY <1>t, <1>g, <1>r, SessionFields, WorkerFields, SharedFields, PeerFields,
     FieldsTyped DEF Typed, Sessions, Words, Peers, Captures, Workers, Labels
<1> QED
  BY <1>t, <1>g, <1>r, <1>y, <1>1, SessionFields, WorkerFields, SharedFields,
     PeerFields, FieldsTyped DEF Sessions, Words, Peers, Captures, Workers, Labels

\* The reply to AUDIO.
LEMMA PublishEffect ==
    ASSUME IInv, Publish
    PROVE  /\ Typed' /\ w.pc = "audio" /\ ~w.overlap /\ Healthy /\ peer.applied
           /\ Upcoming' = Upcoming /\ ~peer'.applied
           /\ w'.pc = IF w.item.sync THEN "sync" ELSE "top"
           /\ w'.item = IF w.item.sync THEN w.item ELSE NoItem
           /\ results' =
                  IF shared.wanted = w.item.epoch THEN Append(results, [epoch |-> w.item.epoch, ticket |-> w.item.ticket]) ELSE results
           /\ results' \in Seq(Results)
           /\ shared.wanted # w.item.epoch => results' = results
           /\ shared.wanted = w.item.epoch => /\ Len(results') = Len(results) + 1
                     /\ results'[Len(results) + 1] = [epoch |-> w.item.epoch, ticket |-> w.item.ticket]
                     /\ \A j \in 1 .. Len(results) : results'[j] = results[j]
           /\ UNCHANGED <<mode, cb, ctl, requests, published, shared, mbox, session, plugin, snap,
                          clock, accepted, peer.start, peer.capture.st,
                          peer.capture.bytes, w.deferred, w.overlap>>
<1>t. Typed /\ CallInv /\ CallbackInv /\ FaultInv
  BY DEF IInv
<1>g. /\ w.pc = "audio" /\ ~w.overlap /\ Healthy /\ peer.applied
  BY <1>t DEF Publish, CallbackInv, CallInv, FaultInv, IdleControl
<1>r. /\ peer' = [peer EXCEPT !.applied = FALSE]
      /\ w' = [w EXCEPT !.pc = IF w.item.sync THEN "sync" ELSE "top",
                              !.item = IF w.item.sync THEN @ ELSE NoItem]
      /\ results' =
             IF shared.wanted = w.item.epoch THEN Append(results, [epoch |-> w.item.epoch, ticket |-> w.item.ticket]) ELSE results
      /\ UNCHANGED <<mode, cb, ctl, requests, published, shared, mbox, session, plugin,
                    snap, clock, accepted>>
  BY <1>t, <1>g DEF Publish
<1>1. /\ results' \in Seq(Results)
      /\ results' =
             IF shared.wanted = w.item.epoch THEN Append(results, [epoch |-> w.item.epoch, ticket |-> w.item.ticket]) ELSE results
  <2> DEFINE r == [epoch |-> w.item.epoch, ticket |-> w.item.ticket]
  <2>1. r \in Results
    BY <1>t, WorkerFields DEF Results
  <2>2. results' = IF shared.wanted = w.item.epoch THEN Append(results, r) ELSE results
    BY <1>r
  <2> HIDE DEF r
  <2> QED
    BY <1>t, <2>1, <2>2, OneResult, ResultFields DEF r
<1>2. Upcoming' = Upcoming
  BY Quiet DEF Serving
<1>3. /\ results' \in Seq(Results)
      /\ shared.wanted # w.item.epoch => results' = results
      /\ shared.wanted = w.item.epoch => /\ Len(results') = Len(results) + 1
                     /\ results'[Len(results) + 1] = [epoch |-> w.item.epoch, ticket |-> w.item.ticket]
                     /\ \A j \in 1 .. Len(results) : results'[j] = results[j]
  <2> DEFINE r == [epoch |-> w.item.epoch, ticket |-> w.item.ticket]
  <2>1. r \in Results
    BY <1>t, WorkerFields DEF Results
  <2>2. results' = IF shared.wanted = w.item.epoch THEN Append(results, r) ELSE results
    BY <1>r
  <2>3. results \in Seq(Results)
    BY <1>t, ResultFields
  <2> HIDE DEF r
  <2>4. /\ results' \in Seq(Results)
        /\ shared.wanted = w.item.epoch =>
             /\ Len(results') = Len(results) + 1 /\ results'[Len(results) + 1] = r
             /\ \A j \in 1 .. Len(results) : results'[j] = results[j]
        /\ shared.wanted # w.item.epoch => results' = results
    BY <2>1, <2>2, <2>3, OneResult
  <2> QED
    BY <2>4 DEF r
<1>y. Typed'
  BY <1>t, <1>g, <1>r, <1>1, <1>3, PeerFields, WorkerFields, FieldsTyped DEF Typed, Peers,
     Captures, Workers, Labels
<1> QED
  BY <1>t, <1>g, <1>r, <1>y, <1>1, <1>2, <1>3, PeerFields, WorkerFields, FieldsTyped
     DEF Peers, Captures, Workers, Labels

\* The last replay packet acknowledges its epoch.
LEMMA SyncedEffect ==
    ASSUME IInv, Synced
    PROVE  /\ Typed' /\ w.pc = "sync" /\ Healthy /\ Upcoming' = Upcoming
           /\ shared'.pending = IF shared.pending = w.item.epoch THEN 0 ELSE shared.pending
           /\ w'.pc = "top" /\ w'.item = NoItem
           /\ UNCHANGED <<mode, cb, ctl, requests, published, results, mbox, session, peer, plugin,
                          snap, clock, accepted, shared.revision, shared.ready,
                          shared.wanted, shared.lastEdit, shared.fault, shared.hint,
                          w.deferred, w.overlap>>
<1>t. Typed /\ CallInv /\ CallbackInv /\ FaultInv
  BY DEF IInv
<1>g. /\ w.pc = "sync" /\ Healthy
  BY <1>t DEF Synced, Acknowledged, CallbackInv, CallInv, FaultInv, IdleControl
<1>r. /\ shared' =
       IF shared.pending = w.item.epoch THEN [shared EXCEPT !.pending = 0] ELSE shared
      /\ w' = [w EXCEPT !.pc = "top", !.item = NoItem]
      /\ UNCHANGED <<mode, cb, ctl, requests, published, results, mbox, session, peer,
                    plugin, snap, clock, accepted>>
  BY <1>t, <1>g DEF Synced, Acknowledged
<1>1. Upcoming' = Upcoming
  BY Quiet DEF Serving
<1>y. Typed'
  BY <1>t, <1>g, <1>r, SharedFields, WorkerFields, FieldsTyped DEF Typed, Words, Workers, Labels
<1> QED
  BY <1>t, <1>g, <1>r, <1>y, <1>1, SharedFields, WorkerFields, FieldsTyped DEF Words,
     Workers, Labels

\* The DAW's call enters: a state it has not seen drops what was retained, and its
\* edits take the next stamp.
LEMMA ProcessEffect ==
    ASSUME IInv, Process
    PROVE  /\ Typed' /\ cb.pc = "idle" /\ cb.running /\ ctl.op # 18 /\ Healthy /\ Room
           /\ Upcoming' = Upcoming /\ cb'.pc = "ready" /\ cb'.rev = shared.revision
           /\ cb'.retained = IF cb.rev # shared.revision THEN NoEdits ELSE cb.retained
           /\ cb'.sync = IF cb.rev # shared.revision THEN 0 ELSE cb.sync
           /\ shared'.pending = IF cb.rev # shared.revision THEN 0 ELSE shared.pending
           /\ clock'.stamps \in {clock.stamps, clock.stamps + 1}
           /\ clock'.stamps # clock.stamps => clock.stamps < MaxStamps
           /\ \A p \in Params : /\ cb'.edits[p] \in {0, clock.stamps + 1}
                                /\ cb'.edits[p] # 0 => clock'.stamps = clock.stamps + 1
           /\ UNCHANGED <<mode, ctl, w, requests, published, results, mbox, session, peer,
                          plugin, snap, accepted, cb.epoch, cb.running, cb.submitted,
                          cb.completed, cb.flush, shared.revision, shared.ready,
                          shared.wanted, shared.lastEdit, shared.fault, shared.hint,
                          clock.saves, clock.starts, clock.requests, clock.generation>>
<1>t. Typed
  BY DEF IInv
<1>g. cb.pc = "idle" /\ cb.running /\ ctl.op # 18 /\ Healthy /\ Room
  BY DEF Process, Free
<1> DEFINE stale == cb.rev # shared.revision
           stamp == clock.stamps + 1
<1>1. PICK P \in {{}} \cup {{p} : p \in Params} :
        /\ P # {} => clock.stamps < MaxStamps
        /\ cb' = [(IF stale THEN Superseded(cb) ELSE cb) EXCEPT
                     !.pc = "ready", !.edits = Restricted(All(stamp), P)]
        /\ shared' = IF stale THEN [shared EXCEPT !.pending = 0] ELSE shared
        /\ clock' = IF P = {} THEN clock ELSE [clock EXCEPT !.stamps = stamp]
  BY DEF Process
<1> DEFINE edits == Restricted(All(stamp), P)
<1>2. /\ edits \in Values /\ \A p \in Params : edits[p] \in {0, stamp}
      /\ P = {} => \A p \in Params : edits[p] = 0
  BY <1>t, ClockFields DEF Restricted, All, Values
<1>3. /\ shared' = IF stale THEN [shared EXCEPT !.pending = 0] ELSE shared
      /\ clock' = IF P = {} THEN clock ELSE [clock EXCEPT !.stamps = stamp]
      /\ UNCHANGED <<mode, ctl, w, requests, published, results, mbox, session, peer,
                     plugin, snap, accepted>>
  BY <1>1 DEF Process
<1>4. cb' = IF stale THEN [cb EXCEPT !.retained = NoEdits, !.sync = 0,
                                     !.rev = shared.revision, !.pc = "ready", !.edits = edits]
            ELSE [cb EXCEPT !.pc = "ready", !.edits = edits]
  <2>1. CASE stale
    <3>1. cb' = [Superseded(cb) EXCEPT !.pc = "ready", !.edits = edits]
      BY <1>1, <2>1
    <3> QED
      BY <2>1, <3>1 DEF Superseded
  <2>2. CASE ~stale
    BY <1>1, <2>2
  <2> QED
    BY <2>1, <2>2
<1> HIDE DEF edits
<1>5. /\ cb' \in Callbacks /\ cb'.pc = "ready" /\ cb'.rev = shared.revision
      /\ cb'.retained = IF cb.rev # shared.revision THEN NoEdits ELSE cb.retained
      /\ cb'.sync = IF cb.rev # shared.revision THEN 0 ELSE cb.sync
      /\ cb'.edits = edits
      /\ UNCHANGED <<cb.epoch, cb.running, cb.submitted, cb.completed, cb.flush>>
  <2>1. CASE stale
    <3>1. cb' = [cb EXCEPT !.retained = NoEdits, !.sync = 0,
                           !.rev = shared.revision, !.pc = "ready", !.edits = edits]
      BY <1>4, <2>1
    <3> QED
      BY <1>t, <1>2, <2>1, <3>1, CallbackFields, SharedFields, ValuesMade DEF Callbacks
  <2>2. CASE ~stale
    <3>1. cb' = [cb EXCEPT !.pc = "ready", !.edits = edits]
      BY <1>4, <2>2
    <3> QED
      BY <1>t, <1>2, <2>2, <3>1, CallbackFields, SharedFields DEF Callbacks
  <2> QED
    BY <2>1, <2>2
<1>6. /\ shared' \in Words
      /\ shared'.pending = IF cb.rev # shared.revision THEN 0 ELSE shared.pending
      /\ UNCHANGED <<shared.revision, shared.ready, shared.wanted, shared.lastEdit,
                     shared.fault, shared.hint>>
  BY <1>t, <1>3, SharedFields DEF Words
<1>7. /\ clock' \in Clocks /\ clock'.stamps = IF P = {} THEN clock.stamps ELSE stamp
      /\ UNCHANGED <<clock.saves, clock.starts, clock.requests, clock.generation>>
  BY <1>t, <1>3, ClockFields DEF Clocks
<1>8. Upcoming' = Upcoming
  BY Quiet DEF Listening
<1>y. Typed'
  BY <1>t, <1>3, <1>5, <1>6, <1>7
  DEF Typed
<1>9. /\ clock'.stamps \in {clock.stamps, stamp}
      /\ clock'.stamps # clock.stamps => clock.stamps < MaxStamps
      /\ \A p \in Params : /\ cb'.edits[p] \in {0, stamp}
                           /\ cb'.edits[p] # 0 => clock'.stamps = stamp
  BY <1>1, <1>2, <1>5, <1>7
<1> QED
  BY <1>g, <1>3, <1>5, <1>6, <1>7, <1>8, <1>9, <1>y

\* A packet of the replay or the block's own request goes out.
Sends(edits, sync, flush) ==
    /\ Typed' /\ Healthy /\ cb.running /\ cb.epoch > 0 /\ cb.rev = shared.revision
    /\ Added(Item("AUDIO", cb.epoch, cb.submitted + 1, edits, sync))
    /\ Grown("AUDIO", cb.epoch, cb.submitted + 1, edits, sync)
    /\ flush => /\ cb.pc = "replay" /\ ~Nothing /\ Edited(edits) # {}
                /\ Edited(edits) \subseteq Edited(cb.retained)
                /\ \A p \in Params : edits[p] \in {0, cb.retained[p]}
                /\ sync <=> Edited(cb.retained) = Edited(edits)
    /\ ~flush => cb.pc = "push" /\ edits = cb.edits /\ ~sync
    /\ cb'.pc = "drain" /\ (cb'.flush <=> flush)
    /\ cb'.submitted = cb.submitted + 1
    /\ \A p \in Params : cb'.retained[p] =
           IF flush /\ edits[p] # 0 THEN 0 ELSE cb.retained[p]
    /\ ~flush => cb'.retained = cb.retained
    /\ published' = published + 1 /\ requests' \in Seq(Items)
    /\ Len(requests') = Len(requests) + 1
    /\ shared'.lastEdit = IF Edited(edits) = {} THEN shared.lastEdit
                          ELSE published + 1
    /\ w.pc \in {"pop2", "pwait"} => shared'.hint
    /\ clock'.requests = clock.requests + 1
    /\ UNCHANGED <<mode, ctl, w, results, mbox, session, peer, plugin, snap,
                   accepted, cb.epoch, cb.running, cb.sync, cb.rev, cb.completed,
                   cb.edits, shared.pending, shared.revision, shared.ready,
                   shared.wanted, shared.fault, clock.stamps, clock.saves,
                   clock.starts, clock.generation>>

\* A block or a replay packet sent as AUDIO.
LEMMA SendEffect ==
    ASSUME IInv, Sending
    PROVE  \E edits \in Values, sync \in BOOLEAN, flush \in BOOLEAN :
             Sends(edits, sync, flush)
<1>t. Typed /\ CallbackInv
  BY DEF IInv
<1>a. PICK edits \in Values, sync \in BOOLEAN, flush \in BOOLEAN :
           /\ SendAudio(edits, sync, flush)
           /\ Added(Item("AUDIO", cb.epoch, cb.submitted + 1, edits, sync))
           /\ Healthy /\ cb.running /\ cb.epoch > 0
           /\ flush => /\ cb.pc = "replay" /\ ~Nothing /\ Edited(edits) # {}
                       /\ Edited(edits) \subseteq Edited(cb.retained)
                       /\ \A p \in Params : edits[p] \in {0, cb.retained[p]}
                       /\ sync <=> Edited(cb.retained) = Edited(edits)
           /\ ~flush => cb.pc = "push" /\ edits = cb.edits /\ ~sync
           /\ UNCHANGED <<mode, ctl, w, results, mbox, session, peer, plugin, snap,
                          accepted>>
  BY SendDoes
<1>b. cb.rev = shared.revision
  BY <1>t, <1>a DEF CallbackInv
<1>c. UNCHANGED <<mode, ctl, w, results, mbox, session, peer, plugin, snap, accepted>>
  BY <1>a
<1> DEFINE kept == IF flush THEN Restricted(cb.retained, Params \ Edited(edits))
                   ELSE cb.retained
           last == IF Edited(edits) = {} THEN shared.lastEdit ELSE published + 1
           item == Item("AUDIO", cb.epoch, cb.submitted + 1, edits, sync)
<1>1. /\ cb' = [cb EXCEPT !.pc = "drain", !.flush = flush, !.submitted = @ + 1,
                          !.retained = kept]
      /\ shared' = Notified([shared EXCEPT !.lastEdit = last])
      /\ clock' = [clock EXCEPT !.requests = @ + 1, !.starts = @ + 0]
      /\ requests' = Append(requests, item) /\ published' = published + 1
  BY <1>a DEF SendAudio, Counted, Push
<1>2. /\ kept \in Values
      /\ \A p \in Params : kept[p] = IF flush /\ edits[p] # 0 THEN 0 ELSE cb.retained[p]
      /\ ~flush => kept = cb.retained
  BY <1>t, CallbackFields DEF Restricted, Edited, Values
<1> HIDE DEF kept
<1>3. /\ cb' \in Callbacks /\ cb'.pc = "drain" /\ (cb'.flush <=> flush)
      /\ cb'.submitted = cb.submitted + 1 /\ cb'.retained = kept
      /\ UNCHANGED <<cb.epoch, cb.running, cb.sync, cb.rev, cb.completed, cb.edits>>
  BY <1>t, <1>1, <1>2, CallbackFields DEF Callbacks
<1>4. last \in Nat /\ published + 1 \in Nat
  BY <1>t, SharedFields, QueueFields
<1> HIDE DEF last
<1>5. /\ shared' \in Words /\ shared'.lastEdit = last
      /\ w.pc \in {"pop2", "pwait"} => shared'.hint
      /\ UNCHANGED <<shared.pending, shared.revision, shared.ready, shared.wanted,
                     shared.fault>>
  <2> DEFINE s == [shared EXCEPT !.lastEdit = last]
  <2>1. /\ s \in Words /\ s.lastEdit = last
        /\ s.pending = shared.pending /\ s.revision = shared.revision
        /\ s.ready = shared.ready /\ s.wanted = shared.wanted /\ s.fault = shared.fault
    BY <1>t, <1>4, SharedFields DEF Words
  <2>2. shared' = Notified(s)
    BY <1>1
  <2> HIDE DEF s
  <2> QED
    BY <2>1, <2>2, NotifiedDoes
<1>6. /\ clock' \in Clocks /\ clock'.requests = clock.requests + 1
      /\ UNCHANGED <<clock.stamps, clock.saves, clock.starts, clock.generation>>
  BY <1>t, <1>1, ClockFields DEF Clocks
<1>7. item \in Items
  BY <1>t, CallbackFields, ItemsMade
<1> HIDE DEF item
<1>8. requests' \in Seq(Items) /\ Len(requests') = Len(requests) + 1
  BY <1>t, <1>1, <1>7, QueueFields
<1>y. Typed'
  BY <1>t, <1>c, <1>1, <1>3, <1>4, <1>5, <1>6, <1>8
  DEF Typed
<1>9. /\ \A p \in Params : cb'.retained[p] =
             IF flush /\ edits[p] # 0 THEN 0 ELSE cb.retained[p]
      /\ ~flush => cb'.retained = cb.retained
  BY <1>2, <1>3
<1>10. shared'.lastEdit = IF Edited(edits) = {} THEN shared.lastEdit ELSE published + 1
  BY <1>5 DEF last
<1>11. published' = published + 1
  BY <1>1
<1>12. /\ Typed' /\ Healthy /\ cb.running /\ cb.epoch > 0 /\ cb.rev = shared.revision
       /\ flush => /\ cb.pc = "replay" /\ ~Nothing /\ Edited(edits) # {}
                   /\ Edited(edits) \subseteq Edited(cb.retained)
                   /\ \A p \in Params : edits[p] \in {0, cb.retained[p]}
                   /\ sync <=> Edited(cb.retained) = Edited(edits)
       /\ ~flush => cb.pc = "push" /\ edits = cb.edits /\ ~sync
       /\ Added(Item("AUDIO", cb.epoch, cb.submitted + 1, edits, sync))
  BY <1>a, <1>b, <1>y
<1>13. Grown("AUDIO", cb.epoch, cb.submitted + 1, edits, sync)
  BY <1>t, <1>12, Line, CallbackFields, GrownBy
<1>14. Sends(edits, sync, flush)
  BY <1>c, <1>3, <1>5, <1>6, <1>8, <1>9, <1>10, <1>11, <1>12, <1>13 DEF Sends
<1> QED
  BY <1>14

\* The Windows side acknowledges a start, reads the state for a save, or applies
\* AUDIO.
LEMMA PeerEffect ==
    ASSUME IInv, PeerStep
    PROVE  /\ Typed' /\ Healthy /\ Upcoming' = Upcoming
           /\ \/ /\ peer.start = "asked" /\ peer'.start = "acked"
                 /\ UNCHANGED <<plugin, peer.capture.st, peer.capture.bytes, peer.applied>>
              \/ /\ peer.capture.st = "taken" /\ peer'.capture.st = "done"
                 /\ peer'.capture.bytes = plugin
                 /\ UNCHANGED <<plugin, peer.start, peer.applied>>
              \/ /\ w.pc = "audio" /\ ~peer.applied /\ peer'.applied
                 /\ \A p \in Params : plugin'[p] =
                        IF w.item.edits[p] # 0 THEN w.item.edits[p] ELSE plugin[p]
                 /\ UNCHANGED <<peer.start, peer.capture.st, peer.capture.bytes>>
           /\ UNCHANGED <<mode, cb, ctl, w, requests, published, results, shared, mbox,
                          session, snap, clock, accepted>>
<1>t. Typed /\ FaultInv
  BY DEF IInv
<1>1. Upcoming' = Upcoming
  BY Quiet
<1>2. UNCHANGED <<mode, cb, ctl, w, requests, published, results, shared, mbox,
                  session, snap, clock, accepted>>
  BY DEF PeerStep
<1>3. Healthy
  BY <1>t DEF PeerStep, FaultInv, NewPeer, NoCapture, NewWorker
<1>4. \/ /\ peer.start = "asked" /\ peer' = [peer EXCEPT !.start = "acked"]
         /\ UNCHANGED plugin
      \/ /\ peer.capture.st = "taken"
         /\ peer' = [peer EXCEPT !.capture = [st |-> "done", bytes |-> plugin]]
         /\ UNCHANGED plugin
      \/ /\ w.pc = "audio" /\ ~peer.applied
         /\ peer' = [peer EXCEPT !.applied = TRUE]
         /\ plugin' = Newer(plugin, w.item.edits)
  BY DEF PeerStep
<1>5. /\ peer' \in Peers /\ plugin' \in Values
      /\ \/ /\ peer.start = "asked" /\ peer'.start = "acked"
            /\ UNCHANGED <<plugin, peer.capture.st, peer.capture.bytes, peer.applied>>
         \/ /\ peer.capture.st = "taken" /\ peer'.capture.st = "done"
            /\ peer'.capture.bytes = plugin
            /\ UNCHANGED <<plugin, peer.start, peer.applied>>
         \/ /\ w.pc = "audio" /\ ~peer.applied /\ peer'.applied
            /\ \A p \in Params : plugin'[p] =
                   IF w.item.edits[p] # 0 THEN w.item.edits[p] ELSE plugin[p]
            /\ UNCHANGED <<peer.start, peer.capture.st, peer.capture.bytes>>
  <2>1. CASE peer.start = "asked" /\ peer' = [peer EXCEPT !.start = "acked"] /\ UNCHANGED plugin
    BY <1>t, <2>1, PeerFields, ValueFields DEF Peers
  <2>2. CASE /\ peer.capture.st = "taken"
             /\ peer' = [peer EXCEPT !.capture = [st |-> "done", bytes |-> plugin]]
             /\ UNCHANGED plugin
    <3>1. [st |-> "done", bytes |-> plugin] \in Captures
      BY <1>t, ValueFields DEF Captures
    <3> QED
      BY <1>t, <2>2, <3>1, PeerFields, ValueFields DEF Peers
  <2>3. CASE /\ w.pc = "audio" /\ ~peer.applied
             /\ peer' = [peer EXCEPT !.applied = TRUE]
             /\ plugin' = Newer(plugin, w.item.edits)
    <3>1. plugin' \in Values /\ \A p \in Params : plugin'[p] =
                   IF w.item.edits[p] # 0 THEN w.item.edits[p] ELSE plugin[p]
      BY <1>t, <2>3, ValueFields, WorkerFields, ValuesMade DEF Newer
    <3>2. peer' \in Peers /\ peer'.applied /\ UNCHANGED <<peer.start, peer.capture>>
      BY <1>t, <2>3, PeerFields DEF Peers
    <3> QED
      BY <2>3, <3>1, <3>2
  <2> QED
    BY <1>4, <2>1, <2>2, <2>3
<1>y. Typed'
  BY <1>t, <1>2, <1>5
  DEF Typed
<1> QED
  BY <1>1, <1>2, <1>3, <1>5, <1>y

\* The fields of the initial values.
LEMMA Initials ==
    /\ NewCallback.pc = "idle" /\ NewCallback.epoch = 0 /\ ~NewCallback.running
    /\ NewCallback.retained = NoEdits /\ NewCallback.sync = 0 /\ NewCallback.rev = 0
    /\ NewCallback.submitted = 0 /\ NewCallback.completed = 0
    /\ NewCallback.edits = NoEdits /\ ~NewCallback.flush
    /\ IdleControl.pc = "idle" /\ IdleControl.op = 0 /\ IdleControl.barrier = 0
    /\ IdleControl.stamp = 0 /\ IdleControl.covers = NoEdits
    /\ NoMail.st = "none" /\ NoMail.op = 0 /\ NoMail.barrier = 0 /\ NoMail.stamp = 0
    /\ NoMail.bytes = NoEdits
    /\ NewPeer.start = "none" /\ NewPeer.capture = NoCapture /\ ~NewPeer.applied
    /\ NoCapture.st = "none" /\ NoCapture.bytes = NoEdits
    /\ NewWorker.item = NoItem /\ NewWorker.deferred = <<>> /\ ~NewWorker.overlap
    /\ NewWorker.pc = "top"
    /\ NewShared.pending = 0 /\ NewShared.revision = 0 /\ NewShared.ready = 0
    /\ NewShared.wanted = 0 /\ NewShared.lastEdit = 0 /\ NewShared.fault = "none"
  BY DEF NewCallback, IdleControl, NoMail, NewPeer, NoCapture, NewWorker, NewShared

\* A failure from outside: every thread leaves.
LEMMA FaultEffect ==
    ASSUME IInv, Fault
    PROVE  /\ Typed' /\ Healthy /\ clock.generation <= MaxFaults
           /\ Upcoming' = <<>> /\ Len(Upcoming') = 0
           /\ cb'.pc = "idle" /\ cb'.edits = NoEdits /\ ~cb'.flush
           /\ ctl' = IdleControl /\ w' = [NewWorker EXCEPT !.pc = "exit"]
           /\ w'.pc = "exit" /\ w'.item = NoItem /\ w'.deferred = <<>> /\ ~w'.overlap
           /\ shared'.fault = "outside" /\ shared'.ready = 0
           /\ mbox' = NoMail /\ peer' = NewPeer /\ requests' = <<>> /\ results' = <<>>
           /\ ctl'.pc = "idle" /\ ctl'.op = 0 /\ ctl'.stamp = 0 /\ ctl'.covers = NoEdits
           /\ mbox'.st = "none" /\ mbox'.op = 0 /\ mbox'.stamp = 0 /\ mbox'.bytes = NoEdits
           /\ peer'.capture.st = "none" /\ peer'.capture.bytes = NoEdits /\ ~peer'.applied
           /\ UNCHANGED <<mode, published, session, plugin, snap, clock, accepted, cb.epoch,
                          cb.running, cb.retained, cb.sync, cb.rev, cb.submitted,
                          cb.completed, shared.pending, shared.revision, shared.wanted,
                          shared.lastEdit>>
<1>t. Typed
  BY DEF IInv
<1>1. /\ Healthy /\ clock.generation <= MaxFaults
      /\ cb' = [cb EXCEPT !.pc = "idle", !.edits = NoEdits, !.flush = FALSE]
      /\ ctl' = IdleControl /\ w' = [NewWorker EXCEPT !.pc = "exit"]
      /\ shared' = [shared EXCEPT !.fault = "outside", !.ready = 0, !.hint = FALSE]
      /\ mbox' = NoMail /\ peer' = NewPeer /\ requests' = <<>> /\ results' = <<>>
      /\ UNCHANGED <<mode, published, session, plugin, snap, clock, accepted>>
  BY DEF Fault, Return
<1>2. /\ cb' \in Callbacks /\ cb'.pc = "idle" /\ cb'.edits = NoEdits /\ ~cb'.flush
      /\ UNCHANGED <<cb.epoch, cb.running, cb.retained, cb.sync, cb.rev, cb.submitted,
                     cb.completed>>
  BY <1>t, <1>1, CallbackFields, ValuesMade DEF Callbacks
<1>3. /\ w' \in Workers /\ w'.pc = "exit" /\ w'.item = NoItem /\ w'.deferred = <<>>
      /\ ~w'.overlap /\ Len(w'.deferred) <= 1
  BY <1>1, Initials, InitialsTyped DEF Workers, Labels
<1>4. /\ shared' \in Words /\ shared'.fault = "outside" /\ shared'.ready = 0
      /\ UNCHANGED <<shared.pending, shared.revision, shared.wanted, shared.lastEdit>>
  BY <1>t, <1>1, SharedFields DEF Words
<1>5. Upcoming' = <<>> /\ Len(Upcoming') = 0
  BY FailingEmpties DEF Failing
<1>6. requests' \in Seq(Items) /\ results' \in Seq(Results)
  BY <1>1
<1>7. ctl' \in Calls /\ mbox' \in Mails /\ peer' \in Peers
  BY <1>1, InitialsTyped
<1>8. /\ ctl'.pc = "idle" /\ ctl'.op = 0 /\ ctl'.stamp = 0 /\ ctl'.covers = NoEdits
      /\ mbox'.st = "none" /\ mbox'.op = 0 /\ mbox'.stamp = 0 /\ mbox'.bytes = NoEdits
      /\ peer'.capture.st = "none" /\ peer'.capture.bytes = NoEdits /\ ~peer'.applied
  BY <1>1, Initials
<1>y. Typed'
  BY <1>t, <1>1, <1>2, <1>3, <1>4, <1>6, <1>7
  DEF Typed
<1> QED
  BY <1>1, <1>2, <1>3, <1>4, <1>5, <1>8, <1>y

\* Recovery: a new generation from the snapshot.
LEMMA RecoverEffect ==
    ASSUME IInv, Recover
    PROVE  /\ Typed' /\ shared.fault = "outside" /\ snap.generation # 0 /\ ctl = IdleControl
           /\ Upcoming' = <<>> /\ Len(Upcoming') = 0
           /\ clock'.generation = clock.generation + 1
           /\ plugin' = snap.bytes /\ accepted' = snap.bytes
           /\ cb'.pc = "idle" /\ cb'.epoch = 0 /\ ~cb'.running /\ cb'.retained = NoEdits
           /\ cb'.sync = 0 /\ cb'.rev = 0 /\ cb'.submitted = 0 /\ cb'.completed = 0
           /\ cb'.edits = NoEdits /\ ~cb'.flush
           /\ w'.pc = "top" /\ w'.item = NoItem /\ w'.deferred = <<>> /\ ~w'.overlap
           /\ shared'.pending = 0 /\ shared'.revision = 0 /\ shared'.ready = 0
           /\ shared'.wanted = 0 /\ shared'.lastEdit = 0 /\ shared'.fault = "none"
           /\ mbox'.st = "none" /\ mbox'.op = 0 /\ mbox'.barrier = 0 /\ mbox'.stamp = 0
           /\ mbox'.bytes = NoEdits /\ ~session'.running /\ session'.epoch = 0
           /\ peer'.start = "none" /\ peer'.capture.st = "none"
           /\ peer'.capture.bytes = NoEdits /\ ~peer'.applied
           /\ requests' = <<>> /\ results' = <<>> /\ published' = 0
           /\ UNCHANGED <<mode, ctl, snap, clock.stamps, clock.saves, clock.starts,
                          clock.requests>>
<1>t. Typed /\ FaultInv
  BY DEF IInv
<1>1. /\ shared.fault = "outside" /\ snap.generation # 0
      /\ clock' = [clock EXCEPT !.generation = @ + 1]
      /\ plugin' = snap.bytes /\ accepted' = snap.bytes
      /\ cb' = NewCallback /\ w' = NewWorker /\ shared' = NewShared
      /\ mbox' = NoMail /\ session' = [running |-> FALSE, epoch |-> 0] /\ peer' = NewPeer
      /\ requests' = <<>> /\ results' = <<>> /\ published' = 0
      /\ UNCHANGED <<mode, ctl, snap>>
  BY DEF Recover
<1>2. ctl = IdleControl
  BY <1>t, <1>1 DEF FaultInv, Healthy
<1>3. /\ clock' \in Clocks /\ clock'.generation = clock.generation + 1
      /\ UNCHANGED <<clock.stamps, clock.saves, clock.starts, clock.requests>>
  BY <1>t, <1>1, ClockFields DEF Clocks
<1>4. /\ cb' \in Callbacks /\ w' \in Workers /\ shared' \in Words /\ mbox' \in Mails
      /\ peer' \in Peers
  BY <1>1, InitialsTyped
<1>5. session' \in Sessions /\ ~session'.running /\ session'.epoch = 0
  BY <1>1 DEF Sessions
<1>6. requests' \in Seq(Items) /\ results' \in Seq(Results) /\ published' \in Nat
  BY <1>1
<1>7. Len(w'.deferred) <= 1
  BY <1>1, Initials
<1>8. plugin' \in Values /\ accepted' \in Values
  BY <1>t, <1>1, SnapFields
<1>9. Upcoming' = <<>> /\ Len(Upcoming') = 0
  BY FailingEmpties DEF Failing
<1>10. /\ cb'.pc = "idle" /\ cb'.epoch = 0 /\ ~cb'.running /\ cb'.retained = NoEdits
       /\ cb'.sync = 0 /\ cb'.rev = 0 /\ cb'.submitted = 0 /\ cb'.completed = 0
       /\ cb'.edits = NoEdits /\ ~cb'.flush
  BY <1>1, Initials
<1>11. /\ w'.pc = "top" /\ w'.item = NoItem /\ w'.deferred = <<>> /\ ~w'.overlap
       /\ shared'.pending = 0 /\ shared'.revision = 0 /\ shared'.ready = 0
       /\ shared'.wanted = 0 /\ shared'.lastEdit = 0 /\ shared'.fault = "none"
  BY <1>1, Initials
<1>12. /\ mbox'.st = "none" /\ mbox'.op = 0 /\ mbox'.barrier = 0 /\ mbox'.stamp = 0
       /\ mbox'.bytes = NoEdits
       /\ peer'.start = "none" /\ peer'.capture.st = "none"
       /\ peer'.capture.bytes = NoEdits /\ ~peer'.applied
  BY <1>1, Initials
<1>y. Typed'
  BY <1>t, <1>1, <1>3, <1>4, <1>5, <1>6, <1>7, <1>8
  DEF Typed
<1> QED
  BY <1>1, <1>2, <1>3, <1>5, <1>9, <1>10, <1>11, <1>12, <1>y

\* Every step is one of these.
LEMMA Steps ==
    ASSUME Next
    PROVE  \/ Process \/ Retain \/ Ready \/ Flushed \/ Drain \/ Drained \/ Sending
           \/ TurnOn \/ AnswerStarting \/ TurnOff \/ RestoreRunning \/ Save
           \/ RestoreStopped \/ Admit \/ AnswerOnly \/ BeginCapture
           \/ EndCapture \/ ComponentState \/ CaptureInAudio \/ TakeNext
           \/ PopNext \/ TakeBack \/ PopBack \/ TakeNothing \/ PendingStart
           \/ PendingEmpty \/ PollStart \/ PendingWait \/ Transition
           \/ FinishStart \/ StartedInAudio \/ Publish \/ Synced \/ PeerStep
           \/ Fault \/ Recover
  BY StepKinds
  DEF Listening, Opening, Closing, Asking, Capturing, Taking, PuttingBack, Waiting, Serving,
      Failing

\* The epochs of the line's start are numbers.
LEMMA AheadNumbers ==
    ASSUME IInv
    PROVE  AheadEpoch \in Nat /\ AheadOpen \in Nat
  BY Line, WorkerFields, SessionFields DEF AheadEpoch, AheadOpen, Open

\* What a request of the line can be.
LEMMA LineMembers ==
    ASSUME IInv, Healthy
    PROVE  /\ AheadEpoch \in Nat /\ AheadEpoch <= cb.epoch
           /\ \A i \in 1 .. Len(Upcoming) :
                /\ Upcoming[i].kind \in {"START", "STOP", "AUDIO"}
                /\ Upcoming[i].epoch \in Nat /\ Upcoming[i].epoch > 0
                /\ AheadEpoch <= Upcoming[i].epoch /\ Upcoming[i].epoch <= cb.epoch
                /\ cb.running /\ Upcoming[i].kind = "STOP" => Upcoming[i].epoch < cb.epoch
<1>1. LineInv /\ (cb.running => cb.epoch > 0) /\ cb.epoch \in Nat
  BY Line, CallbackFields DEF IInv, CallbackInv
<1>2. Leads(AheadEpoch, AheadOpen, Upcoming, cb.epoch, Open(cb.running, cb.epoch))
  BY <1>1 DEF LineInv
<1> QED
  BY <1>1, <1>2, Line, AheadNumbers, FieldsTyped DEF Leads, Open

\* The values of one parameter are numbers; a request that is none has none.
LEMMA ValuesAt ==
    ASSUME Typed, NEW p \in Params
    PROVE  /\ plugin[p] \in Nat /\ accepted[p] \in Nat /\ snap.bytes[p] \in Nat
           /\ cb.retained[p] \in Nat /\ cb.edits[p] \in Nat /\ w.item.edits[p] \in Nat
           /\ peer.capture.bytes[p] \in Nat /\ mbox.bytes[p] \in Nat
           /\ ctl.covers[p] \in Nat
           /\ \A i \in 1 .. Len(Upcoming) : Upcoming[i].edits[p] \in Nat
           /\ Len(Upcoming) \in Nat
           /\ NoEdits[p] = 0 /\ NoItem.edits[p] = 0
           /\ \A s \in Nat : All(s)[p] = s
<1>1. /\ plugin \in Values /\ accepted \in Values /\ snap.bytes \in Values
      /\ cb.retained \in Values /\ cb.edits \in Values /\ w.item.edits \in Values
      /\ peer.capture.bytes \in Values /\ mbox.bytes \in Values /\ ctl.covers \in Values
  BY ValueFields, SnapFields, CallbackFields, WorkerFields, PeerFields, MailFields,
     CallFields
<1> QED
  BY <1>1, FieldsTyped, LineFields DEF All

\* Nothing is retained when no parameter is.
LEMMA NothingMeans ==
    /\ Nothing <=> \A p \in Params : cb.retained[p] = 0
    /\ Nothing' <=> \A p \in Params : cb'.retained[p] = 0
  BY DEF Nothing, Edited

\* Who acknowledges has an epoch, and is AUDIO.
LEMMA AcksPositive ==
    ASSUME IInv, Healthy, NEW e \in Nat, AcksAhead(e)
    PROVE  e > 0 /\ e <= cb.epoch
<1>1. CASE Acks(w.item, e)
  <2>1. /\ w.item.kind # "none" /\ w.item.epoch <= cb.epoch /\ w.item.sync
        /\ w.item.epoch > 0
    BY <1>1, WorkerFields, Line DEF IInv, Acks, BareInv, Bare, BoundsInv, WordBounds, WorkerInv
  <2> QED
    BY <1>1, <2>1 DEF Acks
<1>2. ASSUME NEW i \in 1 .. Len(Upcoming), Acks(Upcoming[i], e)
      PROVE  e > 0 /\ e <= cb.epoch
  BY <1>2, LineMembers DEF Acks
<1> QED
  BY <1>1, <1>2 DEF AcksAhead

\* A callback at work has seen the state's revision, and no restore is under way.
LEMMA BusyMeans ==
    ASSUME IInv, cb.pc # "idle"
    PROVE  Healthy /\ cb.running /\ Live /\ ctl.op # 18 /\ cb.rev = shared.revision
<1>1. Healthy /\ cb.running /\ cb.rev = shared.revision
  BY DEF IInv, FaultInv, CallbackInv
<1>2. ctl.op # 18 /\ ~Restoring
  BY DEF IInv, CallInv, Restoring
<1>3. cb.rev \in Nat
  BY Line, CallbackFields
<1> QED
  BY <1>1, <1>2, <1>3 DEF Live

\* A STOP in the worker's hands is of an epoch that is over.
LEMMA StopBehind ==
    ASSUME IInv, Healthy, cb.running, w.item.kind = "STOP"
    PROVE  w.item.epoch < cb.epoch
<1>1. /\ LineInv /\ w.pc \notin Between /\ cb.epoch \in Nat /\ cb.epoch > 0
      /\ w.item.epoch \in Nat
  BY Line, CallbackFields, WorkerFields, FieldsTyped DEF IInv, WorkerInv, CallbackInv
<1>2. Leads(w.item.epoch, 0, Upcoming, cb.epoch, cb.epoch)
  BY <1>1 DEF LineInv, AheadEpoch, AheadOpen, Open
<1>3. CASE Len(Upcoming) = 0
  BY <1>1, <1>2, <1>3 DEF Leads
<1>4. CASE Len(Upcoming) # 0
  BY <1>1, <1>2, <1>4, Line, HeadReached DEF Leads, AheadEpoch, AheadOpen
<1> QED
  BY <1>3, <1>4

\* The bounds are numbers, and so is the count of retained edits.
LEMMA RoomMeans ==
    ASSUME Typed
    PROVE  /\ MaxPublished \in Nat /\ MaxEpochs \in Nat /\ MaxStamps \in Nat
           /\ IsFiniteSet(Edited(cb.retained))
           /\ Cardinality(Edited(cb.retained)) \in Nat
           /\ Room => clock.requests < MaxPublished
<1>1. /\ MaxPublished \in Nat /\ MaxEpochs \in Nat /\ MaxStamps \in Nat
      /\ IsFiniteSet(Params)
  BY DeliveryAssumption
<1>2. Edited(cb.retained) \subseteq Params
  BY DEF Edited
<1>3. IsFiniteSet(Edited(cb.retained)) /\ Cardinality(Edited(cb.retained)) \in Nat
  BY <1>1, <1>2, FS_Subset, FS_CardinalityType
<1>4. clock.requests \in Nat
  BY ClockFields
<1> QED
  BY <1>1, <1>3, <1>4 DEF Room

\* So are those of the next state.
LEMMA ValuesAtNext ==
    ASSUME Typed', NEW p \in Params
    PROVE  /\ accepted'[p] \in Nat /\ cb'.edits[p] \in Nat /\ plugin'[p] \in Nat
           /\ cb'.retained[p] \in Nat /\ snap'.bytes[p] \in Nat /\ ctl'.covers[p] \in Nat
           /\ mbox'.bytes[p] \in Nat /\ peer'.capture.bytes[p] \in Nat
  BY DEF Typed,
         Callbacks, Snapshots, Calls, Mails, Peers, Captures, Values

\* At its barrier a save finds in the plug-in what it has to hold.
LEMMA FencedCovers ==
    ASSUME IInv, Healthy, w.pc = "top", Fenced, mbox.op = 16, NEW p \in Params
    PROVE  ctl.covers[p] <= plugin[p]
<1>1. /\ w.item = NoItem /\ mbox.barrier \in Nat /\ published \in Nat
      /\ mbox.barrier + Len(Upcoming) <= published
  BY FencedMeans, Line, MailFields, QueueFields
<1>2. mbox.st = "asked" /\ ctl.op = 16 /\ ctl.barrier = mbox.barrier
  BY DEF IInv, CallInv, Fenced
<1>3. Before(p, ctl.covers[p], mbox.barrier)
  BY <1>2 DEF IInv, CoverInv, CoverLine
<1>4. /\ plugin[p] \in Nat /\ ctl.covers[p] \in Nat /\ w.item.edits[p] = 0
      /\ Len(Upcoming) \in Nat
  BY <1>1, Line, ValuesAt
<1>5. ASSUME NEW i \in 1 .. Len(Upcoming), published + i <= mbox.barrier + Len(Upcoming)
      PROVE  FALSE
  BY <1>1, <1>4, <1>5
<1> QED
  BY <1>3, <1>4, <1>5 DEF Before

\* What a confirmed snapshot does not hold is disclosed.
LEMMA Disclosed == ASSUME IInv PROVE UncapturedDisclosed
<1>1. CASE ~Healthy
  BY <1>1 DEF IInv, SnapInv
<1>2. CASE Healthy
  <2> SUFFICES ASSUME ~Uncaptured, NEW p \in Params
               PROVE  snap.bytes[p] >= accepted[p]
    BY DEF UncapturedDisclosed
  <2>1. Newest /\ shared.pending = 0 /\ ~(shared.lastEdit > snap.through)
    BY <1>2 DEF Uncaptured, Newest
  <2>2. Shown(p, accepted[p]) /\ (Live => Nothing)
    BY <1>2, <2>1 DEF IInv, SnapInv, SnapShows, KeptInv
  <2>3. /\ accepted[p] \in Nat /\ snap.bytes[p] \in Nat
        /\ shared.lastEdit \in Nat /\ snap.through \in Nat
    BY Line, ValuesAt, SharedFields, SnapFields
  <2>4. Live => cb.retained[p] = 0
    BY <2>2, NothingMeans
  <2> QED
    BY <2>1, <2>2, <2>3, <2>4 DEF Shown
<1> QED
  BY <1>1, <1>2

\* Fewer edits are retained once some of them are sent.
LEMMA FewerEdited ==
    ASSUME NEW a \in Values, NEW b \in Values, NEW q \in Params, a[q] # 0, b[q] = 0,
           \A p \in Params : b[p] # 0 => a[p] # 0
    PROVE  /\ Cardinality(Edited(a)) \in Nat /\ Cardinality(Edited(b)) \in Nat
           /\ Cardinality(Edited(b)) + 1 <= Cardinality(Edited(a))
<1>1. IsFiniteSet(Edited(a))
  BY DeliveryAssumption, FS_Subset DEF Edited
<1>2. Edited(b) \subseteq Edited(a) /\ Edited(a) # Edited(b)
  BY DEF Edited
<1>3. /\ IsFiniteSet(Edited(b)) /\ Cardinality(Edited(b)) <= Cardinality(Edited(a))
      /\ Cardinality(Edited(a)) # Cardinality(Edited(b))
  BY <1>1, <1>2, FS_Subset
<1>4. Cardinality(Edited(a)) \in Nat /\ Cardinality(Edited(b)) \in Nat
  BY <1>1, <1>3, FS_CardinalityType
<1> QED
  BY <1>3, <1>4

\* Who changes the callback.
LEMMA CallbackMoves ==
    ASSUME IInv, Next
    PROVE  /\ UNCHANGED cb.pc \/ Process \/ Retain \/ Ready \/ Flushed \/ Drained
              \/ Sending \/ Fault \/ Recover
           /\ UNCHANGED cb.running \/ TurnOn \/ AnswerStarting \/ TurnOff
              \/ RestoreRunning \/ Recover
           /\ UNCHANGED cb.rev \/ Process \/ Recover
           /\ UNCHANGED cb.epoch \/ TurnOn \/ AnswerStarting \/ Recover
           /\ UNCHANGED cb.flush \/ Retain \/ Drained \/ Sending \/ Fault \/ Recover
           /\ UNCHANGED cb.submitted \/ Sending \/ TurnOn \/ AnswerStarting \/ Recover
           /\ UNCHANGED cb.completed \/ Drain \/ TurnOn \/ AnswerStarting \/ Recover
           /\ UNCHANGED cb.retained \/ Process \/ Retain \/ Sending \/ Recover
           /\ UNCHANGED cb.sync \/ Process \/ Flushed \/ Drain \/ TurnOn
              \/ AnswerStarting \/ Recover
           /\ UNCHANGED cb.edits \/ Process \/ Retain \/ Drained \/ Fault \/ Recover
  BY ZenonT(60), Steps, ProcessEffect, RetainEffect, ReadyEffect, FlushedEffect,
     DrainEffect, DrainedEffect, SendEffect, TurnOnEffect, AnswerStartingEffect,
     TurnOffEffect, RestoreRunningEffect, SaveEffect, RestoreStoppedEffect,
     AdmitEffect, AnswerOnlyEffect, BeginCaptureEffect, EndCaptureEffect,
     ComponentStateEffect, CaptureInAudioEffect, TakeNextEffect, PopNextEffect,
     TakeBackEffect, PopBackEffect, TakeNothingEffect, PendingStartEffect,
     PendingEmptyEffect, PollStartEffect, PendingWaitEffect, TransitionEffect,
     FinishStartEffect, StartedInAudioEffect, PublishEffect, SyncedEffect, PeerEffect,
     FaultEffect, RecoverEffect DEF Sends

\* Who changes the call.
LEMMA CallMoves ==
    ASSUME IInv, Next
    PROVE  /\ UNCHANGED ctl \/ AnswerStarting \/ RestoreRunning \/ Save \/ RestoreStopped
              \/ Admit \/ AnswerOnly \/ Fault
           /\ UNCHANGED <<ctl.op, ctl.stamp, ctl.covers, ctl.barrier, ctl.resume>>
              \/ AnswerStarting \/ RestoreRunning \/ Save \/ RestoreStopped
              \/ AnswerOnly \/ Fault
  BY ZenonT(60), Steps, ProcessEffect, RetainEffect, ReadyEffect, FlushedEffect,
     DrainEffect, DrainedEffect, SendEffect, TurnOnEffect, AnswerStartingEffect,
     TurnOffEffect, RestoreRunningEffect, SaveEffect, RestoreStoppedEffect,
     AdmitEffect, AnswerOnlyEffect, BeginCaptureEffect, EndCaptureEffect,
     ComponentStateEffect, CaptureInAudioEffect, TakeNextEffect, PopNextEffect,
     TakeBackEffect, PopBackEffect, TakeNothingEffect, PendingStartEffect,
     PendingEmptyEffect, PollStartEffect, PendingWaitEffect, TransitionEffect,
     FinishStartEffect, StartedInAudioEffect, PublishEffect, SyncedEffect, PeerEffect,
     FaultEffect, RecoverEffect DEF Sends

\* Who changes the worker.
LEMMA WorkerMoves ==
    ASSUME IInv, Next
    PROVE  /\ UNCHANGED w.pc \/ EndCapture \/ ComponentState \/ TakeNext \/ PopNext
              \/ TakeBack \/ PopBack \/ TakeNothing \/ PendingStart
              \/ PendingEmpty \/ PollStart \/ PendingWait \/ Transition
              \/ FinishStart \/ Publish \/ Synced \/ Fault \/ Recover
           /\ UNCHANGED w.item \/ TakeNext \/ PopNext \/ TakeBack \/ PollStart
              \/ Transition \/ FinishStart \/ Publish \/ Synced \/ Fault
              \/ Recover
           /\ UNCHANGED w.overlap \/ PopNext \/ StartedInAudio \/ Fault \/ Recover
           /\ UNCHANGED w.deferred \/ TakeNext \/ TakeBack \/ PopBack \/ Fault \/ Recover
           /\ UNCHANGED w.item.epoch \/ EndCapture \/ ComponentState \/ TakeNext
              \/ PopNext \/ TakeBack \/ PopBack \/ TakeNothing \/ PendingStart
              \/ PendingEmpty \/ PollStart \/ PendingWait \/ Transition
              \/ FinishStart \/ StartedInAudio \/ Publish \/ Synced \/ Fault
              \/ Recover
  BY ZenonT(60), Steps, ProcessEffect, RetainEffect, ReadyEffect, FlushedEffect,
     DrainEffect, DrainedEffect, SendEffect, TurnOnEffect, AnswerStartingEffect,
     TurnOffEffect, RestoreRunningEffect, SaveEffect, RestoreStoppedEffect,
     AdmitEffect, AnswerOnlyEffect, BeginCaptureEffect, EndCaptureEffect,
     ComponentStateEffect, CaptureInAudioEffect, TakeNextEffect, PopNextEffect,
     TakeBackEffect, PopBackEffect, TakeNothingEffect, PendingStartEffect,
     PendingEmptyEffect, PollStartEffect, PendingWaitEffect, TransitionEffect,
     FinishStartEffect, StartedInAudioEffect, PublishEffect, SyncedEffect, PeerEffect,
     FaultEffect, RecoverEffect DEF Sends

\* Who changes the line.
LEMMA LineMoves ==
    ASSUME IInv, Next
    PROVE  /\ UNCHANGED requests \/ Sending \/ TurnOn \/ AnswerStarting \/ TurnOff
              \/ RestoreRunning \/ TakeNext \/ PopNext \/ TakeBack \/ PopBack
              \/ Fault \/ Recover
           /\ UNCHANGED published \/ Sending \/ TurnOn \/ AnswerStarting \/ TurnOff
              \/ RestoreRunning \/ Recover
           /\ UNCHANGED Upcoming \/ Sending \/ TurnOn \/ AnswerStarting \/ TurnOff
              \/ RestoreRunning \/ TakeNext \/ PopNext \/ Fault \/ Recover
           /\ UNCHANGED results \/ Drain \/ TurnOn \/ AnswerStarting \/ TurnOff
              \/ RestoreRunning \/ Publish \/ Fault \/ Recover
  BY ZenonT(60), Steps, ProcessEffect, RetainEffect, ReadyEffect, FlushedEffect,
     DrainEffect, DrainedEffect, SendEffect, TurnOnEffect, AnswerStartingEffect,
     TurnOffEffect, RestoreRunningEffect, SaveEffect, RestoreStoppedEffect,
     AdmitEffect, AnswerOnlyEffect, BeginCaptureEffect, EndCaptureEffect,
     ComponentStateEffect, CaptureInAudioEffect, TakeNextEffect, PopNextEffect,
     TakeBackEffect, PopBackEffect, TakeNothingEffect, PendingStartEffect,
     PendingEmptyEffect, PollStartEffect, PendingWaitEffect, TransitionEffect,
     FinishStartEffect, StartedInAudioEffect, PublishEffect, SyncedEffect, PeerEffect,
     FaultEffect, RecoverEffect DEF Sends

\* Who changes the words.
LEMMA WordMoves ==
    ASSUME IInv, Next
    PROVE  /\ UNCHANGED shared.hint \/ Sending \/ TurnOn \/ AnswerStarting \/ TurnOff
              \/ RestoreRunning \/ Admit \/ PopNext \/ PopBack \/ PendingWait
              \/ Fault \/ Recover
           /\ UNCHANGED shared.fault \/ Fault \/ Recover
           /\ UNCHANGED shared.revision \/ Admit \/ Recover
           /\ UNCHANGED shared.wanted \/ TurnOn \/ AnswerStarting \/ TurnOff
              \/ RestoreRunning \/ Recover
           /\ UNCHANGED shared.ready \/ PollStart \/ Transition \/ FinishStart
              \/ StartedInAudio \/ Fault \/ Recover
           /\ UNCHANGED shared.pending \/ Process \/ Retain \/ Ready \/ Flushed \/ Drain
              \/ EndCapture \/ ComponentState \/ CaptureInAudio \/ Synced
              \/ Recover
           /\ UNCHANGED shared.lastEdit \/ Sending \/ Recover
  BY ZenonT(60), Steps, ProcessEffect, RetainEffect, ReadyEffect, FlushedEffect,
     DrainEffect, DrainedEffect, SendEffect, TurnOnEffect, AnswerStartingEffect,
     TurnOffEffect, RestoreRunningEffect, SaveEffect, RestoreStoppedEffect,
     AdmitEffect, AnswerOnlyEffect, BeginCaptureEffect, EndCaptureEffect,
     ComponentStateEffect, CaptureInAudioEffect, TakeNextEffect, PopNextEffect,
     TakeBackEffect, PopBackEffect, TakeNothingEffect, PendingStartEffect,
     PendingEmptyEffect, PollStartEffect, PendingWaitEffect, TransitionEffect,
     FinishStartEffect, StartedInAudioEffect, PublishEffect, SyncedEffect, PeerEffect,
     FaultEffect, RecoverEffect DEF Sends

\* Who changes the mailbox.
LEMMA MailMoves ==
    ASSUME IInv, Next
    PROVE  /\ UNCHANGED <<mbox.st, mbox.bytes>> \/ AnswerStarting \/ Admit \/ AnswerOnly
              \/ EndCapture \/ ComponentState \/ CaptureInAudio \/ Fault
              \/ Recover
           /\ UNCHANGED <<mbox.op, mbox.barrier, mbox.stamp>> \/ AnswerStarting \/ Admit
              \/ AnswerOnly \/ Fault \/ Recover
  BY ZenonT(60), Steps, ProcessEffect, RetainEffect, ReadyEffect, FlushedEffect,
     DrainEffect, DrainedEffect, SendEffect, TurnOnEffect, AnswerStartingEffect,
     TurnOffEffect, RestoreRunningEffect, SaveEffect, RestoreStoppedEffect,
     AdmitEffect, AnswerOnlyEffect, BeginCaptureEffect, EndCaptureEffect,
     ComponentStateEffect, CaptureInAudioEffect, TakeNextEffect, PopNextEffect,
     TakeBackEffect, PopBackEffect, TakeNothingEffect, PendingStartEffect,
     PendingEmptyEffect, PollStartEffect, PendingWaitEffect, TransitionEffect,
     FinishStartEffect, StartedInAudioEffect, PublishEffect, SyncedEffect, PeerEffect,
     FaultEffect, RecoverEffect DEF Sends

\* Who changes the session and the peer.
LEMMA HostMoves ==
    ASSUME IInv, Next
    PROVE  /\ UNCHANGED <<session.running, session.epoch>> \/ PollStart \/ Transition
              \/ FinishStart \/ StartedInAudio \/ Recover
           /\ UNCHANGED peer.applied \/ Publish \/ PeerStep \/ Fault \/ Recover
           /\ UNCHANGED peer.capture.st \/ BeginCapture \/ EndCapture \/ CaptureInAudio
              \/ PeerStep \/ Fault \/ Recover
           /\ UNCHANGED peer.capture.bytes \/ EndCapture \/ CaptureInAudio \/ PeerStep
              \/ Fault \/ Recover
  BY ZenonT(60), Steps, ProcessEffect, RetainEffect, ReadyEffect, FlushedEffect,
     DrainEffect, DrainedEffect, SendEffect, TurnOnEffect, AnswerStartingEffect,
     TurnOffEffect, RestoreRunningEffect, SaveEffect, RestoreStoppedEffect,
     AdmitEffect, AnswerOnlyEffect, BeginCaptureEffect, EndCaptureEffect,
     ComponentStateEffect, CaptureInAudioEffect, TakeNextEffect, PopNextEffect,
     TakeBackEffect, PopBackEffect, TakeNothingEffect, PendingStartEffect,
     PendingEmptyEffect, PollStartEffect, PendingWaitEffect, TransitionEffect,
     FinishStartEffect, StartedInAudioEffect, PublishEffect, SyncedEffect, PeerEffect,
     FaultEffect, RecoverEffect DEF Sends

\* Who changes the values.
LEMMA ValueMoves ==
    ASSUME IInv, Next
    PROVE  /\ UNCHANGED plugin \/ ComponentState \/ PeerStep \/ Recover
           /\ UNCHANGED accepted \/ Retain \/ Drained \/ AnswerStarting \/ AnswerOnly
              \/ Recover
           /\ UNCHANGED <<snap.bytes, snap.generation, snap.through>> \/ EndCapture
              \/ ComponentState \/ CaptureInAudio
  BY ZenonT(60), Steps, ProcessEffect, RetainEffect, ReadyEffect, FlushedEffect,
     DrainEffect, DrainedEffect, SendEffect, TurnOnEffect, AnswerStartingEffect,
     TurnOffEffect, RestoreRunningEffect, SaveEffect, RestoreStoppedEffect,
     AdmitEffect, AnswerOnlyEffect, BeginCaptureEffect, EndCaptureEffect,
     ComponentStateEffect, CaptureInAudioEffect, TakeNextEffect, PopNextEffect,
     TakeBackEffect, PopBackEffect, TakeNothingEffect, PendingStartEffect,
     PendingEmptyEffect, PollStartEffect, PendingWaitEffect, TransitionEffect,
     FinishStartEffect, StartedInAudioEffect, PublishEffect, SyncedEffect, PeerEffect,
     FaultEffect, RecoverEffect DEF Sends

\* Who changes the counts.
LEMMA ClockMoves ==
    ASSUME IInv, Next
    PROVE  /\ UNCHANGED clock.stamps \/ Process \/ RestoreRunning \/ RestoreStopped
           /\ UNCHANGED mode
           /\ UNCHANGED clock.requests \/ Sending \/ TurnOn \/ AnswerStarting \/ TurnOff
              \/ RestoreRunning
           /\ UNCHANGED clock.starts \/ TurnOn \/ AnswerStarting
           /\ UNCHANGED clock.generation \/ Recover
  BY ZenonT(60), Steps, ProcessEffect, RetainEffect, ReadyEffect, FlushedEffect,
     DrainEffect, DrainedEffect, SendEffect, TurnOnEffect, AnswerStartingEffect,
     TurnOffEffect, RestoreRunningEffect, SaveEffect, RestoreStoppedEffect,
     AdmitEffect, AnswerOnlyEffect, BeginCaptureEffect, EndCaptureEffect,
     ComponentStateEffect, CaptureInAudioEffect, TakeNextEffect, PopNextEffect,
     TakeBackEffect, PopBackEffect, TakeNothingEffect, PendingStartEffect,
     PendingEmptyEffect, PollStartEffect, PendingWaitEffect, TransitionEffect,
     FinishStartEffect, StartedInAudioEffect, PublishEffect, SyncedEffect, PeerEffect,
     FaultEffect, RecoverEffect DEF Sends

\* Every step keeps the types.
LEMMA StepTyped ==
    ASSUME IInv, Next PROVE Typed'
  BY Steps, ProcessEffect, RetainEffect, ReadyEffect, FlushedEffect, DrainEffect,
     DrainedEffect, TurnOnEffect, AnswerStartingEffect, TurnOffEffect,
     RestoreRunningEffect, SaveEffect, RestoreStoppedEffect, AdmitEffect,
     AnswerOnlyEffect, BeginCaptureEffect, EndCaptureEffect, ComponentStateEffect,
     CaptureInAudioEffect, TakeNextEffect, PopNextEffect, TakeBackEffect,
     PopBackEffect, TakeNothingEffect, PendingStartEffect, PendingEmptyEffect,
     PollStartEffect, PendingWaitEffect, TransitionEffect, FinishStartEffect,
     StartedInAudioEffect, PublishEffect, SyncedEffect, PeerEffect, FaultEffect,
     RecoverEffect, SendEffect
  DEF Sends

\* The wake word is set by whoever publishes while the worker waits.
LEMMA StartSeesKept ==
    ASSUME IInv, Next PROVE StartSeesRequests'
<1>t. Typed /\ StartSeesRequests
  BY DEF IInv
<1>f. /\ w.pc \in Labels /\ Len(requests) \in Nat
      /\ shared.fault \in {"none", "outside", "own"} /\ shared.hint \in BOOLEAN
  BY <1>t, WorkerFields, QueueFields, SharedFields
<1>1. CASE UNCHANGED <<w.pc, shared.hint, requests, shared.fault>>
  BY <1>t, <1>1 DEF StartSeesRequests, Healthy, Between
<1>2. CASE Sending
  BY <1>t, <1>f, <1>2, SendEffect DEF StartSeesRequests, Healthy, Between, Sends
<1>3. CASE TurnOn \/ AnswerStarting \/ TurnOff \/ RestoreRunning \/ Admit
  BY <1>t, <1>f, <1>3, TurnOnEffect, AnswerStartingEffect, TurnOffEffect,
     RestoreRunningEffect, AdmitEffect DEF StartSeesRequests, Healthy, Between
<1>4. CASE EndCapture \/ ComponentState \/ TakeNext \/ PopNext \/ TakeBack \/ PopBack
  BY <1>t, <1>f, <1>4, EndCaptureEffect, ComponentStateEffect, TakeNextEffect,
     PopNextEffect, TakeBackEffect, PopBackEffect DEF StartSeesRequests, Healthy, Between
<1>5. CASE TakeNothing \/ PendingStart \/ PendingEmpty \/ PollStart \/ PendingWait
  BY <1>t, <1>f, <1>5, TakeNothingEffect, PendingStartEffect, PendingEmptyEffect,
     PollStartEffect, PendingWaitEffect DEF StartSeesRequests, Healthy, Between
<1>6. CASE Transition \/ FinishStart \/ Publish \/ Synced \/ Fault \/ Recover
  BY <1>t, <1>f, <1>6, TransitionEffect, FinishStartEffect, PublishEffect,
     SyncedEffect, FaultEffect, RecoverEffect DEF StartSeesRequests, Healthy, Between
<1> QED
  BY <1>1, <1>2, <1>3, <1>4, <1>5, <1>6, WorkerMoves, WordMoves, LineMoves

\* No step fails the instance itself, and after a failure from outside nothing is left.
LEMMA FaultKept ==
    ASSUME IInv, Next PROVE FaultInv'
<1>t. Typed /\ FaultInv
  BY DEF IInv
<1>f. /\ w.pc \in Labels
  BY <1>t, WorkerFields
<1>1. CASE Process \/ Retain \/ Ready \/ Flushed \/ Drain
  BY <1>t, <1>f, <1>1, ProcessEffect, RetainEffect, ReadyEffect, FlushedEffect,
     DrainEffect DEF FaultInv, Healthy, Between, Labels
<1>2. CASE Drained \/ TurnOn \/ AnswerStarting \/ TurnOff \/ RestoreRunning \/ Save
  BY <1>t, <1>f, <1>2, DrainedEffect, TurnOnEffect, AnswerStartingEffect,
     TurnOffEffect, RestoreRunningEffect, SaveEffect DEF FaultInv, Healthy, Between, Labels
<1>3. CASE RestoreStopped \/ Admit \/ AnswerOnly \/ BeginCapture \/ EndCapture
          \/ ComponentState
  BY <1>t, <1>f, <1>3, RestoreStoppedEffect, AdmitEffect, AnswerOnlyEffect,
     BeginCaptureEffect, EndCaptureEffect, ComponentStateEffect
  DEF FaultInv, Healthy, Between, Labels
<1>4. CASE CaptureInAudio \/ TakeNext \/ PopNext \/ TakeBack \/ PopBack \/ TakeNothing
  BY <1>t, <1>f, <1>4, CaptureInAudioEffect, TakeNextEffect, PopNextEffect,
     TakeBackEffect, PopBackEffect, TakeNothingEffect DEF FaultInv, Healthy, Between, Labels
<1>5. CASE PendingStart \/ PendingEmpty \/ PollStart \/ PendingWait \/ Transition
          \/ FinishStart
  BY <1>t, <1>f, <1>5, PendingStartEffect, PendingEmptyEffect, PollStartEffect,
     PendingWaitEffect, TransitionEffect, FinishStartEffect
  DEF FaultInv, Healthy, Between, Labels
<1>6. CASE StartedInAudio \/ Publish \/ Synced \/ PeerStep \/ Fault \/ Recover
  BY <1>t, <1>f, <1>6, StartedInAudioEffect, PublishEffect, SyncedEffect, PeerEffect,
     FaultEffect, RecoverEffect DEF FaultInv, Healthy, Between, Labels
<1>7. CASE Sending
  BY <1>t, <1>f, <1>7, SendEffect DEF FaultInv, Healthy, Between, Labels, Sends
<1> QED
  BY <1>1, <1>2, <1>3, <1>4, <1>5, <1>6, <1>7, Steps

\* The mailbox holds the owner's call.
LEMMA CallKept ==
    ASSUME IInv, Next PROVE CallInv'
<1>t. Typed /\ CallInv
  BY DEF IInv
<1>f. /\ cb.pc \in {"idle", "ready", "replay", "push", "drain"}
      /\ cb.running \in BOOLEAN /\ ctl.pc \in {"idle", "admit", "wait"}
      /\ ctl.op \in {0, 16, 18} /\ ctl.barrier \in Nat /\ ctl.stamp \in Nat
      /\ published + 1 \in Nat /\ shared.fault \in {"none", "outside", "own"}
      /\ mbox.st \in {"none", "asked", "answered"} /\ mbox.op \in {0, 16, 18}
      /\ mbox.barrier \in Nat /\ mbox.stamp \in Nat /\ clock.stamps \in Nat
      /\ clock.stamps + 1 \in Nat /\ published \in Nat
  BY <1>t, CallbackFields, CallFields, QueueFields, SharedFields, MailFields,
     ClockFields
<1>1. CASE UNCHANGED <<cb.pc, cb.running, ctl, mbox.st, mbox.op, mbox.barrier,
                      mbox.stamp, published, clock.stamps, shared.fault>>
  BY <1>t, <1>1 DEF CallInv, Healthy
<1>2. CASE Process \/ Retain \/ Ready \/ Flushed \/ Drained
  BY <1>t, <1>f, <1>2, ProcessEffect, RetainEffect, ReadyEffect, FlushedEffect,
     DrainedEffect DEF CallInv, Healthy
<1>3. CASE TurnOn
  BY <1>t, <1>f, <1>3, TurnOnEffect DEF CallInv, Healthy
<1>4. CASE AnswerStarting
  BY <1>t, <1>f, <1>4, AnswerStartingEffect DEF CallInv, Healthy
<1>5. CASE TurnOff
  BY <1>t, <1>f, <1>5, TurnOffEffect DEF CallInv, Healthy
<1>6. CASE RestoreRunning
  BY <1>t, <1>f, <1>6, RestoreRunningEffect DEF CallInv, Healthy
<1>7. CASE Save \/ RestoreStopped
  BY <1>t, <1>f, <1>7, SaveEffect, RestoreStoppedEffect DEF CallInv, Healthy
<1>8. CASE Admit \/ AnswerOnly \/ EndCapture \/ ComponentState \/ CaptureInAudio
          \/ Fault
  BY <1>t, <1>f, <1>8, AdmitEffect, AnswerOnlyEffect, EndCaptureEffect,
     ComponentStateEffect, CaptureInAudioEffect, FaultEffect DEF CallInv, Healthy
<1>9. CASE Sending
  BY <1>t, <1>f, <1>9, SendEffect DEF CallInv, Healthy, Sends
<1>10. CASE Recover
  BY <1>t, <1>f, <1>10, RecoverEffect DEF CallInv, Healthy, IdleControl
<1> QED
  BY <1>1, <1>2, <1>3, <1>4, <1>5, <1>6, <1>7, <1>8, <1>9, <1>10, CallbackMoves,
     CallMoves, MailMoves, LineMoves, ClockMoves, WordMoves

\* The callback knows the state's revision, the words follow it and the session.
LEMMA CallbackKept ==
    ASSUME IInv, Next PROVE CallbackInv'
<1>t. Typed /\ CallbackInv /\ CallInv
  BY DEF IInv
<1>f. /\ cb.pc \in {"idle", "ready", "replay", "push", "drain"} /\ cb.epoch \in Nat
      /\ cb.epoch + 1 \in Nat /\ cb.running \in BOOLEAN /\ cb.flush \in BOOLEAN
      /\ cb.rev \in Nat /\ ctl.op \in {0, 16, 18} /\ w.item \in Items
      /\ w.item.kind \in {"none", "START", "STOP", "AUDIO"} /\ w.item.epoch \in Nat
      /\ w.item.ticket \in Nat /\ w.item.sync \in BOOLEAN /\ w.item.edits \in Values
      /\ shared.revision \in Nat /\ shared.revision + 1 \in Nat
      /\ shared.ready \in Nat /\ shared.wanted \in Nat
      /\ shared.fault \in {"none", "outside", "own"}
      /\ mbox.st \in {"none", "asked", "answered"} /\ mbox.op \in {0, 16, 18}
      /\ session.running \in BOOLEAN /\ session.epoch \in Nat
  BY <1>t, CallbackFields, CallFields, WorkerFields, SharedFields, MailFields,
     SessionFields
<1>1. CASE UNCHANGED <<cb.pc, cb.running, cb.rev, cb.epoch, cb.flush, shared.revision,
                      shared.wanted, shared.ready, session.running,
                      session.epoch, mbox.st, mbox.op, w.item, ctl.op,
                      shared.fault>>
  BY <1>t, <1>1 DEF CallbackInv, Healthy, Open
<1>2. CASE Process \/ Admit
  BY <1>t, <1>f, <1>2, ProcessEffect, AdmitEffect DEF CallbackInv, Healthy, Open, CallInv
<1>3. CASE Retain \/ Ready \/ Flushed
  BY <1>t, <1>f, <1>3, RetainEffect, ReadyEffect, FlushedEffect DEF CallbackInv, Healthy, Open
<1>4. CASE Drained
  BY <1>t, <1>f, <1>4, DrainedEffect DEF CallbackInv, Healthy, Open
<1>5. CASE TurnOn
  BY <1>t, <1>f, <1>5, TurnOnEffect DEF CallbackInv, Healthy, Open
<1>6. CASE AnswerStarting
  BY <1>t, <1>f, <1>6, AnswerStartingEffect DEF CallbackInv, Healthy, Open
<1>7. CASE RestoreRunning
  BY <1>t, <1>f, <1>7, RestoreRunningEffect DEF CallbackInv, Healthy, Open
<1>8. CASE Save \/ RestoreStopped
  BY <1>t, <1>f, <1>8, SaveEffect, RestoreStoppedEffect DEF CallbackInv, Healthy, Open
<1>9. CASE AnswerOnly \/ EndCapture \/ ComponentState
  BY <1>t, <1>f, <1>9, AnswerOnlyEffect, EndCaptureEffect, ComponentStateEffect
     DEF CallbackInv, Healthy, Open
<1>10. CASE CaptureInAudio
  BY <1>t, <1>f, <1>10, CaptureInAudioEffect DEF CallbackInv, Healthy, Open
<1>11. CASE TakeNext
  BY <1>t, <1>f, <1>11, TakeNextEffect DEF CallbackInv, Healthy, Open
<1>12. CASE PopNext
  BY <1>t, <1>f, <1>12, PopNextEffect DEF CallbackInv, Healthy, Open
<1>13. CASE TakeBack
  BY <1>t, <1>f, <1>13, TakeBackEffect DEF CallbackInv, Healthy, Open
<1>14. CASE PollStart \/ Transition
  BY <1>t, <1>f, <1>14, PollStartEffect, TransitionEffect DEF CallbackInv, Healthy, Open
<1>15. CASE FinishStart \/ StartedInAudio \/ Publish \/ Synced \/ Fault \/ Recover
  BY <1>t, <1>f, <1>15, FinishStartEffect, StartedInAudioEffect, PublishEffect,
     SyncedEffect, FaultEffect, RecoverEffect DEF CallbackInv, Healthy, Open
<1>16. CASE Sending
  <2>s. PICK edits \in Values, sync \in BOOLEAN, flush \in BOOLEAN :
           Sends(edits, sync, flush)
    BY <1>16, SendEffect
  <2>1. /\ Healthy /\ cb.running /\ cb.epoch > 0 /\ cb.rev = shared.revision
        /\ Grown("AUDIO", cb.epoch, cb.submitted + 1, edits, sync)
        /\ flush => /\ cb.pc = "replay" /\ ~Nothing /\ Edited(edits) # {}
                    /\ Edited(edits) \subseteq Edited(cb.retained)
                    /\ \A p \in Params : edits[p] \in {0, cb.retained[p]}
                    /\ sync <=> Edited(cb.retained) = Edited(edits)
        /\ ~flush => cb.pc = "push" /\ edits = cb.edits /\ ~sync
        /\ cb'.pc = "drain"
        /\ cb'.flush <=> flush
        /\ UNCHANGED <<cb.running, cb.rev, cb.epoch, shared.revision, shared.wanted,
                       shared.ready, session, mbox, w, ctl, shared.fault>>
    BY <2>s DEF Sends
  <2> QED
    BY <1>t, <1>f, <2>1 DEF CallbackInv, Healthy, Open
<1>17. CASE TurnOff
  <2>1. /\ Healthy /\ cb.running /\ cb.pc = "idle" /\ ctl.op # 18
        /\ Grown("STOP", cb.epoch, 0, NoEdits, FALSE) /\ ~cb'.running
        /\ shared'.wanted = 0
        /\ UNCHANGED <<cb.pc, cb.rev, cb.epoch, cb.flush, shared.revision, shared.ready,
                       session, mbox, w, ctl, shared.fault>>
    BY <1>17, TurnOffEffect
  <2> QED
    BY <1>t, <1>f, <2>1 DEF CallbackInv, Healthy, Open
<1> QED
  BY <1>1, <1>2, <1>3, <1>4, <1>5, <1>6, <1>7, <1>8, <1>9, <1>10, <1>11, <1>12, <1>13,
     <1>14, <1>15, <1>16, <1>17, CallbackMoves, WordMoves, HostMoves, MailMoves,
     WorkerMoves, CallMoves

\* What the worker holds at each of its steps.
LEMMA WorkerKept ==
    ASSUME IInv, Next PROVE WorkerInv'
<1>t. Typed /\ WorkerInv
  BY DEF IInv
<1>f. /\ w.pc \in Labels /\ w.item \in Items
      /\ w.item.kind \in {"none", "START", "STOP", "AUDIO"} /\ w.item.epoch \in Nat
      /\ w.item.ticket \in Nat /\ w.item.sync \in BOOLEAN /\ w.item.edits \in Values
      /\ w.overlap \in BOOLEAN /\ w.deferred \in Seq(Items) /\ Len(w.deferred) <= 1
      /\ session.running \in BOOLEAN /\ session.epoch \in Nat
  BY <1>t, WorkerFields, SessionFields
<1>1. CASE UNCHANGED <<w.pc, w.item, w.overlap, session.running, session.epoch,
                      peer.applied, shared.fault>>
  BY <1>t, <1>1 DEF WorkerInv, Healthy
<1>2. CASE EndCapture \/ ComponentState \/ TakeBack \/ TakeNothing \/ PendingStart
  BY <1>t, <1>f, FieldsTyped, <1>2, EndCaptureEffect, ComponentStateEffect,
     TakeBackEffect, TakeNothingEffect, PendingStartEffect
  DEF WorkerInv, Healthy, Between, Starting
<1>3. CASE PendingEmpty \/ PollStart \/ PendingWait \/ Transition \/ FinishStart
  BY <1>t, <1>f, FieldsTyped, <1>3, PendingEmptyEffect, PollStartEffect,
     PendingWaitEffect, TransitionEffect, FinishStartEffect
  DEF WorkerInv, Healthy, Between, Starting
<1>4. CASE StartedInAudio \/ Publish \/ Synced \/ PeerStep \/ Fault \/ Recover
  BY <1>t, <1>f, FieldsTyped, <1>4, StartedInAudioEffect, PublishEffect, SyncedEffect,
     PeerEffect, FaultEffect, RecoverEffect DEF WorkerInv, Healthy, Between, Starting
<1>5. CASE PopNext
  BY <1>t, <1>f, FieldsTyped, <1>5, PopNextEffect, StartHeld DEF WorkerInv, Healthy,
     Starting, Removed, Between
<1>6. CASE PopBack
  BY <1>t, <1>f, FieldsTyped, <1>6, PopBackEffect DEF WorkerInv, Healthy, Starting, Between
<1>7. CASE TakeNext
  <2>1. /\ Healthy /\ w.pc \in Between /\ Upcoming[1] \in Items /\ w'.item = Upcoming[1]
        /\ Upcoming[1].kind = "AUDIO" => w'.pc = "audio"
        /\ Upcoming[1].kind # "AUDIO" => w'.pc \in {"pstart", "transition"} /\ peer.capture.st = "none"
        /\ w'.pc = "pstart" => Upcoming[1].kind = "START"
        /\ Removed /\ UNCHANGED <<w.overlap, session, peer.applied, shared>>
    BY <1>7, TakeNextEffect
  <2>2. /\ Upcoming[1].kind \in {"START", "STOP", "AUDIO"} /\ Upcoming[1].epoch > 0
        /\ Upcoming[1].kind = "START" <=> ~session.running
        /\ Upcoming[1].kind # "START" => Upcoming[1].epoch = session.epoch
    BY <1>t, <1>f, FieldsTyped, <2>1, HeadReached DEF WorkerInv, Removed, AheadOpen,
       AheadEpoch, Open
  <2>3. w.pc # "audio" /\ ~w.overlap /\ ~peer.applied
    BY <1>t, <2>1 DEF WorkerInv, Between
  <2> QED
    BY <1>t, <2>1, <2>2, <2>3 DEF WorkerInv, Between, Starting
<1> QED
  BY <1>1, <1>2, <1>3, <1>4, <1>5, <1>6, <1>7, WorkerMoves, HostMoves, WordMoves

\* Only AUDIO carries edits, a ticket and an acknowledgement.
LEMMA BareKept ==
    ASSUME IInv, Next PROVE BareInv'
<1>t. Typed /\ BareInv
  BY DEF IInv
<1>f. /\ cb.epoch \in Nat /\ cb.epoch + 1 \in Nat /\ cb.submitted \in Nat
      /\ cb.submitted + 1 \in Nat /\ w.item \in Items
      /\ w.item.kind \in {"none", "START", "STOP", "AUDIO"} /\ w.item.epoch \in Nat
      /\ w.item.ticket \in Nat /\ w.item.sync \in BOOLEAN /\ w.item.edits \in Values
      /\ Len(Upcoming) \in Nat
      /\ \A i \in 1 .. Len(Upcoming) : Upcoming[i] \in Items
  BY <1>t, CallbackFields, WorkerFields, Line
<1>1. CASE UNCHANGED <<w.item, Upcoming, shared.fault>>
  BY <1>t, <1>1 DEF BareInv, Healthy, Bare
<1>2. CASE AnswerStarting
  BY <1>t, <1>f, FieldsTyped, <1>2, AnswerStartingEffect DEF BareInv, Healthy, Bare, Grown
<1>3. CASE TurnOff
  BY <1>t, <1>f, FieldsTyped, <1>3, TurnOffEffect DEF BareInv, Healthy, Bare, Grown
<1>4. CASE RestoreRunning
  BY <1>t, <1>f, FieldsTyped, <1>4, RestoreRunningEffect DEF BareInv, Healthy, Bare, Grown
<1>5. CASE TakeNext
  BY <1>t, <1>f, FieldsTyped, <1>5, TakeNextEffect DEF BareInv, Healthy, Bare, Shrunk
<1>6. CASE PopNext
  BY <1>t, <1>f, FieldsTyped, <1>6, PopNextEffect DEF BareInv, Healthy, Bare, Shrunk
<1>7. CASE TakeBack \/ PollStart \/ Transition \/ FinishStart
  BY <1>t, <1>f, FieldsTyped, <1>7, TakeBackEffect, PollStartEffect, TransitionEffect,
     FinishStartEffect DEF BareInv, Healthy, Bare
<1>8. CASE Publish \/ Synced \/ Fault \/ Recover
  BY <1>t, <1>f, FieldsTyped, <1>8, PublishEffect, SyncedEffect, FaultEffect,
     RecoverEffect DEF BareInv, Healthy, Bare
<1>9. CASE Sending
  <2>s. PICK edits \in Values, sync \in BOOLEAN, flush \in BOOLEAN :
           Sends(edits, sync, flush)
    BY <1>9, SendEffect
  <2>1. /\ Healthy /\ Grown("AUDIO", cb.epoch, cb.submitted + 1, edits, sync)
        /\ UNCHANGED <<w, shared.fault>>
    BY <2>s DEF Sends
  <2> QED
    BY <1>t, <1>f, FieldsTyped, <2>1 DEF BareInv, Healthy, Bare, Grown
<1>10. CASE TurnOn
  <2>1. /\ Healthy /\ Grown("START", cb.epoch + 1, 0, NoEdits, FALSE)
        /\ UNCHANGED <<w, shared.fault>>
    BY <1>10, TurnOnEffect
  <2> QED
    BY <1>t, <1>f, FieldsTyped, <2>1 DEF BareInv, Healthy, Bare, Grown
<1> QED
  BY <1>1, <1>2, <1>3, <1>4, <1>5, <1>6, <1>7, <1>8, <1>9, <1>10, WorkerMoves,
     LineMoves, WordMoves

\* A request put back waits for the save that precedes it.
LEMMA DeferredKept ==
    ASSUME IInv, Next PROVE DeferredInv'
<1>t. Typed /\ DeferredInv /\ CaptureInv
  BY DEF IInv
<1>f. /\ w.pc \in Labels /\ w.item \in Items
      /\ w.item.kind \in {"none", "START", "STOP", "AUDIO"} /\ w.item.epoch \in Nat
      /\ w.item.ticket \in Nat /\ w.item.sync \in BOOLEAN /\ w.item.edits \in Values
      /\ w.deferred \in Seq(Items) /\ Len(w.deferred) <= 1 /\ Len(requests) \in Nat
      /\ published + 1 \in Nat /\ shared.fault \in {"none", "outside", "own"}
      /\ mbox.st \in {"none", "asked", "answered"} /\ mbox.op \in {0, 16, 18}
      /\ mbox.barrier \in Nat /\ peer.capture.st \in {"none", "taken", "done"}
      /\ published \in Nat /\ Len(Upcoming) \in Nat
      /\ \A i \in 1 .. Len(Upcoming) : Upcoming[i] \in Items
  BY <1>t, WorkerFields, QueueFields, SharedFields, MailFields, PeerFields, Line
<1>1. CASE UNCHANGED <<w.pc, w.deferred, w.item, mbox.st, mbox.op, mbox.barrier,
                      requests, published, Upcoming, peer.capture.st,
                      shared.fault>>
  BY <1>t, <1>1 DEF DeferredInv, Healthy, Between, consumed
<1>2. CASE Sending
  BY <1>t, <1>f, Line, <1>2, SendEffect DEF DeferredInv, Healthy, Between, consumed, Sends
<1>3. CASE TurnOn
  BY <1>t, <1>f, Line, <1>3, TurnOnEffect DEF DeferredInv, Healthy, Between, consumed
<1>4. CASE AnswerStarting
  BY <1>t, <1>f, Line, <1>4, AnswerStartingEffect DEF DeferredInv, Healthy, Between, consumed
<1>5. CASE TurnOff
  BY <1>t, <1>f, Line, <1>5, TurnOffEffect DEF DeferredInv, Healthy, Between, consumed
<1>6. CASE RestoreRunning
  BY <1>t, <1>f, Line, <1>6, RestoreRunningEffect DEF DeferredInv, Healthy, Between, consumed
<1>7. CASE Admit \/ AnswerOnly
  BY <1>t, <1>f, Line, <1>7, AdmitEffect, AnswerOnlyEffect DEF DeferredInv, Healthy,
     Between, consumed
<1>8. CASE BeginCapture \/ EndCapture \/ ComponentState \/ CaptureInAudio \/ TakeNext
          \/ PopNext
  BY <1>t, <1>f, Line, <1>8, BeginCaptureEffect, EndCaptureEffect,
     ComponentStateEffect, CaptureInAudioEffect, TakeNextEffect, PopNextEffect
  DEF DeferredInv, Healthy, Between, consumed
<1>9. CASE TakeNothing
  BY <1>t, <1>f, Line, <1>9, TakeNothingEffect DEF DeferredInv, Healthy, Between, consumed
<1>10. CASE PendingStart \/ PendingEmpty
  BY <1>t, <1>f, Line, <1>10, PendingStartEffect, PendingEmptyEffect DEF DeferredInv,
     Healthy, Between, consumed
<1>11. CASE PollStart \/ PendingWait \/ Transition
  BY <1>t, <1>f, Line, <1>11, PollStartEffect, PendingWaitEffect, TransitionEffect
     DEF DeferredInv, Healthy, Between, consumed
<1>12. CASE FinishStart \/ Publish \/ Synced \/ PeerStep \/ Fault \/ Recover
  BY <1>t, <1>f, Line, <1>12, FinishStartEffect, PublishEffect, SyncedEffect,
     PeerEffect, FaultEffect, RecoverEffect DEF DeferredInv, Healthy, Between, consumed
<1>13. CASE TakeBack
  BY <1>t, <1>f, Line, <1>13, TakeBackEffect DEF DeferredInv, Healthy, Between, consumed,
     CaptureInv, CaptureFenced
<1>14. CASE PopBack
  BY <1>t, <1>f, Line, <1>14, PopBackEffect, StartHeld DEF DeferredInv, Healthy, Between,
     consumed, Starting
<1> QED
  BY <1>1, <1>2, <1>3, <1>4, <1>5, <1>6, <1>7, <1>8, <1>9, <1>10, <1>11, <1>12, <1>13,
     <1>14, WorkerMoves, MailMoves, LineMoves, HostMoves, WordMoves

\* The line leads from the session's start to the callback's.
LEMMA LeadsKept ==
    ASSUME IInv, Next PROVE LineInv'
<1>t. Typed /\ LineInv /\ WorkerInv /\ CallbackInv
  BY DEF IInv
<1>f. /\ cb.epoch \in Nat /\ cb.epoch + 1 \in Nat /\ cb.running \in BOOLEAN
      /\ cb.submitted \in Nat /\ cb.submitted + 1 \in Nat /\ w.item \in Items
      /\ w.item.kind \in {"none", "START", "STOP", "AUDIO"} /\ w.item.epoch \in Nat
      /\ w.item.ticket \in Nat /\ w.item.sync \in BOOLEAN /\ w.item.edits \in Values
      /\ session.running \in BOOLEAN /\ session.epoch \in Nat /\ Len(Upcoming) \in Nat
      /\ \A i \in 1 .. Len(Upcoming) : Upcoming[i] \in Items
  BY <1>t, CallbackFields, WorkerFields, SessionFields, Line
<1>1. CASE UNCHANGED <<w.pc, w.item, session.running, session.epoch, cb.epoch,
                      cb.running, Upcoming, shared.fault>>
  BY <1>t, <1>1 DEF LineInv, Healthy, AheadEpoch, AheadOpen, Open, Between
<1>2. CASE EndCapture \/ ComponentState \/ TakeBack \/ PopBack \/ TakeNothing
  BY <1>t, <1>f, FieldsTyped, <1>2, EndCaptureEffect, ComponentStateEffect,
     TakeBackEffect, PopBackEffect, TakeNothingEffect
  DEF LineInv, Healthy, AheadEpoch, AheadOpen, Open, Between, WorkerInv, Starting
<1>3. CASE PendingStart \/ PendingEmpty
  BY <1>t, <1>f, FieldsTyped, <1>3, PendingStartEffect, PendingEmptyEffect DEF LineInv,
     Healthy, AheadEpoch, AheadOpen, Open, Between, WorkerInv, Starting
<1>4. CASE PollStart \/ PendingWait \/ Transition
  BY <1>t, <1>f, FieldsTyped, <1>4, PollStartEffect, PendingWaitEffect,
     TransitionEffect
  DEF LineInv, Healthy, AheadEpoch, AheadOpen, Open, Between, WorkerInv, Starting
<1>5. CASE FinishStart \/ StartedInAudio \/ Publish \/ Synced \/ Fault
  BY <1>t, <1>f, FieldsTyped, <1>5, FinishStartEffect, StartedInAudioEffect,
     PublishEffect, SyncedEffect, FaultEffect
  DEF LineInv, Healthy, AheadEpoch, AheadOpen, Open, Between, WorkerInv, Starting
<1>6. CASE Sending
  <2>s. PICK edits \in Values, sync \in BOOLEAN, flush \in BOOLEAN :
           Sends(edits, sync, flush)
    BY <1>6, SendEffect
  <2>1. /\ Healthy /\ cb.running /\ cb.epoch > 0
        /\ Added(Item("AUDIO", cb.epoch, cb.submitted + 1, edits, sync))
        /\ UNCHANGED <<w, session, cb.epoch, cb.running, shared.fault>>
    BY <2>s DEF Sends
  <2> DEFINE item == Item("AUDIO", cb.epoch, cb.submitted + 1, edits, sync)
  <2>2. item \in Items /\ Upcoming' = Append(Upcoming, item)
    BY <1>t, <1>f, FieldsTyped, <2>1, Line DEF Added, Item, Items
  <2>3. item.kind = "AUDIO" /\ item.epoch = cb.epoch
    BY DEF Item
  <2>4. Leads(AheadEpoch, AheadOpen, Upcoming, cb.epoch, cb.epoch)
    BY <1>t, <1>f, FieldsTyped, <2>1 DEF LineInv, Open
  <2> HIDE DEF item
  <2>6. cb.epoch \in Nat /\ (cb.running => cb.epoch \in Nat \ {0})
    BY <1>t, <1>f, FieldsTyped DEF CallbackInv
  <2>5. Leads(AheadEpoch, AheadOpen, Append(Upcoming, item), cb.epoch, cb.epoch)
    BY <2>1, <2>6, <2>2, <2>3, <2>4, Line, AheadNumbers, LeadsByAudio
  <2> QED
    BY <1>t, <1>f, FieldsTyped, <2>1, <2>2, <2>5 DEF LineInv, AheadEpoch, AheadOpen, Open
<1>7. CASE TurnOn \/ AnswerStarting
  <2>1. /\ Healthy /\ ~cb.running /\ cb'.epoch = cb.epoch + 1 /\ cb'.running
        /\ Added(Item("START", cb.epoch + 1, 0, NoEdits, FALSE))
        /\ UNCHANGED <<w, session, shared.fault>>
    BY <1>7, TurnOnEffect, AnswerStartingEffect
  <2> DEFINE item == Item("START", cb.epoch + 1, 0, NoEdits, FALSE)
  <2>2. item \in Items /\ Upcoming' = Append(Upcoming, item)
    BY <1>t, <1>f, FieldsTyped, <2>1, Line DEF Added, Item, Items
  <2>3. item.kind = "START" /\ item.epoch = cb.epoch + 1
    BY DEF Item
  <2>4. Leads(AheadEpoch, AheadOpen, Upcoming, cb.epoch, 0)
    BY <1>t, <1>f, FieldsTyped, <2>1 DEF LineInv, Open
  <2> HIDE DEF item
  <2>6. cb.epoch \in Nat /\ (cb.running => cb.epoch \in Nat \ {0})
    BY <1>t, <1>f, FieldsTyped DEF CallbackInv
  <2>5. Leads(AheadEpoch, AheadOpen, Append(Upcoming, item), cb.epoch + 1, cb.epoch + 1)
    BY <2>1, <2>6, <2>2, <2>3, <2>4, Line, AheadNumbers, LeadsByStart
  <2> QED
    BY <1>t, <1>f, FieldsTyped, <2>1, <2>2, <2>5 DEF LineInv, AheadEpoch, AheadOpen, Open
<1>8. CASE TurnOff \/ RestoreRunning
  <2>1. /\ Healthy /\ cb.running /\ ~cb'.running
        /\ Added(Item("STOP", cb.epoch, 0, NoEdits, FALSE))
        /\ UNCHANGED <<w, session, cb.epoch, shared.fault>>
    BY <1>8, TurnOffEffect, RestoreRunningEffect
  <2> DEFINE item == Item("STOP", cb.epoch, 0, NoEdits, FALSE)
  <2>2. item \in Items /\ Upcoming' = Append(Upcoming, item)
    BY <1>t, <1>f, FieldsTyped, <2>1, Line DEF Added, Item, Items
  <2>3. item.kind = "STOP" /\ item.epoch = cb.epoch
    BY DEF Item
  <2>4. Leads(AheadEpoch, AheadOpen, Upcoming, cb.epoch, cb.epoch)
    BY <1>t, <1>f, FieldsTyped, <2>1 DEF LineInv, Open
  <2> HIDE DEF item
  <2>6. cb.epoch \in Nat /\ (cb.running => cb.epoch \in Nat \ {0})
    BY <1>t, <1>f, FieldsTyped DEF CallbackInv
  <2>5. Leads(AheadEpoch, AheadOpen, Append(Upcoming, item), cb.epoch, 0)
    BY <2>1, <2>6, <2>2, <2>3, <2>4, Line, AheadNumbers, LeadsByStop
  <2> QED
    BY <1>t, <1>f, FieldsTyped, <2>1, <2>2, <2>5 DEF LineInv, AheadEpoch, AheadOpen, Open
<1>9. CASE TakeNext
  <2>1. /\ Healthy /\ w.pc \in Between /\ Upcoming[1] \in Items /\ w'.item = Upcoming[1]
        /\ Upcoming[1].kind = "AUDIO" => w'.pc = "audio"
        /\ Upcoming[1].kind # "AUDIO" => w'.pc \in {"pstart", "transition"} /\ peer.capture.st = "none"
        /\ w'.pc = "pstart" => Upcoming[1].kind = "START"
        /\ Removed /\ UNCHANGED <<session, cb, shared>>
    BY <1>9, TakeNextEffect
  <2>2. Leads(AheadEpoch, AheadOpen, Upcoming, cb.epoch, Open(cb.running, cb.epoch))
    BY <1>t, <2>1 DEF LineInv
  <2>3. Leads(Upcoming[1].epoch, Open(Upcoming[1].kind # "STOP", Upcoming[1].epoch),
              Tail(Upcoming), cb.epoch, Open(cb.running, cb.epoch))
    <3>1. cb.epoch \in Nat /\ Open(cb.running, cb.epoch) \in Nat /\ Upcoming # <<>>
      BY <1>t, <1>f, FieldsTyped, <2>1 DEF Open, Removed
    <3> QED
      BY <2>2, <3>1, Line, AheadNumbers, LeadsByHead
  <2>4. w'.pc \notin Between
    BY <2>1 DEF Between
  <2> QED
    BY <2>1, <2>3, <2>4 DEF LineInv, AheadEpoch, AheadOpen, Open, Removed
<1>10. CASE PopNext
  <2>1. /\ Healthy /\ w.pc \in {"pop1", "pop2"} /\ Upcoming[1] \in Items
        /\ Upcoming[1].kind \in {"STOP", "AUDIO"} /\ Upcoming[1].epoch = w.item.epoch
        /\ w'.pc = IF Upcoming[1].kind = "AUDIO" THEN "audio" ELSE "finish"
        /\ w'.item = Upcoming[1] /\ Removed /\ UNCHANGED <<session, cb, shared.fault>>
    BY <1>10, PopNextEffect
  <2>2. Leads(AheadEpoch, AheadOpen, Upcoming, cb.epoch, Open(cb.running, cb.epoch))
    BY <1>t, <2>1 DEF LineInv
  <2>3. Leads(Upcoming[1].epoch, Open(Upcoming[1].kind # "STOP", Upcoming[1].epoch),
              Tail(Upcoming), cb.epoch, Open(cb.running, cb.epoch))
    <3>1. cb.epoch \in Nat /\ Open(cb.running, cb.epoch) \in Nat /\ Upcoming # <<>>
      BY <1>t, <1>f, FieldsTyped, <2>1 DEF Open, Removed
    <3> QED
      BY <2>2, <3>1, Line, AheadNumbers, LeadsByHead
  <2>4. w'.pc \notin Between
    BY <2>1 DEF Between
  <2> QED
    BY <2>1, <2>3, <2>4 DEF LineInv, AheadEpoch, AheadOpen, Open, Removed
<1>11. CASE Recover
  <2>1. /\ shared.fault = "outside" /\ Upcoming' = <<>> /\ Len(Upcoming') = 0
        /\ cb'.epoch = 0 /\ ~cb'.running /\ w'.pc = "top" /\ w'.item = NoItem
        /\ shared'.fault = "none" /\ ~session'.running /\ session'.epoch = 0
    BY <1>11, RecoverEffect
  <2>2. Upcoming' = <<>> /\ Len(<<>>) = 0
    BY <2>1
  <2> QED
    BY <2>1, <2>2 DEF LineInv, AheadEpoch, AheadOpen, Open, Between, Leads, NoItem, Item
<1> QED
  BY <1>1, <1>2, <1>3, <1>4, <1>5, <1>6, <1>7, <1>8, <1>9, <1>10, <1>11, WorkerMoves,
     HostMoves, CallbackMoves, LineMoves, WordMoves

\* The line's tickets follow the callback's count.
LEMMA RequestTicketsKept ==
    ASSUME IInv, Next PROVE (Healthy /\ cb.running => RequestTickets)'
<1>t. Typed /\ TicketInv /\ WorkerInv /\ BoundsInv
  BY DEF IInv
<1>f. /\ cb.epoch \in Nat /\ cb.epoch + 1 \in Nat /\ cb.running \in BOOLEAN
      /\ cb.submitted \in Nat /\ cb.submitted + 1 \in Nat /\ w.item.epoch \in Nat
      /\ w.item.ticket \in Nat /\ Len(Upcoming) \in Nat
      /\ \A i \in 1 .. Len(Upcoming) : Upcoming[i].epoch \in Nat /\ Upcoming[i].ticket \in Nat
  BY <1>t, CallbackFields, WorkerFields, LineFields
<1>1. CASE UNCHANGED <<w.pc, w.item, cb.epoch, cb.running, cb.submitted, Upcoming,
                      shared.fault>>
  BY <1>t, <1>1 DEF Healthy, TicketInv, RequestTickets, Between
<1>2. CASE TurnOff \/ RestoreRunning \/ EndCapture \/ ComponentState \/ TakeBack
  BY <1>t, <1>f, FieldsTyped, <1>2, TurnOffEffect, RestoreRunningEffect,
     EndCaptureEffect, ComponentStateEffect, TakeBackEffect
  DEF Healthy, TicketInv, RequestTickets, Between
<1>3. CASE PopBack \/ TakeNothing \/ PendingStart \/ PendingEmpty \/ PendingWait
  BY <1>t, <1>f, FieldsTyped, <1>3, PopBackEffect, TakeNothingEffect,
     PendingStartEffect, PendingEmptyEffect, PendingWaitEffect
  DEF Healthy, TicketInv, RequestTickets, Between
<1>4. CASE Transition
  BY <1>t, <1>f, FieldsTyped, <1>4, TransitionEffect DEF Healthy, TicketInv, RequestTickets,
     Between
<1>5. CASE Publish
  BY <1>t, <1>f, FieldsTyped, <1>5, PublishEffect DEF Healthy, TicketInv, RequestTickets,
     Between
<1>6. CASE Synced \/ Fault \/ Recover
  BY <1>t, <1>f, FieldsTyped, <1>6, SyncedEffect, FaultEffect, RecoverEffect DEF Healthy,
     TicketInv, RequestTickets, Between
<1>7. CASE Sending
  <2>s. PICK edits \in Values, sync \in BOOLEAN, flush \in BOOLEAN :
           Sends(edits, sync, flush)
    BY <1>7, SendEffect
  <2>1. /\ Healthy /\ cb.running /\ cb.epoch > 0
        /\ Grown("AUDIO", cb.epoch, cb.submitted + 1, edits, sync)
        /\ cb'.submitted = cb.submitted + 1
        /\ UNCHANGED <<w, cb.epoch, cb.running, shared.fault>>
    BY <2>s DEF Sends
  <2>a. RequestTickets
    BY <1>t, <2>1 DEF TicketInv
  <2>e. cb'.submitted = cb.submitted + 1 /\ cb'.epoch = cb.epoch
    BY <1>f, <2>1
  <2>2. ASSUME NEW i \in 1 .. Len(Upcoming')
        PROVE  Upcoming'[i].epoch = cb'.epoch =>
                   Upcoming'[i].ticket = cb'.submitted + i - Len(Upcoming')
    <3>1. CASE i \in 1 .. Len(Upcoming)
      <4>1. Upcoming'[i] = Upcoming[i] /\ Len(Upcoming') = Len(Upcoming) + 1
        BY <1>f, <2>1, <3>1 DEF Grown
      <4>2. Upcoming[i].epoch = cb.epoch =>
                Upcoming[i].ticket = cb.submitted + i - Len(Upcoming)
        BY <2>a, <2>e, <3>1 DEF RequestTickets
      <4> QED
        BY <1>f, <2>e, <3>1, <4>1, <4>2
    <3>2. CASE i = Len(Upcoming) + 1
      BY <1>f, <2>1, <3>2 DEF Grown
    <3> QED
      BY <2>1, <3>1, <3>2 DEF Grown
  <2>b. w' = w /\ Len(Upcoming') = Len(Upcoming) + 1
    BY <2>1 DEF Grown
  <2>3. w.pc \notin Between /\ w.item.kind = "AUDIO" /\ w.item.epoch = cb.epoch =>
            w.item.ticket = cb'.submitted - Len(Upcoming')
    BY <1>f, <2>a, <2>b, <2>e DEF RequestTickets
  <2> QED
    BY <1>t, <1>f, FieldsTyped, <2>1, <2>2, <2>3 DEF RequestTickets
<1>8. CASE TurnOn \/ AnswerStarting
  <2>1. /\ Healthy /\ ~cb.running /\ Grown("START", cb.epoch + 1, 0, NoEdits, FALSE)
        /\ cb'.epoch = cb.epoch + 1 /\ cb'.running /\ cb'.submitted = 0
        /\ UNCHANGED <<w, shared.fault>>
    BY <1>8, TurnOnEffect, AnswerStartingEffect
  <2>2. ASSUME NEW i \in 1 .. Len(Upcoming')
        PROVE  Upcoming'[i].epoch = cb'.epoch =>
                   Upcoming'[i].ticket = cb'.submitted + i - Len(Upcoming')
    <3>1. CASE i \in 1 .. Len(Upcoming)
      <4>1. Upcoming'[i] = Upcoming[i] /\ Len(Upcoming') = Len(Upcoming) + 1
        BY <1>f, <2>1, <3>1 DEF Grown
      <4>2. Upcoming[i].epoch < cb.epoch + 1
        BY <1>t, <2>1, <3>1, <1>f, LineMembers DEF BoundsInv, WordBounds
      <4> QED
        BY <1>f, <2>1, <3>1, <4>1, <4>2
    <3>2. CASE i = Len(Upcoming) + 1
      BY <1>f, <2>1, <3>2 DEF Grown
    <3> QED
      BY <2>1, <3>1, <3>2 DEF Grown
  <2> QED
    BY <1>t, <1>f, FieldsTyped, <2>1, <2>2 DEF RequestTickets, BoundsInv, WordBounds
<1>9. CASE TakeNext \/ PopNext
  <2>1. /\ Healthy /\ Upcoming[1] \in Items /\ Shrunk /\ w'.item = Upcoming[1]
        /\ UNCHANGED <<cb>>
    BY <1>9, TakeNextEffect, PopNextEffect
  <2>a. cb.running => RequestTickets
    BY <1>t, <2>1 DEF TicketInv
  <2>e. cb'.epoch = cb.epoch /\ cb'.submitted = cb.submitted
    BY <1>f, <2>1
  <2>2. ASSUME NEW i \in 1 .. Len(Upcoming')
        PROVE  cb.running /\ Upcoming'[i].epoch = cb'.epoch =>
                   Upcoming'[i].ticket = cb'.submitted + i - Len(Upcoming')
    <3>1. PICK j \in 1 .. Len(Upcoming) :
            j = i + 1 /\ Upcoming'[i] = Upcoming[j] /\ Len(Upcoming') = Len(Upcoming) - 1
      BY <2>1 DEF Shrunk
    <3>2. cb.running /\ Upcoming[j].epoch = cb.epoch =>
              Upcoming[j].ticket = cb.submitted + j - Len(Upcoming)
      BY <2>a, <2>e, <3>1 DEF RequestTickets
    <3> QED
      BY <1>f, <2>e, <3>1, <3>2
  <2>3. cb.running /\ Upcoming[1].epoch = cb.epoch =>
            Upcoming[1].ticket = cb.submitted + 1 - Len(Upcoming)
    BY <2>a, <2>1 DEF Shrunk, RequestTickets
  <2>b. w'.item = Upcoming[1] /\ Len(Upcoming') = Len(Upcoming) - 1
    BY <2>1 DEF Shrunk
  <2>4. cb.running /\ w'.item.epoch = cb'.epoch =>
            w'.item.ticket = cb'.submitted - Len(Upcoming')
    BY <1>f, <2>b, <2>e, <2>3
  <2> QED
    BY <1>t, <1>f, FieldsTyped, <2>1, <2>2, <2>3, <2>4 DEF RequestTickets
<1>10. CASE PollStart
  <2>1. /\ w.pc = "poll" /\ Healthy
        /\ w'.pc = IF peer.start = "acked" THEN "top" ELSE "pop2"
        /\ w'.item = IF peer.start = "acked" THEN NoItem ELSE w.item
        /\ UNCHANGED <<cb, Upcoming, shared.fault>>
    BY <1>10, PollStartEffect
  <2> QED
    BY <1>t, <1>f, FieldsTyped, <2>1 DEF Healthy, TicketInv, RequestTickets, Between, WorkerInv
<1>11. CASE FinishStart
  <2>1. /\ w.pc = "finish" /\ Healthy
        /\ w'.pc = IF w.item.kind = "STOP" THEN "transition" ELSE "top"
        /\ w'.item = IF w.item.kind = "STOP" THEN w.item ELSE NoItem
        /\ UNCHANGED <<cb, Upcoming, shared.fault>>
    BY <1>11, FinishStartEffect
  <2> QED
    BY <1>t, <1>f, FieldsTyped, <2>1 DEF Healthy, TicketInv, RequestTickets, Between, WorkerInv
<1> QED
  BY <1>1, <1>2, <1>3, <1>4, <1>5, <1>6, <1>7, <1>8, <1>9, <1>10, <1>11, WorkerMoves,
     CallbackMoves, LineMoves, WordMoves

\* Every ticket is completed, a result, in the worker's hands or in the line.
LEMMA CountTicketsKept ==
    ASSUME IInv, Next PROVE (Healthy => CountTickets)'
<1>t. Typed /\ TicketInv /\ WorkerInv /\ CallbackInv /\ BareInv
  BY DEF IInv
<1>f. /\ cb.epoch \in Nat /\ cb.epoch + 1 \in Nat /\ cb.running \in BOOLEAN
      /\ cb.submitted \in Nat /\ cb.submitted + 1 \in Nat /\ cb.completed \in Nat
      /\ cb.completed + 1 \in Nat /\ w.item \in Items
      /\ w.item.kind \in {"none", "START", "STOP", "AUDIO"} /\ w.item.epoch \in Nat
      /\ w.item.ticket \in Nat /\ w.item.sync \in BOOLEAN /\ w.item.edits \in Values
      /\ Len(results) \in Nat /\ session.running \in BOOLEAN /\ session.epoch \in Nat
      /\ Len(Upcoming) \in Nat
      /\ \A i \in 1 .. Len(Upcoming) : Upcoming[i].epoch \in Nat /\ Upcoming[i].ticket \in Nat
  BY <1>t, CallbackFields, WorkerFields, ResultFields, SessionFields, LineFields
<1>1. CASE UNCHANGED <<w.pc, w.item, session.running, session.epoch, cb.epoch,
                      cb.running, cb.submitted, cb.completed, Upcoming,
                      results, shared.fault>>
  BY <1>t, <1>1 DEF Healthy, TicketInv, CountTickets, InHands, AheadEpoch, Between
<1>2. CASE TurnOn
  BY <1>t, <1>f, FieldsTyped, <1>2, TurnOnEffect, LineMembers DEF Healthy, TicketInv,
     CountTickets, InHands, AheadEpoch, Between, Grown
<1>3. CASE AnswerStarting
  BY <1>t, <1>f, FieldsTyped, <1>3, AnswerStartingEffect, LineMembers DEF Healthy,
     TicketInv, CountTickets, InHands, AheadEpoch, Between, Grown
<1>4. CASE TurnOff \/ RestoreRunning
  BY <1>t, <1>f, FieldsTyped, <1>4, TurnOffEffect, RestoreRunningEffect, LineMembers
     DEF Healthy, TicketInv, CountTickets, InHands, AheadEpoch, Between, Grown
<1>5. CASE EndCapture
  BY <1>t, <1>f, FieldsTyped, <1>5, EndCaptureEffect DEF Healthy, TicketInv, CountTickets,
     InHands, AheadEpoch, Between, WorkerInv,
       Starting
<1>6. CASE ComponentState
  BY <1>t, <1>f, FieldsTyped, <1>6, ComponentStateEffect DEF Healthy, TicketInv,
     CountTickets, InHands, AheadEpoch, Between, WorkerInv,
       Starting
<1>7. CASE TakeBack
  BY <1>t, <1>f, FieldsTyped, <1>7, TakeBackEffect DEF Healthy, TicketInv, CountTickets,
     InHands, AheadEpoch, Between, WorkerInv,
       Starting
<1>8. CASE TakeNothing
  BY <1>t, <1>f, FieldsTyped, <1>8, TakeNothingEffect DEF Healthy, TicketInv, CountTickets,
     InHands, AheadEpoch, Between, WorkerInv,
       Starting
<1>9. CASE PendingStart
  BY <1>t, <1>f, FieldsTyped, <1>9, PendingStartEffect DEF Healthy, TicketInv, CountTickets,
     InHands, AheadEpoch, Between, WorkerInv,
       Starting
<1>10. CASE PendingEmpty
  BY <1>t, <1>f, FieldsTyped, <1>10, PendingEmptyEffect DEF Healthy, TicketInv,
     CountTickets, InHands, AheadEpoch, Between, WorkerInv,
       Starting
<1>11. CASE Transition
  BY <1>t, <1>f, FieldsTyped, <1>11, TransitionEffect DEF Healthy, TicketInv, CountTickets,
     InHands, AheadEpoch, Between, WorkerInv,
       Starting
<1>12. CASE Synced
  BY <1>t, <1>f, FieldsTyped, <1>12, SyncedEffect DEF Healthy, TicketInv, CountTickets,
     InHands, AheadEpoch, Between, WorkerInv,
       Starting
<1>13. CASE Fault \/ Recover
  BY <1>t, <1>f, FieldsTyped, <1>13, FaultEffect, RecoverEffect DEF Healthy, TicketInv,
     CountTickets, InHands, AheadEpoch, Between, WorkerInv,
       Starting
<1>14. CASE Drain
  <2>1. /\ Healthy /\ cb.running /\ results # <<>> /\ cb'.completed = cb.completed + 1
        /\ Len(results) > 0 /\ Len(results') = Len(results) - 1
        /\ \A j \in 1 .. Len(results') : j + 1 \in 1 .. Len(results) /\ results'[j] = results[j + 1]
        /\ UNCHANGED <<w, session, cb.epoch, cb.running, cb.submitted, Upcoming,
                       shared.fault>>
    BY <1>14, DrainEffect
  <2> QED
    BY <1>t, <1>f, FieldsTyped, <2>1 DEF Healthy, TicketInv, CountTickets, InHands,
       AheadEpoch, Between, WorkerInv,
         Starting
<1>15. CASE Sending
  <2>s. PICK edits \in Values, sync \in BOOLEAN, flush \in BOOLEAN :
           Sends(edits, sync, flush)
    BY <1>15, SendEffect
  <2>1. /\ Healthy /\ cb.running /\ cb.epoch > 0
        /\ Grown("AUDIO", cb.epoch, cb.submitted + 1, edits, sync)
        /\ cb'.submitted = cb.submitted + 1
        /\ UNCHANGED <<w, session, cb.epoch, cb.running, cb.completed, results,
                       shared.fault>>
    BY <2>s DEF Sends
  <2>2. /\ AheadEpoch' = AheadEpoch /\ Len(Upcoming') = Len(Upcoming) + 1
        /\ InHands' = InHands /\ InHands \in Nat
    BY <2>1 DEF AheadEpoch, InHands, Between, Grown
  <2>3. CountTickets
    BY <1>t, <2>1 DEF TicketInv
  <2>e. /\ cb'.submitted = cb.submitted + 1 /\ results' = results
        /\ cb'.completed = cb.completed
    BY <2>1
  <2>4. CASE AheadEpoch = cb.epoch
    <3>1. cb.submitted = cb.completed + Len(results) + Len(Upcoming) + InHands
      BY <2>1, <2>3, <2>4 DEF CountTickets
    <3>2. cb'.submitted = cb'.completed + Len(results') + Len(Upcoming') + InHands'
      <4> DEFINE c == cb.completed
                 r == Len(results)
                 u == Len(Upcoming)
                 h == InHands
      <4>1. c \in Nat /\ r \in Nat /\ u \in Nat /\ h \in Nat
        BY <1>f, <2>2
      <4>2. /\ cb'.submitted = (c + r + u + h) + 1
            /\ cb'.completed = c /\ Len(results') = r /\ Len(Upcoming') = u + 1 /\ InHands' = h
        BY <2>2, <2>e, <3>1
      <4> HIDE DEF c, r, u, h
      <4> QED
        BY <4>1, <4>2
    <3> QED
      BY <2>1, <2>2, <2>4, <3>2 DEF CountTickets
  <2>5. CASE AheadEpoch # cb.epoch
    BY <2>1, <2>2, <2>3, <2>5 DEF CountTickets
  <2> QED
    BY <2>4, <2>5
<1>16. CASE TakeNext
  <2>1. /\ Healthy /\ w.pc \in Between /\ Upcoming[1] \in Items /\ Shrunk
        /\ w'.item = Upcoming[1]
        /\ Upcoming[1].kind = "AUDIO" => w'.pc = "audio"
        /\ Upcoming[1].kind # "AUDIO" => w'.pc \in {"pstart", "transition"} /\ peer.capture.st = "none"
        /\ w'.pc = "pstart" => Upcoming[1].kind = "START"
        /\ UNCHANGED <<session, cb, results, shared>>
    BY <1>16, TakeNextEffect
  <2>2. /\ AheadEpoch' = Upcoming[1].epoch /\ Len(Upcoming') = Len(Upcoming) - 1
        /\ w.pc # "audio" /\ (w'.pc = "audio" <=> Upcoming[1].kind = "AUDIO")
        /\ Upcoming # <<>> /\ 1 \in 1 .. Len(Upcoming)
    BY SMTT(30), <1>f, <2>1, Line DEF AheadEpoch, Between, Shrunk
  <2>3. CountTickets /\ (cb.running => RequestTickets)
    BY <1>t, <2>1 DEF TicketInv
  <2>4. Upcoming[1].kind # "AUDIO" => Upcoming[1].ticket = 0
    BY <1>t, <2>2 DEF BareInv, Bare
  <2>5. cb.running /\ Upcoming[1].epoch = cb.epoch => Upcoming[1].ticket = cb.submitted + 1 - Len(Upcoming)
    BY <2>2, <2>3 DEF RequestTickets
  <2>6. /\ AheadEpoch \in Nat /\ AheadEpoch <= Upcoming[1].epoch
        /\ Upcoming[1].epoch \in Nat /\ Upcoming[1].epoch <= cb.epoch
        /\ cb.running /\ Upcoming[1].epoch = cb.epoch => Upcoming[1].kind # "STOP"
        /\ Upcoming[1].kind \in {"START", "STOP", "AUDIO"}
        /\ Upcoming[1].kind = "START" => AheadEpoch < Upcoming[1].epoch
        /\ Upcoming[1].kind # "START" => AheadEpoch = Upcoming[1].epoch
    BY <1>f, <2>1, <2>2, LineMembers, HeadReached
  <2>7. ASSUME cb.running, Upcoming[1].epoch = cb.epoch
        PROVE  cb.submitted = cb.completed + Len(results) + (Len(Upcoming) - 1)
                   + (IF Upcoming[1].kind = "AUDIO" THEN 1 ELSE 0)
    <3>1. CASE Upcoming[1].kind = "AUDIO"
      BY <1>f, <2>2, <2>3, <2>6, <2>7, <3>1 DEF CountTickets, InHands
    <3>2. CASE Upcoming[1].kind = "START"
      <4>1. cb.completed = 0 /\ Len(results) = 0
        BY <1>f, <2>3, <2>6, <2>7, <3>2 DEF CountTickets
      <4> QED
        BY <1>f, <2>2, <2>4, <2>5, <2>7, <3>2, <4>1
    <3> QED
      BY <2>6, <2>7, <3>1, <3>2
  <2>8. ~(cb.running /\ Upcoming[1].epoch = cb.epoch) => results = <<>> /\ (cb.running => cb.completed = 0)
    BY <1>f, <2>3, <2>6 DEF CountTickets
  <2> QED
    BY <2>1, <2>2, <2>7, <2>8 DEF CountTickets, InHands
<1>17. CASE PopNext
  <2>1. /\ Healthy /\ w.pc \in {"pop1", "pop2"} /\ Upcoming[1] \in Items
        /\ Upcoming[1].kind \in {"STOP", "AUDIO"} /\ Upcoming[1].epoch = w.item.epoch
        /\ Shrunk
        /\ w'.pc = IF Upcoming[1].kind = "AUDIO" THEN "audio" ELSE "finish"
        /\ w'.item = Upcoming[1] /\ UNCHANGED <<session, cb, results, shared.fault>>
    BY <1>17, PopNextEffect
  <2>2. /\ AheadEpoch' = AheadEpoch /\ AheadEpoch = Upcoming[1].epoch
        /\ Len(Upcoming') = Len(Upcoming) - 1
        /\ w.pc # "audio" /\ (w'.pc = "audio" <=> Upcoming[1].kind = "AUDIO")
        /\ 1 \in 1 .. Len(Upcoming)
    BY <1>f, <2>1 DEF AheadEpoch, Between, Shrunk
  <2>3. CountTickets
    BY <1>t, <2>1 DEF TicketInv
  <2>4. cb.running /\ AheadEpoch = cb.epoch => Upcoming[1].kind = "AUDIO"
    BY <1>f, <2>1, <2>2, LineMembers
  <2> QED
    BY <1>f, <2>1, <2>2, <2>3, <2>4 DEF CountTickets, InHands
<1>18. CASE PopBack
  <2>1. /\ Healthy /\ w.pc \in {"pop1", "pop2"} /\ Upcoming # <<>>
        /\ Upcoming[1] \in Items /\ w'.pc = "finish"
        /\ Len(requests') = Len(Upcoming) - 1
        /\ UNCHANGED <<w.item, session, cb, Upcoming, results, shared.fault>>
    BY <1>18, PopBackEffect
  <2> QED
    BY <1>t, <1>f, FieldsTyped, <2>1 DEF Healthy, TicketInv, CountTickets, InHands,
       AheadEpoch, Between, WorkerInv,
         Starting
<1>19. CASE PollStart
  <2>1. /\ w.pc = "poll" /\ Healthy
        /\ session'.running <=> (peer.start = "acked" \/ session.running)
        /\ session'.epoch = IF peer.start = "acked" THEN w.item.epoch ELSE session.epoch
        /\ w'.pc = IF peer.start = "acked" THEN "top" ELSE "pop2"
        /\ w'.item = IF peer.start = "acked" THEN NoItem ELSE w.item
        /\ UNCHANGED <<cb, Upcoming, results, shared.fault>>
    BY <1>19, PollStartEffect
  <2> QED
    BY <1>t, <1>f, FieldsTyped, <2>1 DEF Healthy, TicketInv, CountTickets, InHands,
       AheadEpoch, Between, WorkerInv,
         Starting
<1>20. CASE PendingWait
  <2>1. /\ w.pc = "pwait" /\ Healthy /\ w'.pc = "pstart"
        /\ UNCHANGED <<w.item, session, cb, Upcoming, results, shared.fault>>
    BY <1>20, PendingWaitEffect
  <2> QED
    BY <1>t, <1>f, FieldsTyped, <2>1 DEF Healthy, TicketInv, CountTickets, InHands,
       AheadEpoch, Between, WorkerInv,
         Starting
<1>21. CASE FinishStart
  <2>1. /\ w.pc = "finish" /\ Healthy /\ session'.running
        /\ session'.epoch = w.item.epoch
        /\ w'.pc = IF w.item.kind = "STOP" THEN "transition" ELSE "top"
        /\ w'.item = IF w.item.kind = "STOP" THEN w.item ELSE NoItem
        /\ UNCHANGED <<cb, Upcoming, results, shared.fault>>
    BY <1>21, FinishStartEffect
  <2> QED
    BY <1>t, <1>f, FieldsTyped, <2>1 DEF Healthy, TicketInv, CountTickets, InHands,
       AheadEpoch, Between, WorkerInv,
         Starting
<1>22. CASE StartedInAudio
  <2>1. /\ w.pc = "audio" /\ w.overlap /\ Healthy /\ session'.running
        /\ session'.epoch = w.item.epoch
        /\ UNCHANGED <<w.pc, w.item, cb, Upcoming, results, shared.fault>>
    BY <1>22, StartedInAudioEffect
  <2> QED
    BY <1>t, <1>f, FieldsTyped, <2>1 DEF Healthy, TicketInv, CountTickets, InHands,
       AheadEpoch, Between, WorkerInv,
         Starting
<1>23. CASE Publish
  <2>1. /\ w.pc = "audio" /\ ~w.overlap /\ Healthy
        /\ w'.pc = IF w.item.sync THEN "sync" ELSE "top"
        /\ w'.item = IF w.item.sync THEN w.item ELSE NoItem
        /\ shared.wanted # w.item.epoch => results' = results
        /\ shared.wanted = w.item.epoch => /\ Len(results') = Len(results) + 1
                  /\ results'[Len(results) + 1] = [epoch |-> w.item.epoch, ticket |-> w.item.ticket]
                  /\ \A j \in 1 .. Len(results) : results'[j] = results[j]
        /\ UNCHANGED <<session, cb, Upcoming, shared>>
    BY <1>23, PublishEffect
  <2>2. /\ AheadEpoch = w.item.epoch /\ AheadEpoch' = AheadEpoch
        /\ InHands = 1 /\ InHands' = 0 /\ w.item.epoch > 0
    BY <1>f, <1>t, FieldsTyped, <2>1 DEF AheadEpoch, InHands, Between, WorkerInv
  <2>3. CountTickets
    BY <1>t, <2>1 DEF TicketInv
  <2>4. shared.wanted = w.item.epoch <=> cb.running /\ AheadEpoch = cb.epoch
    BY <1>f, <1>t, <2>1, <2>2 DEF CallbackInv, Open
  <2>5. CASE cb.running /\ AheadEpoch = cb.epoch
    <3>1. cb.submitted = cb.completed + Len(results) + Len(Upcoming) + 1
      BY <2>2, <2>3, <2>5 DEF CountTickets
    <3>2. Len(results') = Len(results) + 1 /\ cb' = cb /\ Upcoming' = Upcoming
      BY <2>1, <2>4, <2>5
    <3>3. cb.submitted = cb.completed + Len(results') + Len(Upcoming) + 0
      <4> DEFINE c == cb.completed
                 r == Len(results)
                 u == Len(Upcoming)
      <4>1. c \in Nat /\ r \in Nat /\ u \in Nat
        BY <1>f
      <4>2. cb.submitted = c + r + u + 1 /\ Len(results') = r + 1
        BY <3>1, <3>2
      <4> HIDE DEF c, r, u
      <4>3. cb.submitted = c + Len(results') + u + 0
        BY <4>1, <4>2
      <4> QED
        BY <4>3 DEF c, u
    <3> QED
      BY <2>2, <2>5, <3>2, <3>3 DEF CountTickets
  <2>6. CASE ~(cb.running /\ AheadEpoch = cb.epoch)
    BY <2>1, <2>2, <2>3, <2>4, <2>6 DEF CountTickets
  <2> QED
    BY <2>5, <2>6
<1> QED
  BY <1>1, <1>2, <1>3, <1>4, <1>5, <1>6, <1>7, <1>8, <1>9, <1>10, <1>11, <1>12, <1>13,
     <1>14, <1>15, <1>16, <1>17, <1>18, <1>19, <1>20, <1>21, <1>22, <1>23,
     WorkerMoves, HostMoves, CallbackMoves, LineMoves, WordMoves

\* Results come in ticket order.
LEMMA ResultTicketsKept ==
    ASSUME IInv, Next PROVE (Healthy => ResultTickets)'
<1>t. Typed /\ TicketInv /\ WorkerInv /\ CallbackInv
  BY DEF IInv
<1>f. /\ cb.epoch \in Nat /\ cb.epoch + 1 \in Nat /\ cb.running \in BOOLEAN
      /\ cb.submitted \in Nat /\ cb.submitted + 1 \in Nat /\ cb.completed \in Nat
      /\ cb.completed + 1 \in Nat /\ w.item \in Items
      /\ w.item.kind \in {"none", "START", "STOP", "AUDIO"} /\ w.item.epoch \in Nat
      /\ w.item.ticket \in Nat /\ w.item.sync \in BOOLEAN /\ w.item.edits \in Values
      /\ Len(results) \in Nat /\ Len(Upcoming) \in Nat
      /\ \A i \in 1 .. Len(Upcoming) : Upcoming[i].epoch \in Nat /\ Upcoming[i].ticket \in Nat
  BY <1>t, CallbackFields, WorkerFields, ResultFields, LineFields
<1>1. CASE UNCHANGED <<cb.epoch, cb.running, cb.completed, results, shared.fault>>
  BY <1>t, <1>1 DEF Healthy, TicketInv, ResultTickets
<1>2. CASE TurnOn
  BY <1>t, <1>f, FieldsTyped, <1>2, TurnOnEffect DEF Healthy, TicketInv, ResultTickets
<1>3. CASE AnswerStarting
  BY <1>t, <1>f, FieldsTyped, <1>3, AnswerStartingEffect DEF Healthy, TicketInv, ResultTickets
<1>4. CASE TurnOff
  BY <1>t, <1>f, FieldsTyped, <1>4, TurnOffEffect DEF Healthy, TicketInv, ResultTickets
<1>5. CASE RestoreRunning
  BY <1>t, <1>f, FieldsTyped, <1>5, RestoreRunningEffect DEF Healthy, TicketInv, ResultTickets
<1>6. CASE Fault \/ Recover
  BY <1>t, <1>f, FieldsTyped, <1>6, FaultEffect, RecoverEffect DEF Healthy, TicketInv,
     ResultTickets
<1>7. CASE Drain
  <2>1. /\ Healthy /\ cb.running /\ results # <<>> /\ cb'.completed = cb.completed + 1
        /\ Len(results) > 0 /\ Len(results') = Len(results) - 1
        /\ \A j \in 1 .. Len(results') : j + 1 \in 1 .. Len(results) /\ results'[j] = results[j + 1]
        /\ UNCHANGED <<cb.epoch, cb.running, shared.fault>>
    BY <1>7, DrainEffect
  <2>2. ResultTickets
    BY <1>t, <2>1 DEF TicketInv
  <2>3. ASSUME NEW j \in 1 .. Len(results')
        PROVE  results'[j].epoch = cb.epoch /\ results'[j].ticket = cb.completed + (j + 1)
    BY <2>1, <2>2 DEF ResultTickets
  <2>4. cb'.completed = cb.completed + 1
    BY <2>1
  <2>5. ASSUME NEW j \in 1 .. Len(results')
        PROVE  results'[j].ticket = cb'.completed + j
    <3> DEFINE c == cb.completed
    <3>1. c \in Nat /\ cb'.completed = c + 1 /\ results'[j].ticket = c + (j + 1)
      BY <1>f, <2>3, <2>4
    <3>2. j \in Nat
      BY <2>1
    <3> HIDE DEF c
    <3> QED
      BY <3>1, <3>2
  <2> QED
    BY <2>1, <2>3, <2>5 DEF ResultTickets
<1>8. CASE Publish
  <2>1. /\ w.pc = "audio" /\ ~w.overlap /\ Healthy
        /\ shared.wanted # w.item.epoch => results' = results
        /\ shared.wanted = w.item.epoch => /\ Len(results') = Len(results) + 1
                  /\ results'[Len(results) + 1] = [epoch |-> w.item.epoch, ticket |-> w.item.ticket]
                  /\ \A j \in 1 .. Len(results) : results'[j] = results[j]
        /\ UNCHANGED <<cb, shared>>
    BY <1>8, PublishEffect
  <2>2. ResultTickets /\ CountTickets /\ (cb.running => RequestTickets)
    BY <1>t, <2>1 DEF TicketInv
  <2>3. CASE shared.wanted # w.item.epoch
    BY <2>1, <2>2, <2>3 DEF ResultTickets
  <2>4. CASE shared.wanted = w.item.epoch
    <3>1. cb.running /\ cb.epoch = w.item.epoch /\ w.item.kind = "AUDIO" /\ w.pc \notin Between
      BY <1>f, <1>t, <2>1, <2>4 DEF CallbackInv, WorkerInv, Open, Between
    <3>2. w.item.ticket = cb.submitted - Len(Upcoming)
      BY <2>2, <3>1 DEF RequestTickets
    <3>3. cb.submitted = cb.completed + Len(results) + Len(Upcoming) + 1
      BY <2>1, <2>2, <3>1 DEF CountTickets, InHands, AheadEpoch
    <3>4. w.item.ticket = cb.completed + (Len(results) + 1)
      <4> DEFINE c == cb.completed
                 r == Len(results)
                 u == Len(Upcoming)
      <4>1. c \in Nat /\ r \in Nat /\ u \in Nat
        BY <1>f
      <4>2. w.item.ticket = (c + r + u + 1) - u
        BY <3>2, <3>3
      <4> HIDE DEF c, r, u
      <4>3. w.item.ticket = c + (r + 1)
        BY <4>1, <4>2
      <4> QED
        BY <4>3 DEF c, r
    <3>5. ASSUME NEW j \in 1 .. Len(results')
          PROVE  results'[j].epoch = cb.epoch /\ results'[j].ticket = cb.completed + j
      <4>1. CASE j \in 1 .. Len(results)
        BY <2>1, <2>2, <2>4, <4>1 DEF ResultTickets
      <4>2. CASE j = Len(results) + 1
        BY <2>1, <2>4, <3>1, <3>4, <4>2
      <4> QED
        BY <1>f, <2>1, <2>4, <4>1, <4>2
    <3> QED
      BY <2>1, <3>5 DEF ResultTickets
  <2> QED
    BY <2>3, <2>4
<1> QED
  BY <1>1, <1>2, <1>3, <1>4, <1>5, <1>6, <1>7, <1>8, CallbackMoves, LineMoves,
     WordMoves

\* Tickets of the running epoch end at the callback's count.
LEMMA TicketKept ==
    ASSUME IInv, Next PROVE TicketInv'
  BY RequestTicketsKept, CountTicketsKept, ResultTicketsKept DEF TicketInv

\* A start that is acknowledged stays so while its epoch runs.
LEMMA PreparedStays ==
    ASSUME IInv, Next, Healthy, Healthy', cb.running, cb'.epoch = cb.epoch, Prepared
    PROVE  Prepared'
<1>t. Typed /\ CallbackInv /\ WorkerInv
  BY DEF IInv
<1>f. /\ cb.epoch \in Nat /\ cb.epoch + 1 \in Nat /\ w.item \in Items
      /\ w.item.kind \in {"none", "START", "STOP", "AUDIO"} /\ w.item.epoch \in Nat
      /\ w.item.ticket \in Nat /\ w.item.sync \in BOOLEAN /\ w.item.edits \in Values
      /\ session.running \in BOOLEAN /\ session.epoch \in Nat
  BY <1>t, CallbackFields, WorkerFields, SessionFields
<1>1. CASE UNCHANGED <<cb.epoch, cb.running, shared.ready, mode, shared.fault>>
  BY <1>t, <1>1 DEF Healthy, Prepared
<1>2. CASE TurnOn \/ AnswerStarting \/ TurnOff \/ RestoreRunning \/ Fault \/ Recover
  BY <1>t, <1>f, FieldsTyped, <1>2, TurnOnEffect, AnswerStartingEffect, TurnOffEffect,
     RestoreRunningEffect, FaultEffect, RecoverEffect DEF Healthy, Prepared
<1>3. CASE PollStart \/ FinishStart \/ StartedInAudio
  BY <1>t, <1>f, FieldsTyped, <1>3, PollStartEffect, FinishStartEffect,
     StartedInAudioEffect DEF Healthy, Prepared, CallbackInv, WorkerInv, Open, Starting
<1>4. CASE Transition
  BY <1>t, <1>f, FieldsTyped, <1>4, TransitionEffect, StopBehind DEF Healthy, Prepared,
     CallbackInv, WorkerInv, Open, Starting
<1> QED
  BY <1>1, <1>2, <1>3, <1>4, CallbackMoves, WordMoves, ClockMoves

\* Offline nothing is retained.
LEMMA OfflineKept ==
    ASSUME IInv, Next PROVE (mode.offline => Nothing)'
<1>t. Typed /\ ReadyInv
  BY DEF IInv
<1>n. (Nothing <=> \A p \in Params : cb.retained[p] = 0)
      /\ (Nothing' <=> \A p \in Params : cb'.retained[p] = 0)
  BY NothingMeans
<1>1. CASE UNCHANGED <<cb.retained, mode, shared.fault>>
  BY <1>t, <1>1, <1>n DEF Healthy, ReadyInv
<1>2. CASE Process \/ Retain \/ Fault \/ Recover
  BY <1>t, <1>n, FieldsTyped, <1>2, ProcessEffect, RetainEffect, FaultEffect,
     RecoverEffect DEF Healthy, ReadyInv
<1>3. CASE Sending
  BY <1>t, <1>n, FieldsTyped, <1>3, SendEffect DEF Healthy, ReadyInv, Sends
<1> QED
  BY <1>1, <1>2, <1>3, CallbackMoves, ClockMoves, WordMoves

\* The callback replays only after its start's acknowledgement.
LEMMA PastKept ==
    ASSUME IInv, Next PROVE (Healthy /\ cb.pc \in Past => Prepared)'
<1>t. Typed /\ ReadyInv /\ CallbackInv
  BY DEF IInv
<1>f. /\ cb.pc \in {"idle", "ready", "replay", "push", "drain"}
  BY <1>t, CallbackFields
<1>p. Healthy /\ Healthy' /\ cb.running /\ cb'.epoch = cb.epoch /\ Prepared => Prepared'
  BY PreparedStays
<1>1. CASE UNCHANGED <<cb.pc, cb.epoch, cb.running, shared.fault>>
  BY <1>t, <1>1, <1>p DEF Healthy, ReadyInv, Past, CallbackInv
<1>2. CASE Process \/ Retain \/ Ready \/ Flushed \/ Drained
  BY <1>t, <1>f, <1>p, FieldsTyped, <1>2, ProcessEffect, RetainEffect, ReadyEffect,
     FlushedEffect, DrainedEffect DEF Healthy, ReadyInv, Past, CallbackInv
<1>3. CASE TurnOn \/ AnswerStarting \/ TurnOff \/ RestoreRunning \/ Fault \/ Recover
  BY <1>t, <1>f, <1>p, FieldsTyped, <1>3, TurnOnEffect, AnswerStartingEffect,
     TurnOffEffect, RestoreRunningEffect, FaultEffect, RecoverEffect
  DEF Healthy, ReadyInv, Past, CallbackInv
<1>4. CASE Sending
  BY <1>t, <1>f, <1>p, FieldsTyped, <1>4, SendEffect DEF Healthy, ReadyInv, Past,
     CallbackInv, Sends
<1> QED
  BY <1>1, <1>2, <1>3, <1>4, CallbackMoves, WordMoves

\* A replay in flight is of an acknowledged start.
LEMMA SyncKept ==
    ASSUME IInv, Next PROVE (Healthy /\ cb.running /\ cb.sync # 0 => Prepared)'
<1>t. Typed /\ ReadyInv /\ CallbackInv
  BY DEF IInv
<1>f. /\ cb.pc \in {"idle", "ready", "replay", "push", "drain"} /\ cb.sync \in Nat
  BY <1>t, CallbackFields
<1>p. Healthy /\ Healthy' /\ cb.running /\ cb'.epoch = cb.epoch /\ Prepared => Prepared'
  BY PreparedStays
<1>1. CASE UNCHANGED <<cb.sync, cb.pc, cb.epoch, cb.running, shared.fault>>
  BY <1>t, <1>1, <1>p DEF Healthy, ReadyInv, Past, CallbackInv
<1>2. CASE Process \/ Retain \/ Ready \/ Flushed \/ Drain \/ Drained
  BY <1>t, <1>f, <1>p, FieldsTyped, <1>2, ProcessEffect, RetainEffect, ReadyEffect,
     FlushedEffect, DrainEffect, DrainedEffect DEF Healthy, ReadyInv, Past, CallbackInv
<1>3. CASE TurnOn \/ AnswerStarting \/ TurnOff \/ RestoreRunning \/ Fault \/ Recover
  BY <1>t, <1>f, <1>p, FieldsTyped, <1>3, TurnOnEffect, AnswerStartingEffect,
     TurnOffEffect, RestoreRunningEffect, FaultEffect, RecoverEffect
  DEF Healthy, ReadyInv, Past, CallbackInv
<1>4. CASE Sending
  <2>s. PICK edits \in Values, sync \in BOOLEAN, flush \in BOOLEAN :
           Sends(edits, sync, flush)
    BY <1>4, SendEffect
  <2>1. /\ Healthy /\ cb.running /\ cb.epoch > 0
        /\ Grown("AUDIO", cb.epoch, cb.submitted + 1, edits, sync)
        /\ flush => /\ cb.pc = "replay" /\ ~Nothing /\ Edited(edits) # {}
                    /\ Edited(edits) \subseteq Edited(cb.retained)
                    /\ \A p \in Params : edits[p] \in {0, cb.retained[p]}
                    /\ sync <=> Edited(cb.retained) = Edited(edits)
        /\ ~flush => cb.pc = "push" /\ edits = cb.edits /\ ~sync
        /\ cb'.pc = "drain" /\ UNCHANGED <<cb.sync, cb.epoch, cb.running, shared.fault>>
    BY <2>s DEF Sends
  <2> QED
    BY <1>t, <1>f, <1>p, FieldsTyped, <2>1 DEF Healthy, ReadyInv, Past, CallbackInv
<1> QED
  BY <1>1, <1>2, <1>3, <1>4, CallbackMoves, WordMoves

\* Only a replay packet adds an acknowledgement, the last one, with nothing left behind it.
LEMMA AcksGrow ==
    ASSUME IInv, Next, NEW e \in Nat, AcksAhead(e)'
    PROVE  AcksAhead(e) \/ (e = cb.epoch /\ cb.pc = "replay" /\ Nothing')
<1>t. Typed /\ BareInv /\ WorkerInv
  BY DEF IInv
<1>f. /\ cb.epoch \in Nat /\ cb.epoch + 1 \in Nat /\ w.item \in Items
      /\ w.item.kind \in {"none", "START", "STOP", "AUDIO"} /\ w.item.epoch \in Nat
      /\ w.item.ticket \in Nat /\ w.item.sync \in BOOLEAN /\ w.item.edits \in Values
      /\ Len(Upcoming) \in Nat
      /\ \A i \in 1 .. Len(Upcoming) : Upcoming[i].sync \in BOOLEAN /\ Upcoming[i].epoch \in Nat
  BY <1>t, CallbackFields, WorkerFields, LineFields
<1>1. CASE UNCHANGED <<w.item, Upcoming, shared.fault>>
  BY <1>t, <1>1 DEF Healthy, AcksAhead, Acks
<1>2. CASE TakeBack \/ PollStart \/ Transition \/ FinishStart
  BY <1>t, <1>f, FieldsTyped, <1>2, TakeBackEffect, PollStartEffect, TransitionEffect,
     FinishStartEffect DEF Healthy, AcksAhead, Acks
<1>3. CASE Publish \/ Synced \/ Fault \/ Recover
  BY <1>t, <1>f, FieldsTyped, <1>3, PublishEffect, SyncedEffect, FaultEffect,
     RecoverEffect DEF Healthy, AcksAhead, Acks
<1>4. CASE Sending
  <2>s. PICK edits \in Values, sync \in BOOLEAN, flush \in BOOLEAN :
           Sends(edits, sync, flush)
    BY <1>4, SendEffect
  <2>1. /\ Healthy /\ Grown("AUDIO", cb.epoch, cb.submitted + 1, edits, sync)
        /\ UNCHANGED <<w, shared.fault>>
    BY <2>s DEF Sends
  <2>2. CASE AcksAhead(e)
    BY <2>2
  <2>3. CASE ~AcksAhead(e)
    <3>1. PICK i \in 1 .. Len(Upcoming') : Acks(Upcoming'[i], e)
      BY <2>s, <2>3 DEF AcksAhead, Sends
    <3>2. i = Len(Upcoming) + 1
      BY <2>s, <2>3, <3>1 DEF AcksAhead, Sends, Grown
    <3>3. sync /\ e = cb.epoch
      BY <1>f, <2>s, <3>1, <3>2 DEF Sends, Grown, Acks
    <3>4. /\ flush /\ cb.pc = "replay" /\ Edited(cb.retained) = Edited(edits)
          /\ \A p \in Params : cb'.retained[p] =
                 IF flush /\ edits[p] # 0 THEN 0 ELSE cb.retained[p]
      BY <2>s, <3>3 DEF Sends
    <3>5. \A p \in Params : cb'.retained[p] = 0
      BY <3>4 DEF Edited
    <3> QED
      BY <3>3, <3>4, <3>5, NothingMeans
  <2> QED
    BY <2>2, <2>3
<1>5. CASE TurnOn \/ AnswerStarting
  <2>1. /\ Healthy /\ Grown("START", cb.epoch + 1, 0, NoEdits, FALSE)
        /\ UNCHANGED <<w, shared.fault>>
    BY <1>5, TurnOnEffect, AnswerStartingEffect
  <2>2. PICK i \in 1 .. Len(Upcoming') : Acks(Upcoming'[i], e) \/ Acks(w.item, e)
    BY <2>1 DEF AcksAhead, Grown
  <2> QED
    BY <1>t, <1>f, FieldsTyped, <2>1, <2>2 DEF AcksAhead, Acks, Grown
<1>6. CASE TurnOff \/ RestoreRunning
  <2>1. /\ Healthy /\ Grown("STOP", cb.epoch, 0, NoEdits, FALSE)
        /\ UNCHANGED <<w, shared.fault>>
    BY <1>6, TurnOffEffect, RestoreRunningEffect
  <2>2. PICK i \in 1 .. Len(Upcoming') : Acks(Upcoming'[i], e) \/ Acks(w.item, e)
    BY <2>1 DEF AcksAhead, Grown
  <2> QED
    BY <1>t, <1>f, FieldsTyped, <2>1, <2>2 DEF AcksAhead, Acks, Grown
<1>7. CASE TakeNext \/ PopNext
  <2>1. /\ Healthy /\ Upcoming[1] \in Items /\ Shrunk /\ w'.item = Upcoming[1]
    BY <1>7, TakeNextEffect, PopNextEffect
  <2>2. CASE Acks(w'.item, e)
    BY <1>t, <1>f, FieldsTyped, <2>1, <2>2 DEF AcksAhead, Acks, Shrunk
  <2>3. ASSUME NEW i \in 1 .. Len(Upcoming'), Acks(Upcoming'[i], e)
        PROVE  AcksAhead(e)
    <3>1. PICK j \in 1 .. Len(Upcoming) : Upcoming'[i] = Upcoming[j]
      BY <2>1 DEF Shrunk
    <3> QED
      BY <2>3, <3>1 DEF AcksAhead
  <2> QED
    BY <2>2, <2>3 DEF AcksAhead
<1> QED
  BY <1>1, <1>2, <1>3, <1>4, <1>5, <1>6, <1>7, WorkerMoves, LineMoves, WordMoves

\* An acknowledgement stays under way until it is given.
LEMMA AcksStay ==
    ASSUME IInv, Next, Healthy, Healthy', NEW e \in Nat, AcksAhead(e)
    PROVE  AcksAhead(e)' \/ shared'.pending # e
<1>t. Typed /\ BareInv /\ WorkerInv
  BY DEF IInv
<1>f. /\ cb.epoch \in Nat /\ cb.epoch + 1 \in Nat /\ w.item \in Items
      /\ w.item.kind \in {"none", "START", "STOP", "AUDIO"} /\ w.item.epoch \in Nat
      /\ w.item.ticket \in Nat /\ w.item.sync \in BOOLEAN /\ w.item.edits \in Values
      /\ shared.pending \in Nat /\ Len(Upcoming) \in Nat
      /\ \A i \in 1 .. Len(Upcoming) : Upcoming[i].sync \in BOOLEAN /\ Upcoming[i].epoch \in Nat
  BY <1>t, CallbackFields, WorkerFields, SharedFields, LineFields
<1>1. CASE UNCHANGED <<w.item, Upcoming, shared.pending, shared.fault>>
  BY <1>t, <1>1 DEF Healthy, AcksAhead, Acks
<1>2. CASE Process \/ Retain \/ Ready \/ Flushed \/ Drain
  BY <1>t, <1>f, FieldsTyped, <1>2, ProcessEffect, RetainEffect, ReadyEffect,
     FlushedEffect, DrainEffect DEF Healthy, AcksAhead, Acks
<1>3. CASE EndCapture \/ ComponentState \/ CaptureInAudio \/ Publish \/ Fault
          \/ Recover
  BY <1>t, <1>f, FieldsTyped, <1>3, EndCaptureEffect, ComponentStateEffect,
     CaptureInAudioEffect, PublishEffect, FaultEffect, RecoverEffect
  DEF Healthy, AcksAhead, Acks
<1>4. CASE TakeBack \/ PollStart \/ Transition \/ FinishStart
  BY <1>t, <1>f, FieldsTyped, <1>4, TakeBackEffect, PollStartEffect, TransitionEffect,
     FinishStartEffect DEF Healthy, AcksAhead, Acks, BareInv, Bare, WorkerInv, Between, Starting
<1>5. CASE Synced
  BY <1>t, <1>f, FieldsTyped, <1>5, SyncedEffect, AcksPositive DEF Healthy, AcksAhead, Acks
<1>6. CASE Sending
  <2>s. PICK edits \in Values, sync \in BOOLEAN, flush \in BOOLEAN :
           Sends(edits, sync, flush)
    BY <1>6, SendEffect
  <2>1. /\ Healthy /\ Grown("AUDIO", cb.epoch, cb.submitted + 1, edits, sync)
        /\ UNCHANGED <<w, shared.pending, shared.fault>>
    BY <2>s DEF Sends
  <2>2. CASE Acks(w.item, e)
    BY <2>1, <2>2 DEF AcksAhead
  <2>3. ASSUME NEW i \in 1 .. Len(Upcoming), Acks(Upcoming[i], e)
        PROVE  AcksAhead(e)'
    BY <2>1, <2>3 DEF AcksAhead, Grown
  <2> QED
    BY <2>2, <2>3 DEF AcksAhead
<1>7. CASE TurnOn \/ AnswerStarting
  <2>1. /\ Healthy /\ Grown("START", cb.epoch + 1, 0, NoEdits, FALSE)
        /\ UNCHANGED <<w, shared.pending, shared.fault>>
    BY <1>7, TurnOnEffect, AnswerStartingEffect
  <2>2. CASE Acks(w.item, e)
    BY <2>1, <2>2 DEF AcksAhead
  <2>3. ASSUME NEW i \in 1 .. Len(Upcoming), Acks(Upcoming[i], e)
        PROVE  AcksAhead(e)'
    BY <2>1, <2>3 DEF AcksAhead, Grown
  <2> QED
    BY <2>2, <2>3 DEF AcksAhead
<1>8. CASE TurnOff \/ RestoreRunning
  <2>1. /\ Healthy /\ Grown("STOP", cb.epoch, 0, NoEdits, FALSE)
        /\ UNCHANGED <<w, shared.pending, shared.fault>>
    BY <1>8, TurnOffEffect, RestoreRunningEffect
  <2>2. CASE Acks(w.item, e)
    BY <2>1, <2>2 DEF AcksAhead
  <2>3. ASSUME NEW i \in 1 .. Len(Upcoming), Acks(Upcoming[i], e)
        PROVE  AcksAhead(e)'
    BY <2>1, <2>3 DEF AcksAhead, Grown
  <2> QED
    BY <2>2, <2>3 DEF AcksAhead
<1>9. CASE TakeNext
  <2>1. /\ Healthy /\ w.pc \in Between /\ Upcoming[1] \in Items /\ Shrunk
        /\ w'.item = Upcoming[1]
        /\ Upcoming[1].kind = "AUDIO" => w'.pc = "audio"
        /\ UNCHANGED <<shared>>
    BY <1>9, TakeNextEffect
  <2>2. CASE Acks(w.item, e)
    BY <1>t, <1>f, FieldsTyped, <2>1, <2>2 DEF BareInv, Bare, WorkerInv, Acks, Between, Starting
  <2>3. ASSUME NEW i \in 1 .. Len(Upcoming), Acks(Upcoming[i], e)
        PROVE  AcksAhead(e)'
    <3>1. CASE i = 1
      BY <2>1, <2>3, <3>1 DEF AcksAhead
    <3>2. CASE i # 1
      <4>1. PICK j \in 1 .. Len(Upcoming') : Upcoming'[j] = Upcoming[i]
        BY <2>1, <3>2, ShrunkRest
      <4> QED
        BY <2>3, <4>1 DEF AcksAhead
    <3> QED
      BY <3>1, <3>2
  <2> QED
    BY <2>2, <2>3 DEF AcksAhead
<1>10. CASE PopNext
  <2>1. /\ Healthy /\ w.pc \in {"pop1", "pop2"} /\ Upcoming[1] \in Items
        /\ Upcoming[1].kind \in {"STOP", "AUDIO"} /\ Upcoming[1].epoch = w.item.epoch
        /\ Shrunk /\ w'.item = Upcoming[1] /\ UNCHANGED <<shared.pending, shared.fault>>
    BY <1>10, PopNextEffect
  <2>2. CASE Acks(w.item, e)
    BY <1>t, <1>f, FieldsTyped, <2>1, <2>2 DEF BareInv, Bare, WorkerInv, Acks, Between, Starting
  <2>3. ASSUME NEW i \in 1 .. Len(Upcoming), Acks(Upcoming[i], e)
        PROVE  AcksAhead(e)'
    <3>1. CASE i = 1
      BY <2>1, <2>3, <3>1 DEF AcksAhead
    <3>2. CASE i # 1
      <4>1. PICK j \in 1 .. Len(Upcoming') : Upcoming'[j] = Upcoming[i]
        BY <2>1, <3>2, ShrunkRest
      <4> QED
        BY <2>3, <4>1 DEF AcksAhead
    <3> QED
      BY <3>1, <3>2
  <2> QED
    BY <2>2, <2>3 DEF AcksAhead
<1> QED
  BY <1>1, <1>2, <1>3, <1>4, <1>5, <1>6, <1>7, <1>8, <1>9, <1>10, WorkerMoves,
     LineMoves, WordMoves

\* A replay in the line is of an acknowledged start.
LEMMA AcksReady ==
    ASSUME IInv, Next PROVE (Healthy /\ cb.running /\ AcksAhead(cb.epoch) => Prepared)'
<1>t. Typed /\ ReadyInv /\ CallbackInv
  BY DEF IInv
<1>f. /\ cb.pc \in {"idle", "ready", "replay", "push", "drain"} /\ cb.epoch \in Nat
      /\ cb.epoch + 1 \in Nat
  BY <1>t, CallbackFields
<1>p. Healthy /\ Healthy' /\ cb.running /\ cb'.epoch = cb.epoch /\ Prepared => Prepared'
  BY PreparedStays
<1>a. ASSUME Healthy', cb'.running, AcksAhead(cb.epoch)', cb'.epoch = cb.epoch, Healthy, cb.running
      PROVE  Prepared'
  <2> PICK e \in Nat : e = cb.epoch
    BY <1>t, CallbackFields
  <2>1. AcksAhead(e)'
    BY <1>a DEF AcksAhead
  <2>2. AcksAhead(cb.epoch) \/ cb.pc = "replay"
    BY <2>1, AcksGrow
  <2> QED
    BY <1>t, <1>a, <1>p, <2>2 DEF ReadyInv, Past
<1>1. CASE UNCHANGED <<cb.epoch, cb.running, shared.fault>>
  BY <1>t, <1>1, <1>p, <1>a DEF Healthy, ReadyInv
<1>2. CASE TurnOff \/ RestoreRunning \/ Fault \/ Recover
  BY <1>t, <1>f, <1>p, <1>a, FieldsTyped, <1>2, TurnOffEffect, RestoreRunningEffect,
     FaultEffect, RecoverEffect DEF Healthy, ReadyInv
<1>3. CASE TurnOn \/ AnswerStarting
  <2>1. /\ Healthy /\ ~cb.running /\ Grown("START", cb.epoch + 1, 0, NoEdits, FALSE)
        /\ cb'.epoch = cb.epoch + 1 /\ cb'.running /\ UNCHANGED <<shared.fault>>
    BY <1>3, TurnOnEffect, AnswerStartingEffect
  <2> PICK e \in Nat : e = cb'.epoch /\ e > cb.epoch
    BY <1>f, <2>1
  <2>3. ~AcksAhead(e)
    BY <1>f, <2>1, AcksPositive
  <2>4. ~AcksAhead(e)'
    BY <1>f, <2>1, <2>3, AcksGrow
  <2>5. ~AcksAhead(cb.epoch)'
    BY <2>4 DEF AcksAhead
  <2> QED
    BY <2>5
<1> QED
  BY <1>1, <1>2, <1>3, CallbackMoves, WordMoves

\* Replays belong to a start that is acknowledged.
LEMMA ReadyKept ==
    ASSUME IInv, Next PROVE ReadyInv'
  BY OfflineKept, PastKept, SyncKept, AcksReady
  DEF ReadyInv

\* While a replay's ticket is awaited nothing is retained.
LEMMA ReplayLast ==
    ASSUME IInv, Next PROVE (Healthy => (cb.sync # 0 => Nothing))'
<1>t. Typed /\ AckInv /\ ReadyInv
  BY DEF IInv
<1>f. /\ cb.retained \in Values /\ cb.edits \in Values /\ cb.sync \in Nat
  BY <1>t, CallbackFields
<1>n. (Nothing <=> \A p \in Params : cb.retained[p] = 0)
      /\ (Nothing' <=> \A p \in Params : cb'.retained[p] = 0)
  BY NothingMeans
<1>1. CASE UNCHANGED <<cb.sync, cb.retained, shared.fault>>
  BY <1>t, <1>1, <1>n DEF Healthy, AckInv
<1>2. CASE Process \/ Flushed \/ Drain
  BY <1>t, <1>f, <1>n, FieldsTyped, <1>2, ProcessEffect, FlushedEffect, DrainEffect
     DEF Healthy, AckInv
<1>3. CASE TurnOn \/ AnswerStarting \/ Fault \/ Recover
  BY <1>t, <1>f, <1>n, FieldsTyped, <1>3, TurnOnEffect, AnswerStartingEffect,
     FaultEffect, RecoverEffect DEF Healthy, AckInv
<1>4. CASE Retain
  BY <1>t, <1>f, <1>n, FieldsTyped, <1>4, RetainEffect DEF Healthy, AckInv, ReadyInv, Prepared
<1>5. CASE Sending
  BY <1>t, <1>f, <1>n, FieldsTyped, <1>5, SendEffect DEF Healthy, AckInv, Sends
<1> QED
  BY <1>1, <1>2, <1>3, <1>4, <1>5, CallbackMoves, WordMoves

\* The block's own request goes when nothing is retained.
LEMMA OwnLast ==
    ASSUME IInv, Next PROVE (Healthy => (cb.pc = "push" \/ Sent => Nothing))'
<1>t. Typed /\ AckInv /\ KeptInv
  BY DEF IInv
<1>f. /\ cb.pc \in {"idle", "ready", "replay", "push", "drain"}
      /\ cb.flush \in BOOLEAN /\ cb.retained \in Values
  BY <1>t, CallbackFields
<1>n. (Nothing <=> \A p \in Params : cb.retained[p] = 0)
      /\ (Nothing' <=> \A p \in Params : cb'.retained[p] = 0)
  BY NothingMeans
<1>b. cb.pc # "idle" => Healthy /\ cb.running /\ Live
  BY BusyMeans
<1>1. CASE UNCHANGED <<cb.pc, cb.flush, cb.retained, shared.fault>>
  BY <1>t, <1>1, <1>n, <1>b DEF Healthy, AckInv, Sent
<1>2. CASE Process \/ Retain \/ Flushed \/ Drained \/ Fault \/ Recover
  BY <1>t, <1>f, <1>n, <1>b, FieldsTyped, <1>2, ProcessEffect, RetainEffect,
     FlushedEffect, DrainedEffect, FaultEffect, RecoverEffect DEF Healthy, AckInv, Sent
<1>3. CASE Ready
  BY <1>t, <1>f, <1>n, <1>b, FieldsTyped, <1>3, ReadyEffect DEF Healthy, AckInv, Sent, KeptInv
<1>4. CASE Sending
  BY <1>t, <1>f, <1>n, <1>b, FieldsTyped, <1>4, SendEffect DEF Healthy, AckInv, Sent, Sends
<1> QED
  BY <1>1, <1>2, <1>3, <1>4, CallbackMoves, WordMoves

\* What is replayed is pending for the callback's epoch.
LEMMA ReplayEpoch ==
    ASSUME IInv, Next
    PROVE  (Healthy => (Replaying /\ ~Nothing => shared.pending \in {0, cb.epoch}))'
<1>t. Typed /\ AckInv /\ CallbackInv
  BY DEF IInv
<1>f. /\ cb.pc \in {"idle", "ready", "replay", "push", "drain"} /\ cb.epoch \in Nat
      /\ cb.epoch + 1 \in Nat /\ cb.flush \in BOOLEAN /\ cb.retained \in Values
      /\ shared.pending \in Nat
  BY <1>t, CallbackFields, SharedFields
<1>n. (Nothing <=> \A p \in Params : cb.retained[p] = 0)
      /\ (Nothing' <=> \A p \in Params : cb'.retained[p] = 0)
  BY NothingMeans
<1>1. CASE UNCHANGED <<cb.pc, cb.flush, cb.retained, cb.epoch, shared.pending,
                      shared.fault>>
  BY <1>t, <1>1, <1>n DEF Healthy, AckInv, Replaying, CallbackInv
<1>2. CASE Process \/ Retain \/ Ready \/ Flushed
  BY <1>t, <1>f, <1>n, FieldsTyped, <1>2, ProcessEffect, RetainEffect, ReadyEffect,
     FlushedEffect DEF Healthy, AckInv, Replaying, CallbackInv
<1>3. CASE Drain \/ Drained
  BY <1>t, <1>f, <1>n, FieldsTyped, <1>3, DrainEffect, DrainedEffect DEF Healthy, AckInv,
     Replaying, CallbackInv
<1>4. CASE TurnOn
  BY <1>t, <1>f, <1>n, FieldsTyped, <1>4, TurnOnEffect DEF Healthy, AckInv, Replaying,
     CallbackInv
<1>5. CASE AnswerStarting
  BY <1>t, <1>f, <1>n, FieldsTyped, <1>5, AnswerStartingEffect DEF Healthy, AckInv,
     Replaying, CallbackInv
<1>6. CASE EndCapture
  BY <1>t, <1>f, <1>n, FieldsTyped, <1>6, EndCaptureEffect DEF Healthy, AckInv, Replaying,
     CallbackInv
<1>7. CASE ComponentState \/ CaptureInAudio \/ Synced \/ Fault \/ Recover
  BY <1>t, <1>f, <1>n, FieldsTyped, <1>7, ComponentStateEffect, CaptureInAudioEffect,
     SyncedEffect, FaultEffect, RecoverEffect DEF Healthy, AckInv, Replaying, CallbackInv
<1>8. CASE Sending
  BY <1>t, <1>f, <1>n, FieldsTyped, <1>8, SendEffect DEF Healthy, AckInv, Replaying,
     CallbackInv, Sends
<1> QED
  BY <1>1, <1>2, <1>3, <1>4, <1>5, <1>6, <1>7, <1>8, CallbackMoves, WordMoves

\* Behind an acknowledgement under way nothing becomes retained.
LEMMA AckStays ==
    ASSUME IInv, Next, Healthy', NEW e \in Nat, AcksAhead(e), e \in {cb'.epoch, shared'.pending}
    PROVE  Nothing'
<1>t. Typed /\ AckInv /\ ReadyInv
  BY DEF IInv
<1>f. /\ cb.epoch \in Nat /\ cb.epoch + 1 \in Nat /\ cb.retained \in Values
      /\ cb.edits \in Values /\ shared.pending \in Nat
  BY <1>t, CallbackFields, SharedFields
<1>n. (Nothing <=> \A p \in Params : cb.retained[p] = 0)
      /\ (Nothing' <=> \A p \in Params : cb'.retained[p] = 0)
  BY NothingMeans
<1>a. Healthy => e > 0 /\ e <= cb.epoch /\ (e \in {cb.epoch, shared.pending} => Nothing)
  BY <1>t, AcksPositive DEF AckInv
<1>1. CASE UNCHANGED <<cb.retained, cb.epoch, shared.pending, shared.fault>>
  BY <1>t, <1>1, <1>n, <1>a DEF Healthy
<1>2. CASE Process \/ Ready \/ Flushed
  BY <1>t, <1>f, <1>n, <1>a, FieldsTyped, <1>2, ProcessEffect, ReadyEffect,
     FlushedEffect DEF Healthy
<1>3. CASE Drain
  BY <1>t, <1>f, <1>n, <1>a, FieldsTyped, <1>3, DrainEffect DEF Healthy
<1>4. CASE TurnOn
  BY <1>t, <1>f, <1>n, <1>a, FieldsTyped, <1>4, TurnOnEffect DEF Healthy
<1>5. CASE AnswerStarting
  BY <1>t, <1>f, <1>n, <1>a, FieldsTyped, <1>5, AnswerStartingEffect DEF Healthy
<1>6. CASE EndCapture \/ ComponentState \/ CaptureInAudio \/ Synced \/ Fault \/ Recover
  BY <1>t, <1>f, <1>n, <1>a, FieldsTyped, <1>6, EndCaptureEffect,
     ComponentStateEffect, CaptureInAudioEffect, SyncedEffect, FaultEffect,
     RecoverEffect DEF Healthy
<1>7. CASE Sending
  BY <1>t, <1>f, <1>n, <1>a, FieldsTyped, <1>7, SendEffect DEF Healthy, Sends
<1>8. CASE Retain
  <2>1. /\ Healthy /\ cb.running /\ ~mode.offline /\ shared.ready # cb.epoch
        /\ \A p \in Params : cb'.retained[p] =
               IF cb.edits[p] # 0 THEN cb.edits[p] ELSE cb.retained[p]
        /\ shared'.pending = IF Edited(cb.edits) = {} THEN shared.pending ELSE cb.epoch
        /\ UNCHANGED <<cb.epoch, shared.fault>>
    BY <1>8, RetainEffect
  <2>2. e # cb.epoch
    BY <1>t, <2>1 DEF ReadyInv, Prepared
  <2>3. shared'.pending = shared.pending /\ \A p \in Params : cb.edits[p] = 0
    BY <1>f, <2>1, <2>2 DEF Edited
  <2> QED
    BY <1>t, <1>f, <1>n, <1>a, FieldsTyped, <2>1, <2>2, <2>3
<1> QED
  BY <1>1, <1>2, <1>3, <1>4, <1>5, <1>6, <1>7, <1>8, CallbackMoves, WordMoves

\* Behind an acknowledgement nothing is retained.
LEMMA AckLast ==
    ASSUME IInv, Next, Healthy', AcksAhead(cb.epoch)' \/ AcksAhead(shared.pending)'
    PROVE  Nothing'
<1>1. Typed'
  BY StepTyped
<1> PICK e \in Nat : e \in {cb'.epoch, shared'.pending} /\ AcksAhead(e)'
  <2>1. cb'.epoch \in Nat /\ shared'.pending \in Nat
    BY <1>1 DEF Typed, Callbacks, Words
  <2> QED
    BY <2>1 DEF AcksAhead
<1> QED
  BY AcksGrow, AckStays

\* What was retained for an earlier state does not count again.
LEMMA LiveGrows ==
    ASSUME IInv, Next, Healthy, Healthy', Live' PROVE Live \/ Nothing'
<1>t. Typed /\ CallbackInv /\ CallInv
  BY DEF IInv
<1>f. /\ cb.rev \in Nat /\ shared.revision \in Nat /\ shared.revision + 1 \in Nat
      /\ mbox.op \in {0, 16, 18}
  BY <1>t, CallbackFields, SharedFields, MailFields
<1>1. CASE UNCHANGED <<cb.rev, mbox.st, mbox.op, shared.revision, shared.fault>>
  BY <1>t, <1>1 DEF Healthy, Live, Restoring
<1>2. CASE Process
  BY <1>t, <1>f, <1>2, ProcessEffect, NothingMeans, FieldsTyped DEF Healthy, Live, Restoring
<1>3. CASE AnswerStarting
  BY <1>t, <1>f, <1>3, AnswerStartingEffect DEF Healthy, Live, Restoring
<1>4. CASE Admit \/ AnswerOnly
  BY <1>t, <1>f, <1>4, AdmitEffect, AnswerOnlyEffect DEF Healthy, Live, Restoring
<1>5. CASE EndCapture \/ CaptureInAudio \/ Fault \/ Recover
  BY <1>t, <1>f, <1>5, EndCaptureEffect, CaptureInAudioEffect, FaultEffect,
     RecoverEffect DEF Healthy, Live, Restoring
<1>6. CASE ComponentState
  BY <1>t, <1>f, <1>6, ComponentStateEffect DEF Healthy, Live, Restoring, CallbackInv
<1> QED
  BY <1>1, <1>2, <1>3, <1>4, <1>5, <1>6, CallbackMoves, MailMoves, WordMoves

\* What is retained counts until a restore is answered.
LEMMA LiveEnds ==
    ASSUME IInv, Next, Healthy, Healthy', Live PROVE Live' \/ (mbox.op = 18 /\ \A p \in Params : plugin'[p] = clock.stamps
                                          /\ snap'.bytes[p] = clock.stamps)
<1>t. Typed /\ CallbackInv /\ CallInv
  BY DEF IInv
<1>f. /\ cb.rev \in Nat /\ shared.revision \in Nat /\ shared.revision + 1 \in Nat
      /\ mbox.op \in {0, 16, 18}
  BY <1>t, CallbackFields, SharedFields, MailFields
<1>1. CASE UNCHANGED <<cb.rev, mbox.st, mbox.op, shared.revision, shared.fault>>
  BY <1>t, <1>1 DEF Healthy, Live, Restoring
<1>2. CASE Process \/ ComponentState
  BY <1>t, <1>f, <1>2, ProcessEffect, ComponentStateEffect DEF Healthy, Live, Restoring, CallInv
<1>3. CASE AnswerStarting
  BY <1>t, <1>f, <1>3, AnswerStartingEffect DEF Healthy, Live, Restoring
<1>4. CASE AnswerOnly \/ EndCapture
  BY <1>t, <1>f, <1>4, AnswerOnlyEffect, EndCaptureEffect DEF Healthy, Live, Restoring
<1>5. CASE CaptureInAudio \/ Fault \/ Recover
  BY <1>t, <1>f, <1>5, CaptureInAudioEffect, FaultEffect, RecoverEffect DEF Healthy, Live,
     Restoring
<1>6. CASE Admit
  BY <1>t, <1>f, <1>6, AdmitEffect DEF Healthy, Live, Restoring, CallbackInv
<1> QED
  BY <1>1, <1>2, <1>3, <1>4, <1>5, <1>6, CallbackMoves, MailMoves, WordMoves

\* Retained edits keep an epoch pending.
LEMMA KeptKept ==
    ASSUME IInv, Next PROVE KeptInv'
<1>t. Typed /\ KeptInv /\ KeptInv /\ AckInv /\ CallbackInv /\ WorkerInv
  BY DEF IInv
<1>f. /\ cb.epoch \in Nat /\ cb.epoch + 1 \in Nat /\ cb.retained \in Values
      /\ cb.sync \in Nat /\ shared.pending \in Nat
  BY <1>t, CallbackFields, SharedFields
<1>n. (Nothing <=> \A p \in Params : cb.retained[p] = 0)
      /\ (Nothing' <=> \A p \in Params : cb'.retained[p] = 0)
  BY NothingMeans
<1>l. Healthy /\ Healthy' /\ Live' => Live \/ Nothing'
  BY LiveGrows
<1>1. CASE UNCHANGED <<cb.retained, shared.pending, shared.fault>>
  BY <1>t, <1>1, <1>n, <1>l DEF KeptInv, Healthy, KeptInv
<1>2. CASE Process \/ Flushed \/ EndCapture \/ CaptureInAudio \/ Fault \/ Recover
  BY <1>t, <1>f, <1>n, <1>l, FieldsTyped, <1>2, ProcessEffect, FlushedEffect,
     EndCaptureEffect, CaptureInAudioEffect, FaultEffect, RecoverEffect DEF KeptInv, Healthy
<1>3. CASE Retain
  BY <1>t, <1>f, <1>n, <1>l, FieldsTyped, <1>3, RetainEffect DEF KeptInv, Healthy, Edited,
     CallbackInv
<1>4. CASE Ready
  BY <1>t, <1>f, <1>n, <1>l, FieldsTyped, <1>4, ReadyEffect DEF KeptInv, Healthy, CallbackInv
<1>5. CASE Drain
  BY <1>t, <1>f, <1>n, <1>l, FieldsTyped, <1>5, DrainEffect DEF KeptInv, Healthy, AckInv
<1>6. CASE Sending
  BY <1>t, <1>f, <1>n, <1>l, FieldsTyped, <1>6, SendEffect DEF KeptInv, Healthy, Sends
<1>7. CASE Synced
  BY <1>t, <1>f, <1>n, <1>l, FieldsTyped, <1>7, SyncedEffect DEF KeptInv, Healthy, AckInv,
     WorkerInv, AcksAhead, Acks
<1>8. CASE ComponentState
  <2>1. /\ w.pc = "top" /\ Healthy /\ mbox.op \in {16, 18}
        /\ shared'.pending = IF mbox.op = 18 THEN 0 ELSE shared.pending
        /\ UNCHANGED <<cb, shared.fault>>
    BY <1>8, ComponentStateEffect
  <2>2. CASE mbox.op = 18
    <3>1. ~Live'
      BY <1>t, <2>1, <2>2, ComponentStateEffect, <1>8, CallbackFields, SharedFields
      DEF Live, Restoring, CallbackInv
    <3> QED
      BY <3>1 DEF KeptInv
  <2>3. CASE mbox.op # 18
    BY <1>t, <1>f, <1>n, <1>l, FieldsTyped, <2>1, <2>3 DEF KeptInv, Healthy
  <2> QED
    BY <2>2, <2>3
<1> QED
  BY <1>1, <1>2, <1>3, <1>4, <1>5, <1>6, <1>7, <1>8, CallbackMoves, WordMoves

\* Whatever ends the retention of a pending epoch acknowledges it.
LEMMA PendingStays ==
    ASSUME IInv, Next, Healthy', NEW e \in Nat, e = shared'.pending, e # 0, Nothing'
    PROVE  Healthy /\ (AcksAhead(e) \/ AcksAhead(e)')
<1>t. Typed /\ PendingInv /\ AckInv
  BY DEF IInv
<1>f. /\ cb.retained \in Values /\ cb.edits \in Values /\ shared.pending \in Nat
  BY <1>t, CallbackFields, SharedFields
<1>n. (Nothing <=> \A p \in Params : cb.retained[p] = 0)
      /\ (Nothing' <=> \A p \in Params : cb'.retained[p] = 0)
  BY NothingMeans
<1>a. Healthy /\ e = shared.pending /\ Nothing => AcksAhead(e)
  BY <1>t DEF PendingInv
<1>1. CASE UNCHANGED <<cb.retained, shared.pending, shared.fault>>
  BY <1>t, <1>1, <1>n, <1>a DEF Healthy
<1>2. CASE Process \/ Ready \/ Flushed \/ Drain \/ EndCapture
  BY <1>t, <1>f, <1>n, <1>a, FieldsTyped, <1>2, ProcessEffect, ReadyEffect,
     FlushedEffect, DrainEffect, EndCaptureEffect DEF Healthy
<1>3. CASE ComponentState \/ CaptureInAudio \/ Synced \/ Fault \/ Recover
  BY <1>t, <1>f, <1>n, <1>a, FieldsTyped, <1>3, ComponentStateEffect,
     CaptureInAudioEffect, SyncedEffect, FaultEffect, RecoverEffect DEF Healthy
<1>4. CASE Retain
  BY <1>t, <1>f, <1>n, <1>a, FieldsTyped, <1>4, RetainEffect DEF Healthy, Edited
<1>5. CASE Sending
  <2>s. PICK edits \in Values, sync \in BOOLEAN, flush \in BOOLEAN :
           Sends(edits, sync, flush)
    BY <1>5, SendEffect
  <2>1. /\ Healthy
        /\ flush => /\ cb.pc = "replay" /\ ~Nothing /\ Edited(edits) # {}
                    /\ Edited(edits) \subseteq Edited(cb.retained)
                    /\ \A p \in Params : edits[p] \in {0, cb.retained[p]}
                    /\ sync <=> Edited(cb.retained) = Edited(edits)
        /\ \A p \in Params : cb'.retained[p] =
               IF flush /\ edits[p] # 0 THEN 0 ELSE cb.retained[p]
        /\ ~flush => cb'.retained = cb.retained
        /\ UNCHANGED <<shared.pending, shared.fault>>
    BY <2>s DEF Sends
  <2>2. CASE Nothing
    BY <1>a, <2>1, <2>2
  <2>3. CASE ~Nothing
    <3>1. flush /\ cb.pc = "replay" /\ Edited(edits) \subseteq Edited(cb.retained)
      BY <1>n, <2>1, <2>3
    <3>2. Edited(cb.retained) = Edited(edits)
      BY <1>n, <2>1, <3>1 DEF Edited
    <3>3. sync /\ e = cb.epoch
      BY <1>t, <2>1, <2>3, <3>1, <3>2 DEF AckInv, Replaying
    <3>4. Acks(Upcoming'[Len(Upcoming) + 1], e) /\ Len(Upcoming) + 1 \in 1 .. Len(Upcoming')
      BY <2>s, <3>3 DEF Sends, Grown, Acks
    <3> QED
      BY <2>1, <3>4 DEF AcksAhead
  <2> QED
    BY <2>2, <2>3
<1> QED
  BY <1>1, <1>2, <1>3, <1>4, <1>5, CallbackMoves, WordMoves

\* A pending epoch has retained edits or its acknowledgement under way.
LEMMA PendingKept ==
    ASSUME IInv, Next
    PROVE  PendingInv'
<1> SUFFICES ASSUME Healthy', shared'.pending # 0, Nothing'
             PROVE  AcksAhead(shared.pending)'
  BY DEF PendingInv
<1>1. Typed'
  BY StepTyped
<1> PICK e \in Nat : e = shared'.pending
  BY <1>1 DEF Typed, Words
<1>2. AcksAhead(e)'
  BY PendingStays, AcksStay
<1> QED
  BY <1>2 DEF AcksAhead

\* Nothing is retained behind an acknowledgement.
LEMMA AckKept ==
    ASSUME IInv, Next PROVE AckInv'
  BY ReplayLast, OwnLast, ReplayEpoch, AckLast
  DEF AckInv

\* What the worker holds is not older than the plug-in's value.
LEMMA ItemOrderKept ==
    ASSUME IInv, Next, NEW p \in Params PROVE (Healthy => ItemOrder(p))'
<1>t. Typed /\ OrderInv /\ WorkerInv /\ BareInv /\ CallInv /\ CaptureInv /\ StampInv
  BY DEF IInv
<1>v. /\ plugin[p] \in Nat /\ w.item.edits[p] \in Nat
      /\ \A i \in 1 .. Len(Upcoming) : Upcoming[i].edits[p] \in Nat
      /\ Len(Upcoming) \in Nat /\ NoEdits[p] = 0 /\ NoItem.edits[p] = 0
  BY <1>t, ValuesAt
<1>1. CASE UNCHANGED <<plugin, w.item, shared.fault>>
  BY <1>t, <1>1, <1>v DEF Healthy, OrderInv, ItemOrder
<1>2. CASE ComponentState
  BY <1>t, <1>v, <1>2, ComponentStateEffect DEF Healthy, OrderInv, ItemOrder, WorkerInv, Between
<1>3. CASE TakeNext \/ PopNext
  BY <1>t, <1>v, <1>3, TakeNextEffect, PopNextEffect DEF Healthy, OrderInv, ItemOrder,
     LineOrder, Shrunk
<1>4. CASE TakeBack \/ PollStart \/ Transition \/ FinishStart
  BY <1>t, <1>v, <1>4, TakeBackEffect, PollStartEffect, TransitionEffect,
     FinishStartEffect DEF Healthy, OrderInv, ItemOrder
<1>5. CASE Publish \/ Synced \/ PeerStep \/ Fault \/ Recover
  BY <1>t, <1>v, <1>5, PublishEffect, SyncedEffect, PeerEffect, FaultEffect,
     RecoverEffect DEF Healthy, OrderInv, ItemOrder
<1> QED
  BY <1>1, <1>2, <1>3, <1>4, <1>5, ValueMoves, WorkerMoves, WordMoves

\* What is applied has reached the plug-in.
LEMMA DoneOrderKept ==
    ASSUME IInv, Next, NEW p \in Params PROVE (Healthy => DoneOrder(p))'
<1>t. Typed /\ OrderInv /\ WorkerInv
  BY DEF IInv
<1>f. /\ w.pc \in Labels /\ peer.applied \in BOOLEAN
  BY <1>t, WorkerFields, PeerFields
<1>v. /\ plugin[p] \in Nat /\ w.item.edits[p] \in Nat
      /\ \A i \in 1 .. Len(Upcoming) : Upcoming[i].edits[p] \in Nat
      /\ Len(Upcoming) \in Nat /\ NoEdits[p] = 0 /\ NoItem.edits[p] = 0
  BY <1>t, ValuesAt
<1>1. CASE UNCHANGED <<plugin, w.item, w.pc, peer.applied, shared.fault>>
  BY <1>t, <1>1, <1>v DEF Healthy, OrderInv, DoneOrder
<1>2. CASE EndCapture \/ TakeBack
  BY <1>t, <1>f, <1>v, <1>2, EndCaptureEffect, TakeBackEffect DEF Healthy, OrderInv, DoneOrder
<1>3. CASE PopBack \/ TakeNothing \/ PendingStart
  BY <1>t, <1>f, <1>v, <1>3, PopBackEffect, TakeNothingEffect, PendingStartEffect
     DEF Healthy, OrderInv, DoneOrder
<1>4. CASE PendingEmpty \/ PollStart \/ PendingWait \/ Transition \/ FinishStart
  BY <1>t, <1>f, <1>v, <1>4, PendingEmptyEffect, PollStartEffect, PendingWaitEffect,
     TransitionEffect, FinishStartEffect DEF Healthy, OrderInv, DoneOrder
<1>5. CASE Publish \/ Synced \/ PeerStep \/ Fault \/ Recover
  BY <1>t, <1>f, <1>v, <1>5, PublishEffect, SyncedEffect, PeerEffect, FaultEffect,
     RecoverEffect DEF Healthy, OrderInv, DoneOrder
<1>6. CASE ComponentState
  BY <1>t, <1>f, <1>v, <1>6, ComponentStateEffect DEF Healthy, OrderInv, DoneOrder, WorkerInv
<1>7. CASE TakeNext \/ PopNext
  BY <1>t, <1>f, <1>v, <1>7, TakeNextEffect, PopNextEffect DEF Healthy, OrderInv, DoneOrder,
     WorkerInv, Between, Starting
<1> QED
  BY <1>1, <1>2, <1>3, <1>4, <1>5, <1>6, <1>7, ValueMoves, WorkerMoves, HostMoves,
     WordMoves

\* The block's own edits are the newest.
LEMMA OwnOrderKept ==
    ASSUME IInv, Next, NEW p \in Params PROVE (Healthy => OwnOrder(p))'
<1>t. Typed /\ OrderInv
  BY DEF IInv
<1>f. /\ cb.pc \in {"idle", "ready", "replay", "push", "drain"}
      /\ clock.stamps \in Nat /\ clock.stamps + 1 \in Nat
  BY <1>t, CallbackFields, ClockFields
<1>v. /\ cb.edits[p] \in Nat
  BY <1>t, ValuesAt
<1>1. CASE UNCHANGED <<cb.pc, cb.edits, clock.stamps, shared.fault>>
  BY <1>t, <1>1, <1>v DEF Healthy, OrderInv, OwnOrder
<1>2. CASE Process \/ Retain \/ Ready \/ Flushed
  BY <1>t, <1>f, <1>v, <1>2, ProcessEffect, RetainEffect, ReadyEffect, FlushedEffect
     DEF Healthy, OrderInv, OwnOrder
<1>3. CASE Drained \/ RestoreRunning \/ RestoreStopped \/ Fault \/ Recover
  BY <1>t, <1>f, <1>v, <1>3, DrainedEffect, RestoreRunningEffect,
     RestoreStoppedEffect, FaultEffect, RecoverEffect DEF Healthy, OrderInv, OwnOrder
<1>4. CASE Sending
  BY <1>t, <1>f, <1>v, <1>4, SendEffect DEF Healthy, OrderInv, OwnOrder, Sends
<1> QED
  BY <1>1, <1>2, <1>3, <1>4, CallbackMoves, ClockMoves, WordMoves

\* The line's values are ordered, the plug-in's before them.
LEMMA LineOrderKept ==
    ASSUME IInv, Next, NEW p \in Params PROVE (Healthy => LineOrder(p))'
<1>t. Typed /\ OrderInv /\ WorkerInv /\ BareInv /\ CallbackInv /\ StampInv
  BY DEF IInv
<1>v. /\ plugin[p] \in Nat /\ w.item.edits[p] \in Nat
      /\ \A i \in 1 .. Len(Upcoming) : Upcoming[i].edits[p] \in Nat
      /\ Len(Upcoming) \in Nat /\ NoEdits[p] = 0 /\ NoItem.edits[p] = 0
      /\ cb.edits[p] \in Nat /\ cb.retained[p] \in Nat
  BY <1>t, ValuesAt
<1>1. CASE UNCHANGED <<plugin, w.item, Upcoming, shared.fault>>
  BY <1>t, <1>1, <1>v DEF Healthy, OrderInv, LineOrder
<1>2. CASE TakeBack
  BY <1>t, <1>v, <1>2, TakeBackEffect DEF Healthy, OrderInv, LineOrder, BareInv, Bare,
     WorkerInv, Between, Starting
<1>3. CASE PollStart
  BY <1>t, <1>v, <1>3, PollStartEffect DEF Healthy, OrderInv, LineOrder, BareInv, Bare,
     WorkerInv, Between, Starting
<1>4. CASE Transition \/ FinishStart
  BY <1>t, <1>v, <1>4, TransitionEffect, FinishStartEffect DEF Healthy, OrderInv, LineOrder,
     BareInv, Bare, WorkerInv, Between, Starting
<1>5. CASE PeerStep \/ Fault \/ Recover
  BY <1>t, <1>v, <1>5, PeerEffect, FaultEffect, RecoverEffect DEF Healthy, OrderInv, LineOrder
<1>6. CASE Sending
  <2>s. PICK edits \in Values, sync \in BOOLEAN, flush \in BOOLEAN :
           Sends(edits, sync, flush)
    BY <1>6, SendEffect
  <2>1. /\ Healthy /\ Grown("AUDIO", cb.epoch, cb.submitted + 1, edits, sync)
        /\ flush => /\ cb.pc = "replay" /\ ~Nothing /\ Edited(edits) # {}
                    /\ Edited(edits) \subseteq Edited(cb.retained)
                    /\ \A q \in Params : edits[q] \in {0, cb.retained[q]}
                    /\ sync <=> Edited(cb.retained) = Edited(edits)
        /\ ~flush => cb.pc = "push" /\ edits = cb.edits /\ ~sync
        /\ UNCHANGED <<plugin, w, shared.fault>>
    BY <2>s DEF Sends
  <2>0. LineOrder(p)
    BY <1>t, <2>1 DEF OrderInv
  <2>n. edits[p] # 0 =>
          /\ plugin[p] <= edits[p] /\ w.item.edits[p] <= edits[p]
          /\ \A k \in 1 .. Len(Upcoming) : Upcoming[k].edits[p] <= edits[p]
    <3>1. CASE flush
      <4>1. KeptOrder(p) /\ Live /\ edits[p] \in {0, cb.retained[p]}
        BY <1>t, <2>1, <3>1, BusyMeans DEF OrderInv
      <4> QED
        BY <4>1 DEF KeptOrder
    <3>2. CASE ~flush
      <4>1. OwnOrder(p) /\ StampAt(p) /\ cb.pc # "idle" /\ edits = cb.edits
        BY <1>t, <2>1, <3>2 DEF OrderInv, StampInv
      <4> QED
        BY <4>1 DEF OwnOrder, StampAt
    <3> QED
      BY <3>1, <3>2
  <2>2. ASSUME NEW i \in 1 .. Len(Upcoming'), Upcoming'[i].edits[p] # 0
        PROVE  /\ plugin'[p] <= Upcoming'[i].edits[p] /\ w'.item.edits[p] <= Upcoming'[i].edits[p]
               /\ \A k \in 1 .. Len(Upcoming') :
                    k < i => Upcoming'[k].edits[p] <= Upcoming'[i].edits[p]
    <3>1. CASE i \in 1 .. Len(Upcoming)
      <4>1. /\ Upcoming'[i] = Upcoming[i]
            /\ \A k \in 1 .. Len(Upcoming') : k < i =>
                   k \in 1 .. Len(Upcoming) /\ Upcoming'[k] = Upcoming[k]
        BY <1>v, <2>1, <3>1 DEF Grown
      <4> QED
        BY <2>0, <2>1, <2>2, <3>1, <4>1 DEF LineOrder
    <3>2. CASE i = Len(Upcoming) + 1
      <4>1. /\ Upcoming'[i].edits = edits
            /\ \A k \in 1 .. Len(Upcoming') : k < i =>
                   k \in 1 .. Len(Upcoming) /\ Upcoming'[k] = Upcoming[k]
        BY <1>v, <2>1, <3>2 DEF Grown
      <4> QED
        BY <2>1, <2>2, <2>n, <4>1
    <3> QED
      BY <2>1, <3>1, <3>2 DEF Grown
  <2> QED
    BY <2>2 DEF LineOrder
<1>7. CASE TurnOn \/ AnswerStarting
  <2>1. /\ Healthy /\ cb.pc = "idle" /\ Grown("START", cb.epoch + 1, 0, NoEdits, FALSE)
        /\ UNCHANGED <<plugin, w, shared.fault>>
    BY <1>7, TurnOnEffect, AnswerStartingEffect
  <2>0. LineOrder(p)
    BY <1>t, <2>1 DEF OrderInv
  <2>2. ASSUME NEW i \in 1 .. Len(Upcoming'), Upcoming'[i].edits[p] # 0
        PROVE  /\ plugin'[p] <= Upcoming'[i].edits[p] /\ w'.item.edits[p] <= Upcoming'[i].edits[p]
               /\ \A k \in 1 .. Len(Upcoming') :
                    k < i => Upcoming'[k].edits[p] <= Upcoming'[i].edits[p]
    <3>1. CASE i \in 1 .. Len(Upcoming)
      <4>1. /\ Upcoming'[i] = Upcoming[i]
            /\ \A k \in 1 .. Len(Upcoming') : k < i =>
                   k \in 1 .. Len(Upcoming) /\ Upcoming'[k] = Upcoming[k]
        BY <1>v, <2>1, <3>1 DEF Grown
      <4> QED
        BY <2>0, <2>1, <2>2, <3>1, <4>1 DEF LineOrder
    <3>2. CASE i = Len(Upcoming) + 1
      BY <1>v, <2>1, <2>2, <3>2 DEF Grown
    <3> QED
      BY <2>1, <3>1, <3>2 DEF Grown
  <2> QED
    BY <2>2 DEF LineOrder
<1>8. CASE TurnOff \/ RestoreRunning
  <2>1. /\ Healthy /\ cb.pc = "idle" /\ Grown("STOP", cb.epoch, 0, NoEdits, FALSE)
        /\ UNCHANGED <<plugin, w, shared.fault>>
    BY <1>8, TurnOffEffect, RestoreRunningEffect
  <2>0. LineOrder(p)
    BY <1>t, <2>1 DEF OrderInv
  <2>2. ASSUME NEW i \in 1 .. Len(Upcoming'), Upcoming'[i].edits[p] # 0
        PROVE  /\ plugin'[p] <= Upcoming'[i].edits[p] /\ w'.item.edits[p] <= Upcoming'[i].edits[p]
               /\ \A k \in 1 .. Len(Upcoming') :
                    k < i => Upcoming'[k].edits[p] <= Upcoming'[i].edits[p]
    <3>1. CASE i \in 1 .. Len(Upcoming)
      <4>1. /\ Upcoming'[i] = Upcoming[i]
            /\ \A k \in 1 .. Len(Upcoming') : k < i =>
                   k \in 1 .. Len(Upcoming) /\ Upcoming'[k] = Upcoming[k]
        BY <1>v, <2>1, <3>1 DEF Grown
      <4> QED
        BY <2>0, <2>1, <2>2, <3>1, <4>1 DEF LineOrder
    <3>2. CASE i = Len(Upcoming) + 1
      BY <1>v, <2>1, <2>2, <3>2 DEF Grown
    <3> QED
      BY <2>1, <3>1, <3>2 DEF Grown
  <2> QED
    BY <2>2 DEF LineOrder
<1>9. CASE ComponentState
  <2>1. /\ w.pc = "top" /\ Healthy /\ Fenced
        /\ mbox.op = 18 => \A q \in Params : plugin'[q] = mbox.stamp
        /\ mbox.op # 18 => plugin' = plugin
        /\ UNCHANGED <<w.item, Upcoming, shared.fault>>
    BY <1>9, ComponentStateEffect
  <2>2. CASE mbox.op = 18
    <3>1. Upcoming = <<>> /\ Len(Upcoming) = 0
      BY <2>1, <2>2, FencedMeans, Line
    <3> QED
      BY <2>1, <3>1 DEF LineOrder
  <2>3. CASE mbox.op # 18
    BY <1>t, <1>v, <2>1, <2>3 DEF Healthy, OrderInv, LineOrder
  <2> QED
    BY <2>2, <2>3
<1>10. CASE TakeNext \/ PopNext
  <2>1. /\ Healthy /\ Upcoming[1] \in Items /\ Shrunk /\ w'.item = Upcoming[1]
        /\ UNCHANGED <<plugin>>
    BY <1>10, TakeNextEffect, PopNextEffect
  <2>0. LineOrder(p)
    BY <1>t, <2>1 DEF OrderInv
  <2>2. ASSUME NEW i \in 1 .. Len(Upcoming'), Upcoming'[i].edits[p] # 0
        PROVE  /\ plugin'[p] <= Upcoming'[i].edits[p] /\ w'.item.edits[p] <= Upcoming'[i].edits[p]
               /\ \A k \in 1 .. Len(Upcoming') :
                    k < i => Upcoming'[k].edits[p] <= Upcoming'[i].edits[p]
    <3>1. PICK j \in 1 .. Len(Upcoming) : j = i + 1 /\ Upcoming'[i] = Upcoming[j]
      BY <2>1 DEF Shrunk
    <3>2. 1 \in 1 .. Len(Upcoming) /\ 1 < j
      BY <2>1, <3>1 DEF Shrunk
    <3>3. ASSUME NEW k \in 1 .. Len(Upcoming'), k < i
          PROVE  Upcoming'[k].edits[p] <= Upcoming'[i].edits[p]
      <4>1. PICK l \in 1 .. Len(Upcoming) : l = k + 1 /\ Upcoming'[k] = Upcoming[l]
        BY <2>1 DEF Shrunk
      <4>2. l < j
        BY <3>1, <3>3, <4>1
      <4> QED
        BY <2>0, <2>2, <3>1, <4>1, <4>2 DEF LineOrder
    <3> QED
      BY <2>0, <2>1, <2>2, <3>1, <3>2, <3>3 DEF LineOrder
  <2> QED
    BY <2>2 DEF LineOrder
<1>11. CASE Publish
  <2>1. /\ w.pc = "audio" /\ Healthy
        /\ w'.item = IF w.item.sync THEN w.item ELSE NoItem
        /\ UNCHANGED <<plugin, Upcoming, shared>>
    BY <1>11, PublishEffect
  <2> QED
    BY <1>t, <1>v, <2>1 DEF Healthy, OrderInv, LineOrder
<1>12. CASE Synced
  <2>1. /\ w.pc = "sync" /\ Healthy /\ w'.item = NoItem
        /\ UNCHANGED <<plugin, Upcoming, shared.fault>>
    BY <1>12, SyncedEffect
  <2> QED
    BY <1>t, <1>v, <2>1 DEF Healthy, OrderInv, LineOrder
<1> QED
  BY <1>1, <1>2, <1>3, <1>4, <1>5, <1>6, <1>7, <1>8, <1>9, <1>10, <1>11, <1>12,
     ValueMoves, WorkerMoves, LineMoves, WordMoves

\* What is retained is newer than the plug-in's value and the line's.
LEMMA KeptOrderKept ==
    ASSUME IInv, Next, NEW p \in Params PROVE (Healthy => KeptOrder(p))'
<1>t. Typed /\ OrderInv /\ WorkerInv /\ BareInv /\ CallbackInv /\ StampInv /\ AckInv
  BY DEF IInv
<1>v. /\ plugin[p] \in Nat /\ w.item.edits[p] \in Nat
      /\ \A i \in 1 .. Len(Upcoming) : Upcoming[i].edits[p] \in Nat
      /\ Len(Upcoming) \in Nat /\ NoEdits[p] = 0 /\ NoItem.edits[p] = 0
      /\ cb.edits[p] \in Nat /\ cb.retained[p] \in Nat
  BY <1>t, ValuesAt
<1>l. Healthy /\ Healthy' /\ Live' => Live \/ cb'.retained[p] = 0
  BY LiveGrows, NothingMeans
<1>1. CASE UNCHANGED <<plugin, w.item, Upcoming, cb.retained, shared.fault>>
  BY <1>t, <1>1, <1>v, <1>l DEF Healthy, OrderInv, KeptOrder
<1>2. CASE Process \/ Publish \/ Synced \/ PeerStep \/ Fault \/ Recover
  BY <1>t, <1>v, <1>l, <1>2, ProcessEffect, PublishEffect, SyncedEffect, PeerEffect,
     FaultEffect, RecoverEffect DEF Healthy, OrderInv, KeptOrder
<1>3. CASE Retain
  BY <1>t, <1>v, <1>l, <1>3, RetainEffect, BusyMeans DEF Healthy, OrderInv, KeptOrder,
     StampInv, StampAt, OwnOrder
<1>4. CASE TurnOn
  BY <1>t, <1>v, <1>l, <1>4, TurnOnEffect DEF Healthy, OrderInv, KeptOrder, Grown
<1>5. CASE TakeBack \/ PollStart \/ Transition \/ FinishStart
  BY <1>t, <1>v, <1>l, <1>5, TakeBackEffect, PollStartEffect, TransitionEffect,
     FinishStartEffect
  DEF Healthy, OrderInv, KeptOrder, BareInv, Bare, WorkerInv, Between, Starting
<1>6. CASE Sending
  <2>s. PICK edits \in Values, sync \in BOOLEAN, flush \in BOOLEAN :
           Sends(edits, sync, flush)
    BY <1>6, SendEffect
  <2>1. /\ Healthy /\ Grown("AUDIO", cb.epoch, cb.submitted + 1, edits, sync)
        /\ flush => /\ cb.pc = "replay" /\ ~Nothing /\ Edited(edits) # {}
                    /\ Edited(edits) \subseteq Edited(cb.retained)
                    /\ \A q \in Params : edits[q] \in {0, cb.retained[q]}
                    /\ sync <=> Edited(cb.retained) = Edited(edits)
        /\ ~flush => cb.pc = "push" /\ edits = cb.edits /\ ~sync
        /\ \A q \in Params : cb'.retained[q] =
               IF flush /\ edits[q] # 0 THEN 0 ELSE cb.retained[q]
        /\ ~flush => cb'.retained = cb.retained
        /\ UNCHANGED <<plugin, w, shared.fault>>
    BY <2>s DEF Sends
  <2>2. KeptOrder(p) /\ (cb.pc = "push" => cb.retained[p] = 0)
    BY <1>t, <2>1, NothingMeans DEF OrderInv, AckInv
  <2>3. ASSUME Live', cb'.retained[p] # 0
        PROVE  cb'.retained[p] = cb.retained[p] /\ edits[p] = 0 /\ Live /\ cb.retained[p] # 0
    BY <1>l, <2>1, <2>2, <2>3 DEF Healthy
  <2>4. ASSUME Live', cb'.retained[p] # 0, NEW i \in 1 .. Len(Upcoming')
        PROVE  Upcoming'[i].edits[p] <= cb'.retained[p]
    BY <1>v, <2>1, <2>2, <2>3, <2>4 DEF KeptOrder, Grown
  <2> QED
    BY <2>1, <2>2, <2>3, <2>4 DEF KeptOrder
<1>7. CASE AnswerStarting
  <2>1. /\ Healthy /\ cb.pc = "idle" /\ Grown("START", cb.epoch + 1, 0, NoEdits, FALSE)
        /\ UNCHANGED <<plugin, w, cb.retained, shared.fault>>
    BY <1>7, AnswerStartingEffect
  <2> QED
    BY <1>t, <1>v, <1>l, <2>1 DEF Healthy, OrderInv, KeptOrder, Grown
<1>8. CASE TurnOff
  <2>1. /\ Healthy /\ cb.pc = "idle" /\ Grown("STOP", cb.epoch, 0, NoEdits, FALSE)
        /\ UNCHANGED <<plugin, w, cb.retained, shared.fault>>
    BY <1>8, TurnOffEffect
  <2> QED
    BY <1>t, <1>v, <1>l, <2>1 DEF Healthy, OrderInv, KeptOrder, Grown
<1>9. CASE RestoreRunning
  <2>1. /\ Healthy /\ cb.pc = "idle" /\ Grown("STOP", cb.epoch, 0, NoEdits, FALSE)
        /\ UNCHANGED <<plugin, w, cb.retained, shared.fault>>
    BY <1>9, RestoreRunningEffect
  <2> QED
    BY <1>t, <1>v, <1>l, <2>1 DEF Healthy, OrderInv, KeptOrder, Grown
<1>10. CASE ComponentState
  <2>1. /\ w.pc = "top" /\ Healthy
        /\ mbox.op = 18 => \A q \in Params : plugin'[q] = mbox.stamp
        /\ mbox.op # 18 => plugin' = plugin
        /\ UNCHANGED <<w.item, Upcoming, cb, shared.fault>>
    BY <1>10, ComponentStateEffect
  <2>2. CASE mbox.op = 18
    <3>1. ~Live'
      BY <1>t, <2>1, <2>2, ComponentStateEffect, <1>10, CallbackFields, SharedFields
      DEF Live, Restoring, CallbackInv
    <3> QED
      BY <3>1 DEF KeptOrder
  <2>3. CASE mbox.op # 18
    BY <1>t, <1>v, <1>l, <2>1, <2>3 DEF Healthy, OrderInv, KeptOrder
  <2> QED
    BY <2>2, <2>3
<1>11. CASE TakeNext
  <2>1. /\ Healthy /\ w.pc \in Between /\ Upcoming[1] \in Items /\ Shrunk
        /\ w'.item = Upcoming[1]
        /\ Upcoming[1].kind = "AUDIO" => w'.pc = "audio"
        /\ UNCHANGED <<plugin, cb, shared>>
    BY <1>11, TakeNextEffect
  <2>2. KeptOrder(p)
    BY <1>t, <2>1 DEF OrderInv
  <2>3. ASSUME Live', cb'.retained[p] # 0
        PROVE  Live /\ cb.retained[p] # 0 /\ cb'.retained = cb.retained
    BY <1>l, <2>1, <2>3 DEF Healthy
  <2>4. ASSUME Live', cb'.retained[p] # 0, NEW i \in 1 .. Len(Upcoming')
        PROVE  Upcoming'[i].edits[p] <= cb'.retained[p]
    <3>1. PICK j \in 1 .. Len(Upcoming) : Upcoming'[i] = Upcoming[j]
      BY <2>1 DEF Shrunk
    <3> QED
      BY <2>2, <2>3, <2>4, <3>1 DEF KeptOrder
  <2>5. 1 \in 1 .. Len(Upcoming)
    BY <2>1 DEF Shrunk
  <2> QED
    BY <2>1, <2>2, <2>3, <2>4, <2>5 DEF KeptOrder
<1>12. CASE PopNext
  <2>1. /\ Healthy /\ w.pc \in {"pop1", "pop2"} /\ Upcoming[1] \in Items
        /\ Upcoming[1].kind \in {"STOP", "AUDIO"} /\ Upcoming[1].epoch = w.item.epoch
        /\ Shrunk /\ w'.item = Upcoming[1] /\ UNCHANGED <<plugin, cb, shared.fault>>
    BY <1>12, PopNextEffect
  <2>2. KeptOrder(p)
    BY <1>t, <2>1 DEF OrderInv
  <2>3. ASSUME Live', cb'.retained[p] # 0
        PROVE  Live /\ cb.retained[p] # 0 /\ cb'.retained = cb.retained
    BY <1>l, <2>1, <2>3 DEF Healthy
  <2>4. ASSUME Live', cb'.retained[p] # 0, NEW i \in 1 .. Len(Upcoming')
        PROVE  Upcoming'[i].edits[p] <= cb'.retained[p]
    <3>1. PICK j \in 1 .. Len(Upcoming) : Upcoming'[i] = Upcoming[j]
      BY <2>1 DEF Shrunk
    <3> QED
      BY <2>2, <2>3, <2>4, <3>1 DEF KeptOrder
  <2>5. 1 \in 1 .. Len(Upcoming)
    BY <2>1 DEF Shrunk
  <2> QED
    BY <2>1, <2>2, <2>3, <2>4, <2>5 DEF KeptOrder
<1> QED
  BY <1>1, <1>2, <1>3, <1>4, <1>5, <1>6, <1>7, <1>8, <1>9, <1>10, <1>11, <1>12,
     ValueMoves, WorkerMoves, LineMoves, CallbackMoves, WordMoves

\* Stamps never decrease from the plug-in to the callback.
LEMMA OrderKept ==
    ASSUME IInv, Next PROVE OrderInv'
  BY ItemOrderKept, LineOrderKept, KeptOrderKept, DoneOrderKept, OwnOrderKept DEF OrderInv

\* The newest stamp never goes back.
LEMMA StampsGrow ==
    ASSUME IInv, Next PROVE clock'.stamps \in Nat /\ clock.stamps <= clock'.stamps
<1>t. Typed
  BY DEF IInv
<1>f. /\ clock.stamps \in Nat /\ clock.stamps + 1 \in Nat
  BY <1>t, ClockFields
<1>1. CASE UNCHANGED <<clock.stamps, shared.fault>>
  BY <1>t, <1>1, <1>f DEF Healthy
<1>2. CASE Process
  BY <1>t, <1>f, <1>2, ProcessEffect DEF Healthy
<1>3. CASE RestoreRunning
  BY <1>t, <1>f, <1>3, RestoreRunningEffect DEF Healthy
<1>4. CASE RestoreStopped \/ Fault \/ Recover
  BY <1>t, <1>f, <1>4, RestoreStoppedEffect, FaultEffect, RecoverEffect DEF Healthy
<1> QED
  BY <1>1, <1>2, <1>3, <1>4, ClockMoves, WordMoves

\* The stamp of a call is not newer than the newest.
LEMMA CallStamps ==
    ASSUME IInv, Next PROVE (ctl.stamp <= clock.stamps /\ mbox.stamp <= clock.stamps)'
<1>t. Typed /\ StampInv
  BY DEF IInv
<1>f. /\ ctl.stamp \in Nat /\ mbox.stamp \in Nat /\ clock.stamps \in Nat
      /\ clock.stamps + 1 \in Nat
  BY <1>t, CallFields, MailFields, ClockFields
<1>c. clock'.stamps \in Nat /\ clock.stamps <= clock'.stamps
  BY StampsGrow
<1>1. CASE UNCHANGED <<ctl.stamp, mbox.stamp, shared.fault>>
  BY <1>t, <1>1, <1>c, <1>f DEF Healthy, StampInv
<1>2. CASE AnswerStarting
  BY <1>t, <1>f, <1>c, <1>2, AnswerStartingEffect, Initials DEF Healthy, StampInv
<1>3. CASE Save
  BY <1>t, <1>f, <1>c, <1>3, SaveEffect, Initials DEF Healthy, StampInv
<1>4. CASE AnswerOnly \/ Fault \/ Recover
  BY <1>t, <1>f, <1>c, <1>4, AnswerOnlyEffect, FaultEffect, RecoverEffect, Initials
     DEF Healthy, StampInv
<1>5. CASE RestoreRunning
  BY <1>t, <1>f, <1>c, <1>5, RestoreRunningEffect DEF Healthy, StampInv
<1>6. CASE RestoreStopped \/ Admit
  BY <1>t, <1>f, <1>c, <1>6, RestoreStoppedEffect, AdmitEffect DEF Healthy, StampInv
<1> QED
  BY <1>1, <1>2, <1>3, <1>4, <1>5, <1>6, CallMoves, MailMoves, WordMoves

\* No value of the plug-in, the worker or the line is newer than the newest stamp.
LEMMA ServedStamps ==
    ASSUME IInv, Next, NEW p \in Params PROVE (/\ plugin[p] <= clock.stamps /\ w.item.edits[p] <= clock.stamps
             /\ \A i \in 1 .. Len(Upcoming) : Upcoming[i].edits[p] <= clock.stamps)'
<1>t. Typed /\ StampInv
  BY DEF IInv
<1>f. /\ mbox.stamp \in Nat /\ clock.stamps \in Nat /\ clock.stamps + 1 \in Nat
  BY <1>t, MailFields, ClockFields
<1>v. /\ plugin[p] \in Nat /\ w.item.edits[p] \in Nat
      /\ \A i \in 1 .. Len(Upcoming) : Upcoming[i].edits[p] \in Nat
      /\ Len(Upcoming) \in Nat /\ NoEdits[p] = 0 /\ NoItem.edits[p] = 0
      /\ cb.edits[p] \in Nat /\ cb.retained[p] \in Nat /\ snap.bytes[p] \in Nat
  BY <1>t, ValuesAt
<1>c. clock'.stamps \in Nat /\ clock.stamps <= clock'.stamps
  BY StampsGrow
<1>s. /\ mbox.stamp <= clock.stamps /\ plugin[p] <= clock.stamps
      /\ w.item.edits[p] <= clock.stamps
      /\ \A i \in 1 .. Len(Upcoming) : Upcoming[i].edits[p] <= clock.stamps
      /\ cb.edits[p] <= clock.stamps /\ cb.retained[p] <= clock.stamps
      /\ snap.bytes[p] <= clock.stamps
  BY <1>t DEF StampInv, StampAt
<1>1. CASE UNCHANGED <<plugin, w.item, Upcoming, shared.fault>>
  BY <1>t, <1>1, <1>v, <1>c, <1>s, <1>f DEF Healthy
<1>2. CASE ComponentState
  BY <1>t, <1>f, <1>v, <1>c, <1>s, FieldsTyped, <1>2, ComponentStateEffect DEF Healthy
<1>3. CASE TakeBack
  BY <1>t, <1>f, <1>v, <1>c, <1>s, FieldsTyped, <1>3, TakeBackEffect DEF Healthy
<1>4. CASE PollStart \/ Transition \/ FinishStart
  BY <1>t, <1>f, <1>v, <1>c, <1>s, FieldsTyped, <1>4, PollStartEffect,
     TransitionEffect, FinishStartEffect DEF Healthy
<1>5. CASE Publish \/ Synced \/ PeerStep \/ Fault \/ Recover
  BY <1>t, <1>f, <1>v, <1>c, <1>s, FieldsTyped, <1>5, PublishEffect, SyncedEffect,
     PeerEffect, FaultEffect, RecoverEffect DEF Healthy
<1>6. CASE Sending
  <2>s. PICK edits \in Values, sync \in BOOLEAN, flush \in BOOLEAN :
           Sends(edits, sync, flush)
    BY <1>6, SendEffect
  <2>1. /\ Healthy /\ Grown("AUDIO", cb.epoch, cb.submitted + 1, edits, sync)
        /\ UNCHANGED <<plugin, w, shared.fault>>
    BY <2>s DEF Sends
  <2>2. edits[p] <= clock'.stamps /\ \A i \in 1 .. Len(Upcoming) : Upcoming[i].edits[p] <= clock'.stamps
    BY <1>t, <1>f, <1>v, <1>c, <1>s, FieldsTyped, <2>1, <2>s  DEF Sends
  <2>3. \A i \in 1 .. Len(Upcoming') : Upcoming'[i].edits[p] <= clock'.stamps
    BY <1>c, <2>1, <2>2, GrownValues
  <2> QED
    BY <1>t, <1>f, <1>v, <1>c, <1>s, FieldsTyped, <2>1, <2>3
<1>7. CASE TurnOn \/ AnswerStarting
  <2>1. /\ Healthy /\ Grown("START", cb.epoch + 1, 0, NoEdits, FALSE)
        /\ UNCHANGED <<plugin, w, shared.fault>>
    BY <1>7, TurnOnEffect, AnswerStartingEffect
  <2>2. NoEdits[p] <= clock'.stamps /\ \A i \in 1 .. Len(Upcoming) : Upcoming[i].edits[p] <= clock'.stamps
    BY <1>t, <1>f, <1>v, <1>c, <1>s, FieldsTyped, <2>1 
  <2>3. \A i \in 1 .. Len(Upcoming') : Upcoming'[i].edits[p] <= clock'.stamps
    BY <1>c, <2>1, <2>2, GrownValues
  <2> QED
    BY <1>t, <1>f, <1>v, <1>c, <1>s, FieldsTyped, <2>1, <2>3
<1>8. CASE TurnOff \/ RestoreRunning
  <2>1. /\ Healthy /\ Grown("STOP", cb.epoch, 0, NoEdits, FALSE)
        /\ UNCHANGED <<plugin, w, shared.fault>>
    BY <1>8, TurnOffEffect, RestoreRunningEffect
  <2>2. NoEdits[p] <= clock'.stamps /\ \A i \in 1 .. Len(Upcoming) : Upcoming[i].edits[p] <= clock'.stamps
    BY <1>t, <1>f, <1>v, <1>c, <1>s, FieldsTyped, <2>1 
  <2>3. \A i \in 1 .. Len(Upcoming') : Upcoming'[i].edits[p] <= clock'.stamps
    BY <1>c, <2>1, <2>2, GrownValues
  <2> QED
    BY <1>t, <1>f, <1>v, <1>c, <1>s, FieldsTyped, <2>1, <2>3
<1>9. CASE TakeNext \/ PopNext
  <2>1. /\ Healthy /\ Upcoming[1] \in Items /\ Shrunk /\ w'.item = Upcoming[1]
        /\ UNCHANGED <<plugin>>
    BY <1>9, TakeNextEffect, PopNextEffect
  <2>2. \A i \in 1 .. Len(Upcoming) : Upcoming[i].edits[p] <= clock'.stamps
    BY <1>t, <1>f, <1>v, <1>c, <1>s, FieldsTyped, <2>1
  <2>3. /\ \A i \in 1 .. Len(Upcoming') : Upcoming'[i].edits[p] <= clock'.stamps
        /\ Upcoming[1].edits[p] <= clock'.stamps
    BY <1>c, <2>1, <2>2, ShrunkValues
  <2> QED
    BY <1>t, <1>f, <1>v, <1>c, <1>s, FieldsTyped, <2>1, <2>3
<1> QED
  BY <1>1, <1>2, <1>3, <1>4, <1>5, <1>6, <1>7, <1>8, <1>9, ValueMoves, WorkerMoves,
     LineMoves, WordMoves

\* No value of the callback is newer than the newest stamp.
LEMMA BlockStamps ==
    ASSUME IInv, Next, NEW p \in Params PROVE (cb.retained[p] <= clock.stamps /\ cb.edits[p] <= clock.stamps
      /\ accepted[p] <= clock.stamps)'
<1>t. Typed /\ StampInv
  BY DEF IInv
<1>f. /\ mbox.stamp \in Nat /\ clock.stamps \in Nat /\ clock.stamps + 1 \in Nat
  BY <1>t, MailFields, ClockFields
<1>v. /\ cb.retained[p] \in Nat /\ cb.edits[p] \in Nat /\ accepted[p] \in Nat
      /\ NoEdits[p] = 0 /\ NoItem.edits[p] = 0 /\ snap.bytes[p] \in Nat
  BY <1>t, ValuesAt
<1>c. clock'.stamps \in Nat /\ clock.stamps <= clock'.stamps
  BY StampsGrow
<1>s. /\ mbox.stamp <= clock.stamps /\ cb.retained[p] <= clock.stamps
      /\ cb.edits[p] <= clock.stamps /\ accepted[p] <= clock.stamps
      /\ snap.bytes[p] <= clock.stamps
  BY <1>t DEF StampInv, StampAt
<1>1. CASE UNCHANGED <<cb.retained, cb.edits, accepted, shared.fault>>
  BY <1>t, <1>1, <1>v, <1>c, <1>s, <1>f DEF Healthy
<1>2. CASE Process
  BY <1>t, <1>f, <1>v, <1>c, <1>s, FieldsTyped, <1>2, ProcessEffect DEF Healthy
<1>3. CASE Retain \/ Drained
  BY <1>t, <1>f, <1>v, <1>c, <1>s, FieldsTyped, <1>3, RetainEffect, DrainedEffect DEF Healthy
<1>4. CASE AnswerStarting \/ AnswerOnly
  BY <1>t, <1>f, <1>v, <1>c, <1>s, FieldsTyped, <1>4, AnswerStartingEffect,
     AnswerOnlyEffect DEF Healthy
<1>5. CASE Fault \/ Recover
  BY <1>t, <1>f, <1>v, <1>c, <1>s, FieldsTyped, <1>5, FaultEffect, RecoverEffect DEF Healthy
<1>6. CASE Sending
  BY <1>t, <1>f, <1>v, <1>c, <1>s, FieldsTyped, <1>6, SendEffect DEF Healthy, Sends
<1> QED
  BY <1>1, <1>2, <1>3, <1>4, <1>5, <1>6, CallbackMoves, ValueMoves, WordMoves

\* No saved value is newer than the newest stamp.
LEMMA SavedStamps ==
    ASSUME IInv, Next, NEW p \in Params PROVE (/\ snap.bytes[p] <= clock.stamps /\ peer.capture.bytes[p] <= clock.stamps
             /\ mbox.bytes[p] <= clock.stamps /\ ctl.covers[p] <= clock.stamps)'
<1>t. Typed /\ StampInv
  BY DEF IInv
<1>f. /\ mbox.stamp \in Nat /\ clock.stamps \in Nat /\ clock.stamps + 1 \in Nat
  BY <1>t, MailFields, ClockFields
<1>v. /\ snap.bytes[p] \in Nat /\ peer.capture.bytes[p] \in Nat
      /\ mbox.bytes[p] \in Nat /\ ctl.covers[p] \in Nat
      /\ NoEdits[p] = 0 /\ NoItem.edits[p] = 0 /\ plugin[p] \in Nat
      /\ accepted[p] \in Nat
  BY <1>t, ValuesAt
<1>c. clock'.stamps \in Nat /\ clock.stamps <= clock'.stamps
  BY StampsGrow
<1>s. /\ mbox.stamp <= clock.stamps /\ snap.bytes[p] <= clock.stamps
      /\ peer.capture.bytes[p] <= clock.stamps /\ mbox.bytes[p] <= clock.stamps
      /\ ctl.covers[p] <= clock.stamps /\ plugin[p] <= clock.stamps
      /\ accepted[p] <= clock.stamps
  BY <1>t DEF StampInv, StampAt
<1>1. CASE UNCHANGED <<snap.bytes, peer.capture.bytes, mbox.bytes, ctl.covers,
                      shared.fault>>
  BY <1>t, <1>1, <1>v, <1>c, <1>s, <1>f DEF Healthy
<1>2. CASE AnswerStarting
  BY <1>t, <1>f, <1>v, <1>c, <1>s, FieldsTyped, <1>2, AnswerStartingEffect DEF Healthy
<1>3. CASE RestoreRunning
  BY <1>t, <1>f, <1>v, <1>c, <1>s, FieldsTyped, <1>3, RestoreRunningEffect DEF Healthy
<1>4. CASE Save
  BY <1>t, <1>f, <1>v, <1>c, <1>s, FieldsTyped, <1>4, SaveEffect DEF Healthy
<1>5. CASE RestoreStopped \/ Admit \/ AnswerOnly
  BY <1>t, <1>f, <1>v, <1>c, <1>s, FieldsTyped, <1>5, RestoreStoppedEffect,
     AdmitEffect, AnswerOnlyEffect DEF Healthy
<1>6. CASE EndCapture \/ ComponentState \/ CaptureInAudio \/ PeerStep \/ Fault
          \/ Recover
  BY <1>t, <1>f, <1>v, <1>c, <1>s, FieldsTyped, <1>6, EndCaptureEffect,
     ComponentStateEffect, CaptureInAudioEffect, PeerEffect, FaultEffect,
     RecoverEffect DEF Healthy
<1> QED
  BY <1>1, <1>2, <1>3, <1>4, <1>5, <1>6, ValueMoves, HostMoves, MailMoves, CallMoves,
     WordMoves

\* No value is newer than the newest stamp.
LEMMA StampKept ==
    ASSUME IInv, Next PROVE StampInv'
  BY CallStamps, ServedStamps, BlockStamps, SavedStamps DEF StampInv, StampAt

\* The count of requests never goes back.
LEMMA RequestsGrow ==
    ASSUME IInv, Next PROVE clock'.requests \in Nat /\ clock.requests <= clock'.requests
<1>t. Typed
  BY DEF IInv
<1>f. /\ clock.requests \in Nat /\ clock.requests + 1 \in Nat
  BY <1>t, ClockFields
<1>1. CASE UNCHANGED <<clock.requests, shared.fault>>
  BY <1>t, <1>1, <1>f DEF Healthy
<1>2. CASE Sending
  BY <1>t, <1>f, <1>2, SendEffect DEF Healthy, Sends
<1>3. CASE TurnOn
  BY <1>t, <1>f, <1>3, TurnOnEffect DEF Healthy
<1>4. CASE AnswerStarting
  BY <1>t, <1>f, <1>4, AnswerStartingEffect DEF Healthy
<1>5. CASE TurnOff
  BY <1>t, <1>f, <1>5, TurnOffEffect DEF Healthy
<1>6. CASE RestoreRunning
  BY <1>t, <1>f, <1>6, RestoreRunningEffect DEF Healthy
<1>7. CASE Fault \/ Recover
  BY <1>t, <1>f, <1>7, FaultEffect, RecoverEffect DEF Healthy
<1> QED
  BY <1>1, <1>2, <1>3, <1>4, <1>5, <1>6, <1>7, ClockMoves, WordMoves

\* The counts of calls stay in their bounds.
LEMMA ClockBounded ==
    ASSUME IInv, Next PROVE ClockBounds'
<1>t. Typed /\ BoundsInv /\ RoomInv
  BY DEF IInv
<1>f. /\ clock.stamps \in Nat /\ clock.stamps + 1 \in Nat /\ clock.starts \in Nat
      /\ clock.starts + 1 \in Nat /\ clock.starts + 0 = clock.starts
      /\ clock.requests \in Nat /\ clock.requests + 1 \in Nat
  BY <1>t, ClockFields
<1>m. /\ MaxPublished \in Nat /\ MaxEpochs \in Nat /\ MaxStamps \in Nat
      /\ Room => clock.requests < MaxPublished
  BY <1>t, RoomMeans
<1>1. CASE UNCHANGED <<clock.stamps, clock.starts, clock.requests, shared.fault>>
  BY <1>t, <1>1, <1>m DEF Healthy, BoundsInv, ClockBounds
<1>2. CASE Process \/ RestoreStopped \/ Fault \/ Recover
  BY <1>t, <1>f, <1>m, <1>2, ProcessEffect, RestoreStoppedEffect, FaultEffect,
     RecoverEffect DEF Healthy, BoundsInv, ClockBounds
<1>3. CASE Sending
  <2>s. PICK edits \in Values, sync \in BOOLEAN, flush \in BOOLEAN :
           Sends(edits, sync, flush)
    BY <1>3, SendEffect
  <2>1. /\ Healthy
        /\ flush => /\ cb.pc = "replay" /\ ~Nothing /\ Edited(edits) # {}
                    /\ Edited(edits) \subseteq Edited(cb.retained)
                    /\ \A p \in Params : edits[p] \in {0, cb.retained[p]}
                    /\ sync <=> Edited(cb.retained) = Edited(edits)
        /\ ~flush => cb.pc = "push" /\ edits = cb.edits /\ ~sync
        /\ clock'.requests = clock.requests + 1
        /\ UNCHANGED <<clock.stamps, clock.starts, shared.fault>>
    BY <2>s DEF Sends
  <2> QED
    BY <1>t, <1>f, <1>m, <2>1 DEF Healthy, BoundsInv, ClockBounds, RoomInv, Replaying
<1>4. CASE TurnOn
  <2>1. /\ Healthy /\ cb.pc = "idle" /\ clock.starts < MaxEpochs
        /\ clock.requests < MaxPublished /\ clock'.starts = clock.starts + 1
        /\ clock'.requests = clock.requests + 1
        /\ UNCHANGED <<clock.stamps, shared.fault>>
    BY <1>4, TurnOnEffect
  <2> QED
    BY <1>t, <1>f, <1>m, <2>1 DEF Healthy, BoundsInv, ClockBounds
<1>5. CASE AnswerStarting
  <2>1. /\ Healthy /\ cb.pc = "idle" /\ clock.starts < MaxEpochs
        /\ clock.requests < MaxPublished /\ clock'.starts = clock.starts + 1
        /\ clock'.requests = clock.requests + 1
        /\ UNCHANGED <<clock.stamps, shared.fault>>
    BY <1>5, AnswerStartingEffect
  <2> QED
    BY <1>t, <1>f, <1>m, <2>1 DEF Healthy, BoundsInv, ClockBounds
<1>6. CASE TurnOff
  <2>1. /\ Healthy /\ cb.pc = "idle" /\ clock.requests < MaxPublished
        /\ clock'.requests = clock.requests + 1
        /\ UNCHANGED <<clock.stamps, clock.starts, shared.fault>>
    BY <1>6, TurnOffEffect
  <2> QED
    BY <1>t, <1>f, <1>m, <2>1 DEF Healthy, BoundsInv, ClockBounds
<1>7. CASE RestoreRunning
  <2>1. /\ Healthy /\ cb.pc = "idle" /\ clock.requests < MaxPublished
        /\ clock.stamps < MaxStamps /\ clock'.stamps = clock.stamps + 1
        /\ clock'.requests = clock.requests + 1
        /\ UNCHANGED <<clock.starts, shared.fault>>
    BY <1>7, RestoreRunningEffect
  <2> QED
    BY <1>t, <1>f, <1>m, <2>1 DEF Healthy, BoundsInv, ClockBounds
<1> QED
  BY <1>1, <1>2, <1>3, <1>4, <1>5, <1>6, <1>7, ClockMoves, WordMoves

\* The callback's numbers stay in their bounds.
LEMMA CallbackBounded ==
    ASSUME IInv, Next PROVE CallbackBounds'
<1>t. Typed /\ BoundsInv /\ TicketInv
  BY DEF IInv
<1>f. /\ cb.epoch \in Nat /\ cb.epoch + 1 \in Nat /\ cb.sync \in Nat
      /\ cb.submitted \in Nat /\ cb.submitted + 1 \in Nat /\ cb.completed \in Nat
      /\ cb.completed + 1 \in Nat /\ clock.starts \in Nat /\ clock.starts + 1 \in Nat
      /\ clock.starts + 0 = clock.starts /\ clock.requests \in Nat
      /\ clock.requests + 1 \in Nat
  BY <1>t, CallbackFields, ClockFields
<1>d. Drain => cb.running /\ results # <<>> /\ Healthy /\ Len(results) > 0
  BY DrainEffect
<1>1. CASE UNCHANGED <<cb.epoch, cb.submitted, cb.sync, cb.completed, clock.starts,
                      clock.requests, shared.fault>>
  BY <1>t, <1>1 DEF Healthy, BoundsInv, CallbackBounds
<1>2. CASE Process \/ Flushed
  BY <1>t, <1>f, <1>2, ProcessEffect, FlushedEffect DEF Healthy, BoundsInv, CallbackBounds
<1>3. CASE Fault \/ Recover
  BY <1>t, <1>f, <1>3, FaultEffect, RecoverEffect DEF Healthy, BoundsInv, CallbackBounds
<1>4. CASE Drain
  <2>1. /\ Healthy
        /\ cb'.sync = IF cb.sync # 0 /\ cb.sync <= cb.completed + 1 THEN 0 ELSE cb.sync
        /\ cb'.completed = cb.completed + 1
        /\ UNCHANGED <<cb.epoch, cb.submitted, clock, shared.fault>>
    BY <1>4, DrainEffect
  <2>2. cb.submitted = cb.completed + Len(results) + Len(Upcoming) + InHands
    BY <1>t, <1>d, <1>4 DEF TicketInv, CountTickets
  <2>3. Len(results) \in Nat /\ Len(Upcoming) \in Nat /\ InHands \in Nat /\ Len(results) > 0
    BY <1>t, <1>d, <1>4, ResultFields, LineFields DEF InHands
  <2>4. cb.completed + 1 <= cb.submitted
    BY <1>f, <2>2, <2>3
  <2>5. CallbackBounds
    BY <1>t DEF BoundsInv
  <2> QED
    BY <1>f, <2>1, <2>4, <2>5 DEF CallbackBounds
<1>5. CASE Sending
  <2>s. PICK edits \in Values, sync \in BOOLEAN, flush \in BOOLEAN :
           Sends(edits, sync, flush)
    BY <1>5, SendEffect
  <2>1. /\ Healthy /\ cb.epoch > 0
        /\ Grown("AUDIO", cb.epoch, cb.submitted + 1, edits, sync)
        /\ cb'.submitted = cb.submitted + 1 /\ clock'.requests = clock.requests + 1
        /\ UNCHANGED <<cb.epoch, cb.sync, cb.completed, clock.starts, shared.fault>>
    BY <2>s DEF Sends
  <2> QED
    BY <1>t, <1>f, <2>1 DEF Healthy, BoundsInv, CallbackBounds
<1>6. CASE TurnOn
  <2>1. /\ Healthy /\ clock.starts < MaxEpochs /\ clock.requests < MaxPublished
        /\ Grown("START", cb.epoch + 1, 0, NoEdits, FALSE) /\ cb'.epoch = cb.epoch + 1
        /\ cb'.sync = 0 /\ cb'.submitted = 0 /\ cb'.completed = 0
        /\ clock'.starts = clock.starts + 1 /\ clock'.requests = clock.requests + 1
        /\ UNCHANGED <<shared.fault>>
    BY <1>6, TurnOnEffect
  <2> QED
    BY <1>t, <1>f, <2>1 DEF Healthy, BoundsInv, CallbackBounds
<1>7. CASE AnswerStarting
  <2>1. /\ Healthy /\ clock.starts < MaxEpochs /\ clock.requests < MaxPublished
        /\ Grown("START", cb.epoch + 1, 0, NoEdits, FALSE) /\ cb'.epoch = cb.epoch + 1
        /\ cb'.sync = 0 /\ cb'.submitted = 0 /\ cb'.completed = 0
        /\ clock'.starts = clock.starts + 1 /\ clock'.requests = clock.requests + 1
        /\ UNCHANGED <<shared.fault>>
    BY <1>7, AnswerStartingEffect
  <2> QED
    BY <1>t, <1>f, <2>1 DEF Healthy, BoundsInv, CallbackBounds
<1>8. CASE TurnOff
  <2>1. /\ Healthy /\ clock.requests < MaxPublished
        /\ Grown("STOP", cb.epoch, 0, NoEdits, FALSE)
        /\ clock'.requests = clock.requests + 1
        /\ UNCHANGED <<cb.epoch, cb.submitted, cb.sync, cb.completed, clock.starts,
                       shared.fault>>
    BY <1>8, TurnOffEffect
  <2> QED
    BY <1>t, <1>f, <2>1 DEF Healthy, BoundsInv, CallbackBounds
<1>9. CASE RestoreRunning
  <2>1. /\ Healthy /\ clock.requests < MaxPublished
        /\ Grown("STOP", cb.epoch, 0, NoEdits, FALSE)
        /\ clock'.requests = clock.requests + 1
        /\ UNCHANGED <<cb.epoch, cb.submitted, cb.sync, cb.completed, clock.starts,
                       shared.fault>>
    BY <1>9, RestoreRunningEffect
  <2> QED
    BY <1>t, <1>f, <2>1 DEF Healthy, BoundsInv, CallbackBounds
<1> QED
  BY <1>1, <1>2, <1>3, <1>4, <1>5, <1>6, <1>7, <1>8, <1>9, CallbackMoves, ClockMoves,
     WordMoves

\* The line holds no more than was published.
LEMMA LineCounted ==
    ASSUME IInv, Next PROVE (published <= clock.requests /\ Len(Upcoming) <= published)'
<1>t. Typed /\ BoundsInv
  BY DEF IInv
<1>f. /\ published + 1 \in Nat /\ clock.requests \in Nat /\ clock.requests + 1 \in Nat
      /\ published \in Nat /\ Len(Upcoming) \in Nat
      /\ \A i \in 1 .. Len(Upcoming) : Upcoming[i].ticket \in Nat
  BY <1>t, QueueFields, ClockFields, LineFields
<1>s. published <= clock.requests /\ Len(Upcoming) <= published
  BY <1>t DEF BoundsInv, LineBounds
<1>1. CASE UNCHANGED <<Upcoming, published, clock.requests, shared.fault>>
  BY <1>t, <1>1, <1>s, <1>f DEF Healthy
<1>2. CASE Fault \/ Recover
  BY <1>t, <1>f, <1>s, <1>2, FaultEffect, RecoverEffect DEF Healthy
<1>3. CASE Sending
  <2>s. PICK edits \in Values, sync \in BOOLEAN, flush \in BOOLEAN :
           Sends(edits, sync, flush)
    BY <1>3, SendEffect
  <2>1. /\ Healthy /\ Grown("AUDIO", cb.epoch, cb.submitted + 1, edits, sync)
        /\ published' = published + 1 /\ clock'.requests = clock.requests + 1
        /\ UNCHANGED <<shared.fault>>
    BY <2>s DEF Sends
  <2>2. Len(Upcoming') = Len(Upcoming) + 1
    BY <2>1 DEF Grown
  <2>3. published' = published + 1 /\ clock'.requests = clock.requests + 1
    BY <2>1
  <2> QED
    BY <1>f, <1>s, <2>2, <2>3
<1>4. CASE TurnOn \/ AnswerStarting
  <2>1. /\ Healthy /\ clock.requests < MaxPublished
        /\ Grown("START", cb.epoch + 1, 0, NoEdits, FALSE) /\ published' = published + 1
        /\ clock'.requests = clock.requests + 1 /\ UNCHANGED <<shared.fault>>
    BY <1>4, TurnOnEffect, AnswerStartingEffect
  <2>2. Len(Upcoming') = Len(Upcoming) + 1
    BY <2>1 DEF Grown
  <2>3. published' = published + 1 /\ clock'.requests = clock.requests + 1
    BY <2>1
  <2> QED
    BY <1>f, <1>s, <2>2, <2>3
<1>5. CASE TurnOff \/ RestoreRunning
  <2>1. /\ Healthy /\ clock.requests < MaxPublished
        /\ Grown("STOP", cb.epoch, 0, NoEdits, FALSE) /\ published' = published + 1
        /\ clock'.requests = clock.requests + 1 /\ UNCHANGED <<shared.fault>>
    BY <1>5, TurnOffEffect, RestoreRunningEffect
  <2>2. Len(Upcoming') = Len(Upcoming) + 1
    BY <2>1 DEF Grown
  <2>3. published' = published + 1 /\ clock'.requests = clock.requests + 1
    BY <2>1
  <2> QED
    BY <1>f, <1>s, <2>2, <2>3
<1>6. CASE TakeNext \/ PopNext
  <2>1. /\ Healthy /\ Upcoming[1] \in Items /\ Shrunk /\ UNCHANGED <<published, clock>>
    BY <1>6, TakeNextEffect, PopNextEffect
  <2>2. Len(Upcoming') = Len(Upcoming) - 1 /\ published' = published
        /\ clock'.requests = clock.requests
    BY <2>1 DEF Shrunk
  <2> QED
    BY <1>f, <1>s, <2>2
<1> QED
  BY <1>1, <1>2, <1>3, <1>4, <1>5, <1>6, LineMoves, ClockMoves, WordMoves

\* No ticket is beyond the requests counted.
LEMMA TicketsBounded ==
    ASSUME IInv, Next
    PROVE  (w.item.ticket <= clock.requests /\ \A i \in 1 .. Len(Upcoming) : Upcoming[i].ticket <= clock.requests)'
<1>t. Typed /\ BoundsInv
  BY DEF IInv
<1>f. /\ cb.epoch \in Nat /\ cb.epoch + 1 \in Nat /\ cb.submitted \in Nat
      /\ cb.submitted + 1 \in Nat /\ w.item \in Items
      /\ w.item.kind \in {"none", "START", "STOP", "AUDIO"} /\ w.item.epoch \in Nat
      /\ w.item.ticket \in Nat /\ w.item.sync \in BOOLEAN /\ w.item.edits \in Values
      /\ clock.requests \in Nat /\ clock.requests + 1 \in Nat /\ Len(Upcoming) \in Nat
      /\ \A i \in 1 .. Len(Upcoming) : Upcoming[i].ticket \in Nat
  BY <1>t, CallbackFields, WorkerFields, ClockFields, LineFields
<1>s. /\ w.item.ticket <= clock.requests /\ cb.submitted <= clock.requests
      /\ \A i \in 1 .. Len(Upcoming) : Upcoming[i].ticket <= clock.requests
  BY <1>t DEF BoundsInv, LineBounds, CallbackBounds
<1>c. clock'.requests \in Nat /\ clock.requests <= clock'.requests
  BY RequestsGrow
<1>z. NoItem.ticket = 0
  BY FieldsTyped
<1>1. CASE UNCHANGED <<w.item, Upcoming, shared.fault>>
  BY <1>t, <1>1, <1>s, <1>c, <1>f, <1>z DEF Healthy
<1>2. CASE TakeBack
  BY <1>t, <1>f, <1>s, <1>c, <1>z, <1>2, TakeBackEffect DEF Healthy
<1>3. CASE Transition \/ FinishStart
  BY <1>t, <1>f, <1>s, <1>c, <1>z, <1>3, TransitionEffect, FinishStartEffect DEF Healthy
<1>4. CASE Publish \/ Synced \/ Fault \/ Recover
  BY <1>t, <1>f, <1>s, <1>c, <1>z, <1>4, PublishEffect, SyncedEffect, FaultEffect,
     RecoverEffect DEF Healthy
<1>5. CASE Sending
  <2>s. PICK edits \in Values, sync \in BOOLEAN, flush \in BOOLEAN :
           Sends(edits, sync, flush)
    BY <1>5, SendEffect
  <2>1. /\ Healthy /\ Grown("AUDIO", cb.epoch, cb.submitted + 1, edits, sync)
        /\ clock'.requests = clock.requests + 1 /\ UNCHANGED <<w, shared.fault>>
    BY <2>s DEF Sends
  <2>2. cb.submitted + 1 <= clock'.requests /\ \A i \in 1 .. Len(Upcoming) : Upcoming[i].ticket <= clock'.requests
    <3>1. clock'.requests = clock.requests + 1
      BY <2>1
    <3> QED
      BY <1>f, <1>s, <1>c, <3>1
  <2>3. \A i \in 1 .. Len(Upcoming') : Upcoming'[i].ticket <= clock'.requests
    BY <1>c, <2>1, <2>2, GrownTickets
  <2> QED
    BY <1>t, <1>f, <1>s, <1>c, <1>z, <2>1, <2>3
<1>6. CASE TurnOn \/ AnswerStarting
  <2>1. /\ Healthy /\ Grown("START", cb.epoch + 1, 0, NoEdits, FALSE)
        /\ UNCHANGED <<w, shared.fault>>
    BY <1>6, TurnOnEffect, AnswerStartingEffect
  <2>2. 0 <= clock'.requests /\ \A i \in 1 .. Len(Upcoming) : Upcoming[i].ticket <= clock'.requests
    BY <1>t, <1>f, <1>s, <1>c, <1>z, <2>1
  <2>3. \A i \in 1 .. Len(Upcoming') : Upcoming'[i].ticket <= clock'.requests
    BY <1>c, <2>1, <2>2, GrownTickets
  <2> QED
    BY <1>t, <1>f, <1>s, <1>c, <1>z, <2>1, <2>3
<1>7. CASE TurnOff \/ RestoreRunning
  <2>1. /\ Healthy /\ Grown("STOP", cb.epoch, 0, NoEdits, FALSE)
        /\ UNCHANGED <<w, shared.fault>>
    BY <1>7, TurnOffEffect, RestoreRunningEffect
  <2>2. 0 <= clock'.requests /\ \A i \in 1 .. Len(Upcoming) : Upcoming[i].ticket <= clock'.requests
    BY <1>t, <1>f, <1>s, <1>c, <1>z, <2>1
  <2>3. \A i \in 1 .. Len(Upcoming') : Upcoming'[i].ticket <= clock'.requests
    BY <1>c, <2>1, <2>2, GrownTickets
  <2> QED
    BY <1>t, <1>f, <1>s, <1>c, <1>z, <2>1, <2>3
<1>8. CASE TakeNext \/ PopNext
  <2>1. /\ Healthy /\ Upcoming[1] \in Items /\ Shrunk /\ w'.item = Upcoming[1]
    BY <1>8, TakeNextEffect, PopNextEffect
  <2>2. \A i \in 1 .. Len(Upcoming) : Upcoming[i].ticket <= clock'.requests
    BY <1>t, <1>f, <1>s, <1>c, <1>z, <2>1
  <2>3. /\ \A i \in 1 .. Len(Upcoming') : Upcoming'[i].ticket <= clock'.requests
        /\ Upcoming[1].ticket <= clock'.requests
    BY <1>c, <2>1, <2>2, ShrunkTickets
  <2> QED
    BY <1>t, <1>f, <1>s, <1>c, <1>z, <2>1, <2>3
<1>9. CASE PollStart
  <2>1. /\ Healthy
        /\ w'.item = IF peer.start = "acked" THEN NoItem ELSE w.item
        /\ UNCHANGED <<Upcoming, shared.fault>>
    BY <1>9, PollStartEffect
  <2> QED
    BY <1>t, <1>f, <1>s, <1>c, <1>z, <2>1 DEF Healthy
<1> QED
  BY <1>1, <1>2, <1>3, <1>4, <1>5, <1>6, <1>7, <1>8, <1>9, WorkerMoves, LineMoves,
     WordMoves

\* No epoch is beyond the callback's.
LEMMA EpochsBounded ==
    ASSUME IInv, Next PROVE (shared.pending <= cb.epoch /\ shared.wanted <= cb.epoch /\ shared.ready <= cb.epoch
     /\ session.epoch <= cb.epoch /\ w.item.epoch <= cb.epoch)'
<1>t. Typed /\ BoundsInv
  BY DEF IInv
<1>f. /\ cb.epoch \in Nat /\ cb.epoch + 1 \in Nat /\ w.item.epoch \in Nat
      /\ shared.pending \in Nat /\ shared.ready \in Nat /\ shared.wanted \in Nat
      /\ session.epoch \in Nat
  BY <1>t, CallbackFields, WorkerFields, SharedFields, SessionFields
<1>s. /\ shared.pending <= cb.epoch /\ shared.wanted <= cb.epoch
      /\ shared.ready <= cb.epoch /\ session.epoch <= cb.epoch /\ w.item.epoch <= cb.epoch
  BY <1>t DEF BoundsInv, WordBounds
<1>1. CASE UNCHANGED <<w.item.epoch, w.item, shared.pending, shared.wanted, shared.ready,
                      session.epoch, cb.epoch, shared.fault>>
  BY <1>t, <1>1, <1>s DEF Healthy
<1>2. CASE Process \/ Retain \/ Ready \/ Flushed \/ Drain
  BY <1>t, <1>f, <1>s, FieldsTyped, <1>2, ProcessEffect, RetainEffect, ReadyEffect,
     FlushedEffect, DrainEffect DEF Healthy
<1>3. CASE TurnOn
  BY <1>t, <1>f, <1>s, FieldsTyped, <1>3, TurnOnEffect DEF Healthy
<1>4. CASE AnswerStarting
  BY <1>t, <1>f, <1>s, FieldsTyped, <1>4, AnswerStartingEffect DEF Healthy
<1>5. CASE TurnOff
  BY <1>t, <1>f, <1>s, FieldsTyped, <1>5, TurnOffEffect DEF Healthy
<1>6. CASE RestoreRunning
  BY <1>t, <1>f, <1>s, FieldsTyped, <1>6, RestoreRunningEffect DEF Healthy
<1>7. CASE EndCapture
  BY <1>t, <1>f, <1>s, FieldsTyped, <1>7, EndCaptureEffect DEF Healthy
<1>8. CASE ComponentState \/ CaptureInAudio \/ TakeBack \/ PopBack \/ TakeNothing
  BY <1>t, <1>f, <1>s, FieldsTyped, <1>8, ComponentStateEffect, CaptureInAudioEffect,
     TakeBackEffect, PopBackEffect, TakeNothingEffect DEF Healthy
<1>9. CASE PendingStart \/ PendingEmpty
  BY <1>t, <1>f, <1>s, FieldsTyped, <1>9, PendingStartEffect, PendingEmptyEffect DEF Healthy
<1>10. CASE PollStart \/ PendingWait \/ Transition
  BY <1>t, <1>f, <1>s, FieldsTyped, <1>10, PollStartEffect, PendingWaitEffect,
     TransitionEffect DEF Healthy
<1>11. CASE FinishStart \/ StartedInAudio \/ Publish \/ Synced \/ Fault \/ Recover
  BY <1>t, <1>f, <1>s, FieldsTyped, <1>11, FinishStartEffect, StartedInAudioEffect,
     PublishEffect, SyncedEffect, FaultEffect, RecoverEffect DEF Healthy
<1>12. CASE TakeNext
  <2>1. /\ Healthy /\ w'.item = Upcoming[1] /\ Shrunk
        /\ UNCHANGED <<shared, session, cb>>
    BY <1>12, TakeNextEffect
  <2>2. Upcoming[1].epoch <= cb.epoch
    BY <2>1, LineMembers DEF Shrunk
  <2> QED
    BY <1>t, <1>f, <1>s, FieldsTyped, <2>1, <2>2
<1>13. CASE PopNext
  <2>1. /\ Healthy /\ Upcoming[1].epoch = w.item.epoch /\ w'.item = Upcoming[1]
        /\ Shrunk
        /\ UNCHANGED <<shared.pending, shared.wanted, shared.ready, session, cb,
                       shared.fault>>
    BY <1>13, PopNextEffect
  <2>2. Upcoming[1].epoch <= cb.epoch
    BY <2>1, LineMembers DEF Shrunk
  <2> QED
    BY <1>t, <1>f, <1>s, FieldsTyped, <2>1, <2>2
<1> QED
  BY <1>1, <1>2, <1>3, <1>4, <1>5, <1>6, <1>7, <1>8, <1>9, <1>10, <1>11, <1>12, <1>13,
     WorkerMoves, WordMoves, HostMoves, CallbackMoves

\* The last edit is published.
LEMMA EditsBounded ==
    ASSUME IInv, Next PROVE (shared.lastEdit <= published)'
<1>t. Typed /\ BoundsInv
  BY DEF IInv
<1>f. /\ published + 1 \in Nat /\ shared.lastEdit \in Nat /\ published \in Nat
  BY <1>t, QueueFields, SharedFields
<1>s. shared.lastEdit <= published
  BY <1>t DEF BoundsInv, WordBounds
<1>1. CASE UNCHANGED <<shared.lastEdit, published, shared.fault>>
  BY <1>t, <1>1, <1>s DEF Healthy
<1>2. CASE Sending
  BY <1>t, <1>f, <1>s, <1>2, SendEffect DEF Healthy, Sends
<1>3. CASE TurnOn
  BY <1>t, <1>f, <1>s, <1>3, TurnOnEffect DEF Healthy
<1>4. CASE AnswerStarting
  BY <1>t, <1>f, <1>s, <1>4, AnswerStartingEffect DEF Healthy
<1>5. CASE TurnOff
  BY <1>t, <1>f, <1>s, <1>5, TurnOffEffect DEF Healthy
<1>6. CASE RestoreRunning
  BY <1>t, <1>f, <1>s, <1>6, RestoreRunningEffect DEF Healthy
<1>7. CASE Fault \/ Recover
  BY <1>t, <1>f, <1>s, <1>7, FaultEffect, RecoverEffect DEF Healthy
<1> QED
  BY <1>1, <1>2, <1>3, <1>4, <1>5, <1>6, <1>7, WordMoves, LineMoves

\* A restore raises the revision once for its stamp.
LEMMA RevisionBounded ==
    ASSUME IInv, Next PROVE RevisionBounds'
<1>t. Typed /\ BoundsInv
  BY DEF IInv
<1>f. /\ shared.revision \in Nat /\ shared.revision + 1 \in Nat
      /\ clock.stamps \in Nat /\ clock.stamps + 1 \in Nat
  BY <1>t, SharedFields, ClockFields
<1>1. CASE UNCHANGED <<shared.revision, clock.stamps, ctl.pc, ctl.op, shared.fault>>
  BY <1>t, <1>1 DEF Healthy, BoundsInv, RevisionBounds
<1>2. CASE Process
  BY <1>t, <1>f, <1>2, ProcessEffect DEF Healthy, BoundsInv, RevisionBounds
<1>3. CASE AnswerStarting
  BY <1>t, <1>f, <1>3, AnswerStartingEffect DEF Healthy, BoundsInv, RevisionBounds
<1>4. CASE RestoreRunning
  BY <1>t, <1>f, <1>4, RestoreRunningEffect DEF Healthy, BoundsInv, RevisionBounds
<1>5. CASE Save
  BY <1>t, <1>f, <1>5, SaveEffect DEF Healthy, BoundsInv, RevisionBounds
<1>6. CASE RestoreStopped \/ Admit \/ AnswerOnly \/ Fault \/ Recover
  BY <1>t, <1>f, <1>6, RestoreStoppedEffect, AdmitEffect, AnswerOnlyEffect,
     FaultEffect, RecoverEffect DEF Healthy, BoundsInv, RevisionBounds
<1> QED
  BY <1>1, <1>2, <1>3, <1>4, <1>5, <1>6, WordMoves, ClockMoves, CallMoves

\* The counts stay in their bounds.
LEMMA BoundsKept ==
    ASSUME IInv, Next PROVE BoundsInv'
  BY ClockBounded, CallbackBounded, LineCounted, TicketsBounded, EpochsBounded, EditsBounded,
     RevisionBounded
  DEF BoundsInv, LineBounds, WordBounds

\* The last edit is at or after every edit in the line.
LEMMA LastAtKept ==
    ASSUME IInv, Next, NEW p \in Params PROVE (Healthy => LastAt(p))'
<1>t. Typed /\ LastInv /\ BoundsInv
  BY DEF IInv
<1>f. /\ published + 1 \in Nat /\ shared.lastEdit \in Nat /\ published \in Nat
  BY <1>t, QueueFields, SharedFields
<1>v. /\ w.item.edits[p] \in Nat
      /\ \A i \in 1 .. Len(Upcoming) : Upcoming[i].edits[p] \in Nat
      /\ Len(Upcoming) \in Nat /\ NoEdits[p] = 0 /\ NoItem.edits[p] = 0
      /\ cb.edits[p] \in Nat
  BY <1>t, ValuesAt
<1>s. shared.lastEdit <= published
  BY <1>t DEF BoundsInv, WordBounds
<1>1. CASE UNCHANGED <<w.item, Upcoming, published, shared.lastEdit, shared.fault>>
  BY <1>t, <1>1, <1>v, <1>f, <1>s DEF Healthy, LastInv, LastAt
<1>2. CASE TakeBack \/ PollStart \/ Transition \/ FinishStart
  BY <1>t, <1>f, <1>v, <1>s, <1>2, TakeBackEffect, PollStartEffect, TransitionEffect,
     FinishStartEffect DEF Healthy, LastInv, LastAt
<1>3. CASE Publish \/ Synced \/ Fault \/ Recover
  BY <1>t, <1>f, <1>v, <1>s, <1>3, PublishEffect, SyncedEffect, FaultEffect,
     RecoverEffect DEF Healthy, LastInv, LastAt
<1>4. CASE Sending
  <2>s. PICK edits \in Values, sync \in BOOLEAN, flush \in BOOLEAN :
           Sends(edits, sync, flush)
    BY <1>4, SendEffect
  <2>1. /\ Healthy /\ Grown("AUDIO", cb.epoch, cb.submitted + 1, edits, sync)
        /\ published' = published + 1
        /\ shared'.lastEdit = IF Edited(edits) = {} THEN shared.lastEdit
                              ELSE published + 1
        /\ UNCHANGED <<w, shared.fault>>
    BY <2>s DEF Sends
  <2>a. LastAt(p)
    BY <1>t, <2>1 DEF LastInv
  <2>b. /\ published' = published + 1 /\ Len(Upcoming') = Len(Upcoming) + 1
        /\ shared'.lastEdit \in Nat /\ shared.lastEdit <= shared'.lastEdit
        /\ edits[p] # 0 => shared'.lastEdit = published + 1
    BY <1>f, <1>s, <1>v, <2>1 DEF Grown, Edited
  <2>2. ASSUME NEW i \in 1 .. Len(Upcoming'), Upcoming'[i].edits[p] # 0
        PROVE  published' + i <= shared'.lastEdit + Len(Upcoming')
    <3>1. CASE i \in 1 .. Len(Upcoming)
      <4>1. Upcoming[i].edits[p] # 0
        BY <2>1, <2>2, <3>1 DEF Grown
      <4>2. published + i <= shared.lastEdit + Len(Upcoming)
        BY <2>a, <3>1, <4>1 DEF LastAt
      <4> QED
        BY <1>f, <1>v, <2>b, <3>1, <4>2
    <3>2. CASE i = Len(Upcoming) + 1
      <4>1. edits[p] # 0
        BY <2>1, <2>2, <3>2 DEF Grown
      <4> QED
        BY <1>f, <1>v, <2>b, <3>2, <4>1
    <3> QED
      BY <2>1, <3>1, <3>2 DEF Grown
  <2>3. w'.item.edits[p] # 0 => published' <= shared'.lastEdit + Len(Upcoming')
    <3>1. w'.item = w.item
      BY <2>1
    <3>2. w.item.edits[p] # 0 => published <= shared.lastEdit + Len(Upcoming)
      BY <2>a DEF LastAt
    <3> QED
      BY <1>f, <1>v, <2>b, <3>1, <3>2
  <2> QED
    BY <2>2, <2>3 DEF LastAt
<1>5. CASE TurnOn \/ AnswerStarting
  <2>1. /\ Healthy /\ Grown("START", cb.epoch + 1, 0, NoEdits, FALSE)
        /\ published' = published + 1 /\ UNCHANGED <<w, shared.lastEdit, shared.fault>>
    BY <1>5, TurnOnEffect, AnswerStartingEffect
  <2>a. LastAt(p)
    BY <1>t, <2>1 DEF LastInv
  <2>b. /\ published' = published + 1 /\ Len(Upcoming') = Len(Upcoming) + 1
        /\ shared'.lastEdit \in Nat /\ shared.lastEdit <= shared'.lastEdit
        /\ NoEdits[p] # 0 => shared'.lastEdit = published + 1
    BY <1>f, <1>s, <1>v, <2>1 DEF Grown
  <2>2. ASSUME NEW i \in 1 .. Len(Upcoming'), Upcoming'[i].edits[p] # 0
        PROVE  published' + i <= shared'.lastEdit + Len(Upcoming')
    <3>1. CASE i \in 1 .. Len(Upcoming)
      <4>1. Upcoming[i].edits[p] # 0
        BY <2>1, <2>2, <3>1 DEF Grown
      <4>2. published + i <= shared.lastEdit + Len(Upcoming)
        BY <2>a, <3>1, <4>1 DEF LastAt
      <4> QED
        BY <1>f, <1>v, <2>b, <3>1, <4>2
    <3>2. CASE i = Len(Upcoming) + 1
      <4>1. NoEdits[p] # 0
        BY <2>1, <2>2, <3>2 DEF Grown
      <4> QED
        BY <1>f, <1>v, <2>b, <3>2, <4>1
    <3> QED
      BY <2>1, <3>1, <3>2 DEF Grown
  <2>3. w'.item.edits[p] # 0 => published' <= shared'.lastEdit + Len(Upcoming')
    <3>1. w'.item = w.item
      BY <2>1
    <3>2. w.item.edits[p] # 0 => published <= shared.lastEdit + Len(Upcoming)
      BY <2>a DEF LastAt
    <3> QED
      BY <1>f, <1>v, <2>b, <3>1, <3>2
  <2> QED
    BY <2>2, <2>3 DEF LastAt
<1>6. CASE TurnOff \/ RestoreRunning
  <2>1. /\ Healthy /\ Grown("STOP", cb.epoch, 0, NoEdits, FALSE)
        /\ published' = published + 1 /\ UNCHANGED <<w, shared.lastEdit, shared.fault>>
    BY <1>6, TurnOffEffect, RestoreRunningEffect
  <2>a. LastAt(p)
    BY <1>t, <2>1 DEF LastInv
  <2>b. /\ published' = published + 1 /\ Len(Upcoming') = Len(Upcoming) + 1
        /\ shared'.lastEdit \in Nat /\ shared.lastEdit <= shared'.lastEdit
        /\ NoEdits[p] # 0 => shared'.lastEdit = published + 1
    BY <1>f, <1>s, <1>v, <2>1 DEF Grown
  <2>2. ASSUME NEW i \in 1 .. Len(Upcoming'), Upcoming'[i].edits[p] # 0
        PROVE  published' + i <= shared'.lastEdit + Len(Upcoming')
    <3>1. CASE i \in 1 .. Len(Upcoming)
      <4>1. Upcoming[i].edits[p] # 0
        BY <2>1, <2>2, <3>1 DEF Grown
      <4>2. published + i <= shared.lastEdit + Len(Upcoming)
        BY <2>a, <3>1, <4>1 DEF LastAt
      <4> QED
        BY <1>f, <1>v, <2>b, <3>1, <4>2
    <3>2. CASE i = Len(Upcoming) + 1
      <4>1. NoEdits[p] # 0
        BY <2>1, <2>2, <3>2 DEF Grown
      <4> QED
        BY <1>f, <1>v, <2>b, <3>2, <4>1
    <3> QED
      BY <2>1, <3>1, <3>2 DEF Grown
  <2>3. w'.item.edits[p] # 0 => published' <= shared'.lastEdit + Len(Upcoming')
    <3>1. w'.item = w.item
      BY <2>1
    <3>2. w.item.edits[p] # 0 => published <= shared.lastEdit + Len(Upcoming)
      BY <2>a DEF LastAt
    <3> QED
      BY <1>f, <1>v, <2>b, <3>1, <3>2
  <2> QED
    BY <2>2, <2>3 DEF LastAt
<1>7. CASE TakeNext
  <2>1. /\ Healthy /\ Upcoming[1] \in Items /\ Shrunk /\ w'.item = Upcoming[1]
        /\ Upcoming[1].kind = "AUDIO" => w'.pc = "audio"
        /\ UNCHANGED <<published, shared>>
    BY <1>7, TakeNextEffect
  <2>a. LastAt(p)
    BY <1>t, <2>1 DEF LastInv
  <2>2. ASSUME NEW i \in 1 .. Len(Upcoming'), Upcoming'[i].edits[p] # 0
        PROVE  published' + i <= shared'.lastEdit + Len(Upcoming')
    <3>1. i + 1 \in 1 .. Len(Upcoming) /\ Upcoming'[i] = Upcoming[i + 1]
          /\ Len(Upcoming') = Len(Upcoming) - 1
      BY <2>1 DEF Shrunk
    <3>2. published + (i + 1) <= shared.lastEdit + Len(Upcoming)
      BY <2>a, <2>2, <3>1 DEF LastAt
    <3>3. published' = published /\ shared'.lastEdit = shared.lastEdit
      BY <2>1
    <3> QED
      BY <1>f, <1>v, <3>1, <3>2, <3>3
  <2>3. w'.item.edits[p] # 0 => published' <= shared'.lastEdit + Len(Upcoming')
    <3>1. /\ 1 \in 1 .. Len(Upcoming) /\ w'.item = Upcoming[1]
          /\ Len(Upcoming') = Len(Upcoming) - 1
      BY <2>1 DEF Shrunk
    <3>2. w'.item.edits[p] # 0 => published + 1 <= shared.lastEdit + Len(Upcoming)
      BY <2>a, <3>1 DEF LastAt
    <3>3. published' = published /\ shared'.lastEdit = shared.lastEdit
      BY <2>1
    <3> QED
      BY <1>f, <1>v, <3>1, <3>2, <3>3
  <2> QED
    BY <2>2, <2>3 DEF LastAt
<1>8. CASE PopNext
  <2>1. /\ Healthy /\ Upcoming[1] \in Items /\ Upcoming[1].kind \in {"STOP", "AUDIO"}
        /\ Upcoming[1].epoch = w.item.epoch /\ Shrunk /\ w'.item = Upcoming[1]
        /\ UNCHANGED <<published, shared.lastEdit, shared.fault>>
    BY <1>8, PopNextEffect
  <2>a. LastAt(p)
    BY <1>t, <2>1 DEF LastInv
  <2>2. ASSUME NEW i \in 1 .. Len(Upcoming'), Upcoming'[i].edits[p] # 0
        PROVE  published' + i <= shared'.lastEdit + Len(Upcoming')
    <3>1. i + 1 \in 1 .. Len(Upcoming) /\ Upcoming'[i] = Upcoming[i + 1]
          /\ Len(Upcoming') = Len(Upcoming) - 1
      BY <2>1 DEF Shrunk
    <3>2. published + (i + 1) <= shared.lastEdit + Len(Upcoming)
      BY <2>a, <2>2, <3>1 DEF LastAt
    <3>3. published' = published /\ shared'.lastEdit = shared.lastEdit
      BY <2>1
    <3> QED
      BY <1>f, <1>v, <3>1, <3>2, <3>3
  <2>3. w'.item.edits[p] # 0 => published' <= shared'.lastEdit + Len(Upcoming')
    <3>1. /\ 1 \in 1 .. Len(Upcoming) /\ w'.item = Upcoming[1]
          /\ Len(Upcoming') = Len(Upcoming) - 1
      BY <2>1 DEF Shrunk
    <3>2. w'.item.edits[p] # 0 => published + 1 <= shared.lastEdit + Len(Upcoming)
      BY <2>a, <3>1 DEF LastAt
    <3>3. published' = published /\ shared'.lastEdit = shared.lastEdit
      BY <2>1
    <3> QED
      BY <1>f, <1>v, <3>1, <3>2, <3>3
  <2> QED
    BY <2>2, <2>3 DEF LastAt
<1> QED
  BY <1>1, <1>2, <1>3, <1>4, <1>5, <1>6, <1>7, <1>8, WorkerMoves, LineMoves, WordMoves

\* The last edit is at or after every edit in the line.
LEMMA LastKept ==
    ASSUME IInv, Next PROVE LastInv'
  BY LastAtKept
  DEF LastInv

\* A capture answers a save whose barrier is behind the worker.
LEMMA FencedKept ==
    ASSUME IInv, Next PROVE CaptureFenced'
<1>t. Typed /\ CaptureInv
  BY DEF IInv
<1>f. /\ w.pc \in Labels /\ published + 1 \in Nat /\ mbox.barrier \in Nat
      /\ published \in Nat /\ Len(Upcoming) \in Nat
      /\ \A i \in 1 .. Len(Upcoming) : Upcoming[i].ticket \in Nat
  BY <1>t, WorkerFields, QueueFields, MailFields, LineFields
<1>1. CASE UNCHANGED <<w.pc, Upcoming, published, mbox.st, mbox.op, mbox.barrier,
                      peer.capture.st, shared.fault>>
  BY <1>t, <1>1, <1>f DEF Healthy, CaptureInv, CaptureFenced
<1>2. CASE Sending
  BY <1>t, <1>f, <1>2, SendEffect DEF Healthy, CaptureInv, CaptureFenced, Grown, Sends
<1>3. CASE TurnOn
  BY <1>t, <1>f, <1>3, TurnOnEffect DEF Healthy, CaptureInv, CaptureFenced, Grown
<1>4. CASE AnswerStarting
  BY <1>t, <1>f, <1>4, AnswerStartingEffect DEF Healthy, CaptureInv, CaptureFenced, Grown
<1>5. CASE TurnOff
  BY <1>t, <1>f, <1>5, TurnOffEffect DEF Healthy, CaptureInv, CaptureFenced, Grown
<1>6. CASE RestoreRunning
  BY <1>t, <1>f, <1>6, RestoreRunningEffect DEF Healthy, CaptureInv, CaptureFenced, Grown
<1>7. CASE Admit \/ AnswerOnly \/ EndCapture \/ ComponentState
  BY <1>t, <1>f, <1>7, AdmitEffect, AnswerOnlyEffect, EndCaptureEffect,
     ComponentStateEffect DEF Healthy, CaptureInv, CaptureFenced
<1>8. CASE CaptureInAudio \/ TakeBack \/ PopBack \/ TakeNothing \/ PendingStart
  BY <1>t, <1>f, <1>8, CaptureInAudioEffect, TakeBackEffect, PopBackEffect,
     TakeNothingEffect, PendingStartEffect DEF Healthy, CaptureInv, CaptureFenced
<1>9. CASE PendingEmpty \/ PollStart \/ PendingWait \/ Transition \/ FinishStart
  BY <1>t, <1>f, <1>9, PendingEmptyEffect, PollStartEffect, PendingWaitEffect,
     TransitionEffect, FinishStartEffect DEF Healthy, CaptureInv, CaptureFenced
<1>10. CASE Publish \/ Synced \/ PeerStep \/ Fault \/ Recover
  BY <1>t, <1>f, <1>10, PublishEffect, SyncedEffect, PeerEffect, FaultEffect,
     RecoverEffect DEF Healthy, CaptureInv, CaptureFenced
<1>11. CASE BeginCapture
  BY <1>t, <1>f, <1>11, BeginCaptureEffect, FencedMeans DEF Healthy, CaptureInv, CaptureFenced
<1>12. CASE TakeNext \/ PopNext
  BY <1>t, <1>f, <1>12, TakeNextEffect, PopNextEffect DEF Healthy, CaptureInv,
     CaptureFenced, Shrunk
<1> QED
  BY <1>1, <1>2, <1>3, <1>4, <1>5, <1>6, <1>7, <1>8, <1>9, <1>10, <1>11, <1>12,
     WorkerMoves, LineMoves, MailMoves, HostMoves, WordMoves

\* A capture discloses what passes it.
LEMMA ShowsKept ==
    ASSUME IInv, Next, NEW p \in Params PROVE CaptureShows(p)'
<1>t. Typed /\ CaptureInv /\ LastInv /\ BoundsInv
  BY DEF IInv
<1>f. /\ published + 1 \in Nat /\ shared.lastEdit \in Nat /\ mbox.barrier \in Nat
      /\ published \in Nat
  BY <1>t, QueueFields, SharedFields, MailFields
<1>v. /\ plugin[p] \in Nat /\ peer.capture.bytes[p] \in Nat /\ w.item.edits[p] \in Nat
      /\ Len(Upcoming) \in Nat /\ NoEdits[p] = 0 /\ NoItem.edits[p] = 0
  BY <1>t, ValuesAt
<1>s. shared.lastEdit <= published
  BY <1>t DEF BoundsInv, WordBounds
<1>1. CASE UNCHANGED <<plugin, peer.capture.st, peer.capture.bytes, mbox.barrier,
                      mbox.st, mbox.op, shared.lastEdit, shared.fault>>
  BY <1>t, <1>1, <1>f, <1>v, <1>s DEF Healthy, CaptureInv, CaptureFenced, CaptureShows
<1>2. CASE Sending
  BY <1>t, <1>f, <1>v, <1>s, <1>2, SendEffect DEF Healthy, CaptureInv, CaptureFenced,
     CaptureShows, Sends
<1>3. CASE AnswerStarting \/ Admit \/ AnswerOnly \/ BeginCapture
  BY <1>t, <1>f, <1>v, <1>s, <1>3, AnswerStartingEffect, AdmitEffect,
     AnswerOnlyEffect, BeginCaptureEffect DEF Healthy, CaptureInv, CaptureFenced, CaptureShows
<1>4. CASE EndCapture \/ ComponentState \/ CaptureInAudio \/ Fault \/ Recover
  BY <1>t, <1>f, <1>v, <1>s, <1>4, EndCaptureEffect, ComponentStateEffect,
     CaptureInAudioEffect, FaultEffect, RecoverEffect
  DEF Healthy, CaptureInv, CaptureFenced, CaptureShows
<1>5. CASE PeerStep
  BY <1>t, <1>f, <1>v, <1>s, <1>5, PeerEffect DEF Healthy, CaptureInv, CaptureFenced,
     CaptureShows, LastInv, LastAt
<1> QED
  BY <1>1, <1>2, <1>3, <1>4, <1>5, ValueMoves, HostMoves, MailMoves, WordMoves

\* A capture is fenced and discloses what passes it.
LEMMA CaptureKept ==
    ASSUME IInv, Next PROVE CaptureInv'
  BY FencedKept, ShowsKept
  DEF CaptureInv

\* A value that is held stays held.
LEMMA HeldStays ==
    ASSUME IInv, Next, Healthy, Healthy', NEW p \in Params, NEW s \in Nat,
           s <= clock.stamps, Held(p, s) PROVE Held(p, s)'
<1>t. Typed /\ WorkerInv /\ BareInv /\ OrderInv
  BY DEF IInv
<1>v. /\ plugin[p] \in Nat /\ w.item.edits[p] \in Nat
      /\ \A i \in 1 .. Len(Upcoming) : Upcoming[i].edits[p] \in Nat
      /\ Len(Upcoming) \in Nat /\ NoEdits[p] = 0 /\ NoItem.edits[p] = 0
      /\ cb.edits[p] \in Nat /\ cb.retained[p] \in Nat
  BY <1>t, ValuesAt
<1>l. Live => Live' \/ s <= plugin'[p]
  BY LiveEnds
<1>o. ItemOrder(p) /\ DoneOrder(p) /\ OwnOrder(p)
  BY <1>t DEF OrderInv
<1>1. CASE UNCHANGED <<plugin, w.item, Upcoming, cb.retained, shared.fault>>
  BY <1>t, <1>1, <1>v, <1>l DEF Healthy, Held
<1>2. CASE Retain
  BY <1>t, <1>v, <1>l, <1>2, RetainEffect, <1>o DEF Healthy, Held, OwnOrder
<1>3. CASE TakeBack \/ PollStart \/ Transition \/ FinishStart
  BY <1>t, <1>v, <1>l, <1>3, TakeBackEffect, PollStartEffect, TransitionEffect,
     FinishStartEffect DEF Healthy, Held, BareInv, Bare, WorkerInv, Between, Starting
<1>4. CASE Publish \/ Synced
  BY <1>t, <1>v, <1>l, <1>4, PublishEffect, SyncedEffect, <1>o DEF Healthy, Held, DoneOrder
<1>5. CASE PeerStep
  BY <1>t, <1>v, <1>l, <1>5, PeerEffect, <1>o DEF Healthy, Held, ItemOrder
<1>6. CASE Fault \/ Recover
  BY <1>t, <1>v, <1>l, <1>6, FaultEffect, RecoverEffect DEF Healthy, Held
<1>7. CASE Process
  <2>1. /\ cb.pc = "idle" /\ Healthy
        /\ cb'.retained = IF cb.rev # shared.revision THEN NoEdits ELSE cb.retained
        /\ ctl.op # 18 /\ UNCHANGED <<plugin, w, Upcoming, shared.fault>>
    BY <1>7, ProcessEffect
  <2>2. ctl.op # 18 => ~Restoring
    BY <1>t, <2>1 DEF IInv, CallInv, Restoring
  <2>3. Live => cb'.retained = cb.retained
    BY <2>1, <2>2, CallbackFields, <1>t DEF Live
  <2> QED
    BY <1>l, <2>1, <2>3 DEF Held
<1>8. CASE Sending
  <2>s. PICK edits \in Values, sync \in BOOLEAN, flush \in BOOLEAN :
           Sends(edits, sync, flush)
    BY <1>8, SendEffect
  <2>1. /\ Healthy /\ Grown("AUDIO", cb.epoch, cb.submitted + 1, edits, sync)
        /\ flush => /\ cb.pc = "replay" /\ ~Nothing /\ Edited(edits) # {}
                    /\ Edited(edits) \subseteq Edited(cb.retained)
                    /\ \A q \in Params : edits[q] \in {0, cb.retained[q]}
                    /\ sync <=> Edited(cb.retained) = Edited(edits)
        /\ ~flush => cb.pc = "push" /\ edits = cb.edits /\ ~sync
        /\ \A q \in Params : cb'.retained[q] =
               IF flush /\ edits[q] # 0 THEN 0 ELSE cb.retained[q]
        /\ ~flush => cb'.retained = cb.retained
        /\ UNCHANGED <<plugin, w, shared.fault>>
    BY <2>s DEF Sends
  <2>2. \A i \in 1 .. Len(Upcoming) : i \in 1 .. Len(Upcoming') /\ Upcoming'[i] = Upcoming[i]
    BY <2>1 DEF Grown
  <2>3. Len(Upcoming) + 1 \in 1 .. Len(Upcoming') /\ Upcoming'[Len(Upcoming) + 1].edits = edits
    BY <2>1 DEF Grown
  <2>4. cb'.retained[p] = cb.retained[p] \/ edits[p] = cb.retained[p]
    BY <1>v, <2>1
  <2> QED
    BY <1>l, <2>1, <2>2, <2>3, <2>4 DEF Held
<1>9. CASE TurnOn \/ AnswerStarting
  <2>1. /\ Healthy /\ cb.pc = "idle" /\ Grown("START", cb.epoch + 1, 0, NoEdits, FALSE)
        /\ UNCHANGED <<plugin, w, cb.retained, shared.fault>>
    BY <1>9, TurnOnEffect, AnswerStartingEffect
  <2>2. \A i \in 1 .. Len(Upcoming) : i \in 1 .. Len(Upcoming') /\ Upcoming'[i] = Upcoming[i]
    BY <2>1 DEF Grown
  <2> QED
    BY <1>l, <2>1, <2>2 DEF Held
<1>10. CASE TurnOff \/ RestoreRunning
  <2>1. /\ Healthy /\ cb.pc = "idle" /\ Grown("STOP", cb.epoch, 0, NoEdits, FALSE)
        /\ UNCHANGED <<plugin, w, cb.retained, shared.fault>>
    BY <1>10, TurnOffEffect, RestoreRunningEffect
  <2>2. \A i \in 1 .. Len(Upcoming) : i \in 1 .. Len(Upcoming') /\ Upcoming'[i] = Upcoming[i]
    BY <2>1 DEF Grown
  <2> QED
    BY <1>l, <2>1, <2>2 DEF Held
<1>11. CASE ComponentState
  <2>1. /\ w.pc = "top" /\ Healthy
        /\ mbox.op = 18 => \A q \in Params : plugin'[q] = mbox.stamp
        /\ mbox.op # 18 => plugin' = plugin
        /\ mbox.st = "asked" /\ UNCHANGED <<w.item, Upcoming, cb, shared.fault>>
    BY <1>11, ComponentStateEffect
  <2>2. CASE mbox.op = 18
    <3>1. plugin'[p] = clock.stamps
      BY <1>t, <2>1, <2>2 DEF IInv, CallInv
    <3> QED
      BY <3>1 DEF Held
  <2>3. CASE mbox.op # 18
    BY <1>l, <2>1, <2>3 DEF Held
  <2> QED
    BY <2>2, <2>3
<1>12. CASE TakeNext
  <2>1. /\ Healthy /\ w.pc \in Between /\ Upcoming[1] \in Items /\ Shrunk
        /\ w'.item = Upcoming[1]
        /\ Upcoming[1].kind = "AUDIO" => w'.pc = "audio"
        /\ UNCHANGED <<plugin, cb, shared>>
    BY <1>12, TakeNextEffect
  <2>2. w.item.edits[p] = 0
    BY <1>t, <1>v, <2>1 DEF BareInv, Bare, WorkerInv, Between, Starting
  <2>3. CASE \E i \in 1 .. Len(Upcoming) : s <= Upcoming[i].edits[p]
    <3>1. PICK i \in 1 .. Len(Upcoming) : s <= Upcoming[i].edits[p]
      BY <2>3
    <3>2. CASE i = 1
      BY <2>1, <3>1, <3>2 DEF Held
    <3>3. CASE i # 1
      <4>1. \E j \in 1 .. Len(Upcoming') : Upcoming'[j] = Upcoming[i]
        BY <2>1, <3>3, ShrunkRest
      <4> QED
        BY <3>1, <4>1 DEF Held
    <3> QED
      BY <3>2, <3>3
  <2> QED
    BY <1>v, <1>l, <2>1, <2>2, <2>3 DEF Held
<1>13. CASE PopNext
  <2>1. /\ Healthy /\ w.pc \in {"pop1", "pop2"} /\ Upcoming[1] \in Items
        /\ Upcoming[1].kind \in {"STOP", "AUDIO"} /\ Upcoming[1].epoch = w.item.epoch
        /\ Shrunk /\ w'.item = Upcoming[1] /\ UNCHANGED <<plugin, cb, shared.fault>>
    BY <1>13, PopNextEffect
  <2>2. w.item.edits[p] = 0
    BY <1>t, <1>v, <2>1 DEF BareInv, Bare, WorkerInv, Between, Starting
  <2>3. CASE \E i \in 1 .. Len(Upcoming) : s <= Upcoming[i].edits[p]
    <3>1. PICK i \in 1 .. Len(Upcoming) : s <= Upcoming[i].edits[p]
      BY <2>3
    <3>2. CASE i = 1
      BY <2>1, <3>1, <3>2 DEF Held
    <3>3. CASE i # 1
      <4>1. \E j \in 1 .. Len(Upcoming') : Upcoming'[j] = Upcoming[i]
        BY <2>1, <3>3, ShrunkRest
      <4> QED
        BY <3>1, <4>1 DEF Held
    <3> QED
      BY <3>2, <3>3
  <2> QED
    BY <1>v, <1>l, <2>1, <2>2, <2>3 DEF Held
<1> QED
  BY <1>1, <1>2, <1>3, <1>4, <1>5, <1>6, <1>7, <1>8, <1>9, <1>10, <1>11, <1>12, <1>13,
     ValueMoves, WorkerMoves, LineMoves, CallbackMoves, WordMoves

\* What a call accepts is held, or was before.
LEMMA AcceptedHeld ==
    ASSUME IInv, Next, Healthy', NEW p \in Params, NEW s \in Nat,
           s = accepted'[p] PROVE (Healthy /\ s <= clock.stamps /\ Held(p, s)) \/ Held(p, s)'
<1>t. Typed /\ HeldInv /\ StampInv /\ SnapInv
  BY DEF IInv
<1>v. /\ plugin[p] \in Nat /\ w.item.edits[p] \in Nat
      /\ \A i \in 1 .. Len(Upcoming) : Upcoming[i].edits[p] \in Nat
      /\ Len(Upcoming) \in Nat /\ NoEdits[p] = 0 /\ NoItem.edits[p] = 0
      /\ cb.edits[p] \in Nat /\ cb.retained[p] \in Nat /\ accepted[p] \in Nat
      /\ snap.bytes[p] \in Nat
  BY <1>t, ValuesAt
<1>h. Healthy => /\ accepted[p] <= clock.stamps /\ Held(p, accepted[p])
                 /\ Sent => cb.edits[p] <= clock.stamps /\ Held(p, cb.edits[p])
  BY <1>t DEF HeldInv, StampInv, StampAt
<1>1. CASE UNCHANGED <<accepted, shared.fault>>
  BY <1>t, <1>1, <1>v, <1>h DEF Healthy
<1>2. CASE Fault
  BY <1>t, <1>v, <1>h, <1>2, FaultEffect DEF Healthy
<1>3. CASE Retain
  <2>1. /\ cb.pc = "ready" /\ Healthy
        /\ \A q \in Params : accepted'[q] = IF cb.edits[q] # 0 THEN cb.edits[q] ELSE accepted[q]
        /\ UNCHANGED <<shared.fault>>
    BY <1>3, RetainEffect
  <2>2. CASE cb.edits[p] = 0
    BY <1>h, <2>1, <2>2
  <2>3. CASE cb.edits[p] # 0
    <3>1. cb'.retained[p] = s /\ Live /\ cb'.rev = cb.rev /\ UNCHANGED <<mbox, shared.revision>>
      BY <2>1, <2>3, <1>3, RetainEffect, BusyMeans
    <3> QED
      BY <1>v, <2>1, <3>1 DEF Held, Live, Restoring
  <2> QED
    BY <2>2, <2>3
<1>4. CASE Drained
  <2>1. /\ cb.pc = "drain" /\ Healthy
        /\ cb.flush => accepted' = accepted
        /\ ~cb.flush => \A q \in Params : accepted'[q] =
               IF cb.edits[q] # 0 THEN cb.edits[q] ELSE accepted[q]
        /\ UNCHANGED <<shared>>
    BY <1>4, DrainedEffect
  <2>2. CASE cb.flush
    BY <1>h, <2>1, <2>2
  <2>3. CASE ~cb.flush
    BY <1>h, <2>1, <2>3 DEF Sent
  <2> QED
    BY <2>2, <2>3
<1>5. CASE AnswerStarting
  <2>1. /\ Healthy /\ cb.pc = "idle" /\ mbox.st = "answered"
        /\ mbox.op = 18 => \A q \in Params : accepted'[q] = mbox.stamp
        /\ mbox.op # 18 => accepted' = accepted
        /\ UNCHANGED <<shared.fault>>
    BY <1>5, AnswerStartingEffect
  <2>2. CASE mbox.op = 18
    <3>1. s <= clock.stamps /\ s <= plugin[p]
      BY <1>t, <2>1, <2>2 DEF SnapInv, RestoreSaved, StampInv
    <3> QED
      BY <2>1, <3>1 DEF Held
  <2>3. CASE mbox.op # 18
    BY <1>h, <2>1, <2>3
  <2> QED
    BY <2>2, <2>3
<1>6. CASE AnswerOnly
  <2>1. /\ mbox.st = "answered" /\ Healthy
        /\ mbox.op = 18 => \A q \in Params : accepted'[q] = mbox.stamp
        /\ mbox.op # 18 => accepted' = accepted
        /\ UNCHANGED <<shared>>
    BY <1>6, AnswerOnlyEffect
  <2>2. CASE mbox.op = 18
    <3>1. s <= clock.stamps /\ s <= plugin[p]
      BY <1>t, <2>1, <2>2 DEF SnapInv, RestoreSaved, StampInv
    <3> QED
      BY <2>1, <3>1 DEF Held
  <2>3. CASE mbox.op # 18
    BY <1>h, <2>1, <2>3
  <2> QED
    BY <2>2, <2>3
<1>7. CASE Recover
  <2>1. /\ shared.fault = "outside" /\ accepted' = snap.bytes /\ shared'.fault = "none"
    BY <1>7, RecoverEffect
  <2>2. plugin'[p] = s
    BY <1>7, RecoverEffect
  <2> QED
    BY <1>v, <2>2 DEF Held
<1> QED
  BY <1>1, <1>2, <1>3, <1>4, <1>5, <1>6, <1>7, ValueMoves, WordMoves

\* What a block has sent is held, or was before.
LEMMA SentHeld ==
    ASSUME IInv, Next, Healthy', Sent', NEW p \in Params, NEW s \in Nat,
           s = cb'.edits[p] PROVE (Healthy /\ s <= clock.stamps /\ Held(p, s)) \/ Held(p, s)'
<1>t. Typed /\ HeldInv /\ StampInv
  BY DEF IInv
<1>f. /\ cb.flush \in BOOLEAN
  BY <1>t, CallbackFields
<1>v. /\ plugin[p] \in Nat /\ w.item.edits[p] \in Nat
      /\ \A i \in 1 .. Len(Upcoming) : Upcoming[i].edits[p] \in Nat
      /\ Len(Upcoming) \in Nat /\ NoEdits[p] = 0 /\ NoItem.edits[p] = 0
      /\ cb.edits[p] \in Nat /\ cb.retained[p] \in Nat
  BY <1>t, ValuesAt
<1>h. Healthy => /\ accepted[p] <= clock.stamps /\ Held(p, accepted[p])
                 /\ Sent => cb.edits[p] <= clock.stamps /\ Held(p, cb.edits[p])
  BY <1>t DEF HeldInv, StampInv, StampAt
<1>1. CASE UNCHANGED <<cb.pc, cb.flush, cb.edits, shared.fault>>
  BY <1>t, <1>1, <1>v, <1>h DEF Healthy, Sent
<1>2. CASE Process \/ Retain \/ Ready
  BY <1>t, <1>f, <1>v, <1>h, <1>2, ProcessEffect, RetainEffect, ReadyEffect DEF Healthy, Sent
<1>3. CASE Flushed \/ Drained \/ Fault \/ Recover
  BY <1>t, <1>f, <1>v, <1>h, <1>3, FlushedEffect, DrainedEffect, FaultEffect,
     RecoverEffect DEF Healthy, Sent
<1>4. CASE Sending
  <2>s. PICK edits \in Values, sync \in BOOLEAN, flush \in BOOLEAN :
           Sends(edits, sync, flush)
    BY <1>4, SendEffect
  <2>1. /\ Healthy
        /\ flush => /\ cb.pc = "replay" /\ ~Nothing /\ Edited(edits) # {}
                    /\ Edited(edits) \subseteq Edited(cb.retained)
                    /\ \A q \in Params : edits[q] \in {0, cb.retained[q]}
                    /\ sync <=> Edited(cb.retained) = Edited(edits)
        /\ ~flush => cb.pc = "push" /\ edits = cb.edits /\ ~sync
        /\ cb'.pc = "drain"
        /\ cb'.flush <=> flush
        /\ Grown("AUDIO", cb.epoch, cb.submitted + 1, edits, sync)
        /\ UNCHANGED <<cb.edits, shared.fault>>
    BY <2>s DEF Sends
  <2>2. ~flush /\ s = edits[p]
    BY <2>1 DEF Sent
  <2>3. Len(Upcoming) + 1 \in 1 .. Len(Upcoming') /\ Upcoming'[Len(Upcoming) + 1].edits = edits
    BY <2>1 DEF Grown
  <2>4. s <= Upcoming'[Len(Upcoming) + 1].edits[p]
    BY <2>2, <2>3
  <2> QED
    BY <2>3, <2>4 DEF Held
<1> QED
  BY <1>1, <1>2, <1>3, <1>4, CallbackMoves, WordMoves

\* An accepted edit is in the plug-in, in the line or retained.
LEMMA HeldKept ==
    ASSUME IInv, Next
    PROVE  HeldInv'
<1> SUFFICES ASSUME Healthy', NEW p \in Params
             PROVE  Held(p, accepted[p])' /\ (Sent' => Held(p, cb.edits[p])')
  BY DEF HeldInv
<1>1. accepted'[p] \in Nat /\ cb'.edits[p] \in Nat
  BY StepTyped, ValuesAtNext
<1>2. Held(p, accepted[p])'
  <2> PICK s \in Nat : s = accepted'[p]
    BY <1>1
  <2>1. Held(p, s)'
    BY AcceptedHeld, HeldStays
  <2> QED
    BY <2>1 DEF Held
<1>3. ASSUME Sent' PROVE Held(p, cb.edits[p])'
  <2> PICK s \in Nat : s = cb'.edits[p]
    BY <1>1
  <2>1. Held(p, s)'
    BY <1>3, SentHeld, HeldStays
  <2> QED
    BY <2>1 DEF Held
<1> QED
  BY <1>2, <1>3

\* A value that comes before a barrier still does.
LEMMA BeforeStays ==
    ASSUME IInv, Next, Healthy, Healthy', NEW p \in Params, NEW s \in Nat,
           s <= clock.stamps, NEW b \in Nat, Before(p, s, b) PROVE Before(p, s, b)'
<1>t. Typed /\ WorkerInv /\ BareInv /\ OrderInv
  BY DEF IInv
<1>f. /\ published + 1 \in Nat /\ published \in Nat
  BY <1>t, QueueFields
<1>v. /\ plugin[p] \in Nat /\ w.item.edits[p] \in Nat
      /\ \A i \in 1 .. Len(Upcoming) : Upcoming[i].edits[p] \in Nat
      /\ Len(Upcoming) \in Nat /\ NoEdits[p] = 0 /\ NoItem.edits[p] = 0
      /\ cb.edits[p] \in Nat
  BY <1>t, ValuesAt
<1>o. ItemOrder(p) /\ DoneOrder(p)
  BY <1>t DEF OrderInv
<1>1. CASE UNCHANGED <<plugin, w.item, Upcoming, published, shared.fault>>
  BY <1>t, <1>1, <1>f, <1>v DEF Healthy, Before
<1>2. CASE TakeBack \/ PollStart \/ Transition \/ FinishStart
  BY <1>t, <1>f, <1>v, <1>2, TakeBackEffect, PollStartEffect, TransitionEffect,
     FinishStartEffect DEF Healthy, Before, BareInv, Bare, WorkerInv, Between, Starting
<1>3. CASE Publish
  BY <1>t, <1>f, <1>v, <1>3, PublishEffect, <1>o DEF Healthy, Before, DoneOrder
<1>4. CASE Synced
  BY <1>t, <1>f, <1>v, <1>4, SyncedEffect, <1>o DEF Healthy, Before, DoneOrder
<1>5. CASE PeerStep
  BY <1>t, <1>f, <1>v, <1>5, PeerEffect, <1>o DEF Healthy, Before, ItemOrder
<1>6. CASE Fault \/ Recover
  BY <1>t, <1>f, <1>v, <1>6, FaultEffect, RecoverEffect DEF Healthy, Before
<1>7. CASE Sending
  <2>s. PICK edits \in Values, sync \in BOOLEAN, flush \in BOOLEAN :
           Sends(edits, sync, flush)
    BY <1>7, SendEffect
  <2>1. /\ Healthy /\ Grown("AUDIO", cb.epoch, cb.submitted + 1, edits, sync)
        /\ published' = published + 1 /\ UNCHANGED <<plugin, w, shared.fault>>
    BY <2>s DEF Sends
  <2>2. \A i \in 1 .. Len(Upcoming) : i \in 1 .. Len(Upcoming') /\ Upcoming'[i] = Upcoming[i]
    BY <2>1 DEF Grown
  <2>3. /\ published' = published + 1 /\ Len(Upcoming') = Len(Upcoming) + 1
        /\ plugin' = plugin /\ w'.item = w.item
    BY <2>1 DEF Grown
  <2>4. ASSUME NEW i \in 1 .. Len(Upcoming), published + i <= b + Len(Upcoming)
        PROVE  published' + i <= b + Len(Upcoming')
    BY <1>f, <1>v, <2>3, <2>4
  <2> QED
    BY <2>2, <2>3, <2>4 DEF Before
<1>8. CASE TurnOn \/ AnswerStarting
  <2>1. /\ Healthy /\ Grown("START", cb.epoch + 1, 0, NoEdits, FALSE)
        /\ published' = published + 1 /\ UNCHANGED <<plugin, w, shared.fault>>
    BY <1>8, TurnOnEffect, AnswerStartingEffect
  <2>2. \A i \in 1 .. Len(Upcoming) : i \in 1 .. Len(Upcoming') /\ Upcoming'[i] = Upcoming[i]
    BY <2>1 DEF Grown
  <2>3. /\ published' = published + 1 /\ Len(Upcoming') = Len(Upcoming) + 1
        /\ plugin' = plugin /\ w'.item = w.item
    BY <2>1 DEF Grown
  <2>4. ASSUME NEW i \in 1 .. Len(Upcoming), published + i <= b + Len(Upcoming)
        PROVE  published' + i <= b + Len(Upcoming')
    BY <1>f, <1>v, <2>3, <2>4
  <2> QED
    BY <2>2, <2>3, <2>4 DEF Before
<1>9. CASE TurnOff \/ RestoreRunning
  <2>1. /\ Healthy /\ Grown("STOP", cb.epoch, 0, NoEdits, FALSE)
        /\ published' = published + 1 /\ UNCHANGED <<plugin, w, shared.fault>>
    BY <1>9, TurnOffEffect, RestoreRunningEffect
  <2>2. \A i \in 1 .. Len(Upcoming) : i \in 1 .. Len(Upcoming') /\ Upcoming'[i] = Upcoming[i]
    BY <2>1 DEF Grown
  <2>3. /\ published' = published + 1 /\ Len(Upcoming') = Len(Upcoming) + 1
        /\ plugin' = plugin /\ w'.item = w.item
    BY <2>1 DEF Grown
  <2>4. ASSUME NEW i \in 1 .. Len(Upcoming), published + i <= b + Len(Upcoming)
        PROVE  published' + i <= b + Len(Upcoming')
    BY <1>f, <1>v, <2>3, <2>4
  <2> QED
    BY <2>2, <2>3, <2>4 DEF Before
<1>10. CASE ComponentState
  <2>1. /\ w.pc = "top" /\ Healthy
        /\ mbox.op = 18 => \A q \in Params : plugin'[q] = mbox.stamp
        /\ mbox.op # 18 => plugin' = plugin
        /\ mbox.st = "asked" /\ UNCHANGED <<w.item, Upcoming, published, shared.fault>>
    BY <1>10, ComponentStateEffect
  <2>2. CASE mbox.op = 18
    <3>1. plugin'[p] = clock.stamps
      BY <1>t, <2>1, <2>2 DEF IInv, CallInv
    <3> QED
      BY <3>1 DEF Before
  <2>3. CASE mbox.op # 18
    BY <2>1, <2>3 DEF Before
  <2> QED
    BY <2>2, <2>3
<1>11. CASE TakeNext
  <2>1. /\ Healthy /\ w.pc \in Between /\ Upcoming[1] \in Items /\ Shrunk
        /\ w'.item = Upcoming[1]
        /\ Upcoming[1].kind = "AUDIO" => w'.pc = "audio"
        /\ UNCHANGED <<plugin, published, shared>>
    BY <1>11, TakeNextEffect
  <2>2. w.item.edits[p] = 0 /\ plugin' = plugin
    BY <1>t, <1>v, <2>1 DEF BareInv, Bare, WorkerInv, Between, Starting
  <2>3. ASSUME NEW i \in 1 .. Len(Upcoming), published + i <= b + Len(Upcoming),
               s <= Upcoming[i].edits[p]
        PROVE  Before(p, s, b)'
    <3>2. CASE i = 1
      BY <2>1, <2>3, <3>2 DEF Before
    <3>3. CASE i # 1
      <4>1. PICK j \in 1 .. Len(Upcoming') : i = j + 1 /\ Upcoming'[j] = Upcoming[i]
        BY <2>1, <3>3, ShrunkRest
      <4>2. published' = published /\ Len(Upcoming') = Len(Upcoming) - 1
        BY <2>1 DEF Shrunk
      <4>3. published' + j <= b + Len(Upcoming')
        <5> DEFINE n == published
                   l == Len(Upcoming)
        <5>1. n \in Nat /\ l \in Nat /\ j \in Int /\ n + (j + 1) <= b + l
          BY <1>f, <1>v, <2>3, <4>1
        <5>2. published' = n /\ Len(Upcoming') = l - 1
          BY <4>2
        <5> HIDE DEF n, l
        <5> QED
          BY <5>1, <5>2
      <4> QED
        BY <2>3, <4>1, <4>3 DEF Before
    <3> QED
      BY <3>2, <3>3
  <2> QED
    BY <1>v, <2>2, <2>3 DEF Before
<1>12. CASE PopNext
  <2>1. /\ Healthy /\ w.pc \in {"pop1", "pop2"} /\ Upcoming[1] \in Items
        /\ Upcoming[1].kind \in {"STOP", "AUDIO"} /\ Upcoming[1].epoch = w.item.epoch
        /\ Shrunk /\ w'.item = Upcoming[1]
        /\ UNCHANGED <<plugin, published, shared.fault>>
    BY <1>12, PopNextEffect
  <2>2. w.item.edits[p] = 0 /\ plugin' = plugin
    BY <1>t, <1>v, <2>1 DEF BareInv, Bare, WorkerInv, Between, Starting
  <2>3. ASSUME NEW i \in 1 .. Len(Upcoming), published + i <= b + Len(Upcoming),
               s <= Upcoming[i].edits[p]
        PROVE  Before(p, s, b)'
    <3>2. CASE i = 1
      BY <2>1, <2>3, <3>2 DEF Before
    <3>3. CASE i # 1
      <4>1. PICK j \in 1 .. Len(Upcoming') : i = j + 1 /\ Upcoming'[j] = Upcoming[i]
        BY <2>1, <3>3, ShrunkRest
      <4>2. published' = published /\ Len(Upcoming') = Len(Upcoming) - 1
        BY <2>1 DEF Shrunk
      <4>3. published' + j <= b + Len(Upcoming')
        <5> DEFINE n == published
                   l == Len(Upcoming)
        <5>1. n \in Nat /\ l \in Nat /\ j \in Int /\ n + (j + 1) <= b + l
          BY <1>f, <1>v, <2>3, <4>1
        <5>2. published' = n /\ Len(Upcoming') = l - 1
          BY <4>2
        <5> HIDE DEF n, l
        <5> QED
          BY <5>1, <5>2
      <4> QED
        BY <2>3, <4>1, <4>3 DEF Before
    <3> QED
      BY <3>2, <3>3
  <2> QED
    BY <1>v, <2>2, <2>3 DEF Before
<1> QED
  BY <1>1, <1>2, <1>3, <1>4, <1>5, <1>6, <1>7, <1>8, <1>9, <1>10, <1>11, <1>12,
     ValueMoves, WorkerMoves, LineMoves, WordMoves

\* What a save has to hold comes before its barrier when it is asked.
LEMMA CoverAsked ==
    ASSUME IInv, Next, Healthy', NEW p \in Params, ctl'.op = 16, mbox'.st # "answered",
           NEW s \in Nat, s = ctl'.covers[p], NEW b \in Nat, b = ctl'.barrier
    PROVE  Healthy /\ s <= clock.stamps /\ Before(p, s, b)
<1>t. Typed /\ CoverInv /\ StampInv /\ FaultInv
  BY DEF IInv
<1>f. /\ ctl.op \in {0, 16, 18}
  BY <1>t, CallFields
<1>v. /\ plugin[p] \in Nat /\ ctl.covers[p] \in Nat /\ accepted[p] \in Nat
      /\ cb.retained[p] \in Nat
      /\ \A i \in 1 .. Len(Upcoming) : Upcoming[i].edits[p] \in Nat
      /\ Len(Upcoming) \in Nat
  BY <1>t, ValuesAt
<1>c. Healthy /\ ctl.op = 16 /\ mbox.st # "answered" => Before(p, ctl.covers[p], ctl.barrier)
  BY <1>t DEF CoverInv, CoverLine
<1>m. ctl.covers[p] <= clock.stamps /\ accepted[p] <= clock.stamps
  BY <1>t DEF StampInv, StampAt
<1>1. CASE UNCHANGED <<ctl.pc, ctl.op, ctl.barrier, ctl.stamp, ctl.resume, ctl.covers,
                      mbox.st, shared.fault>>
  BY <1>t, <1>1, <1>c, <1>m DEF Healthy
<1>2. CASE AnswerStarting \/ RestoreRunning \/ RestoreStopped \/ Admit
  BY <1>t, <1>f, <1>c, <1>m, <1>2, AnswerStartingEffect, RestoreRunningEffect,
     RestoreStoppedEffect, AdmitEffect DEF Healthy
<1>3. CASE AnswerOnly \/ EndCapture \/ ComponentState \/ CaptureInAudio \/ Fault
  BY <1>t, <1>f, <1>c, <1>m, <1>3, AnswerOnlyEffect, EndCaptureEffect,
     ComponentStateEffect, CaptureInAudioEffect, FaultEffect DEF Healthy
<1>4. CASE Save
  <2>1. /\ Healthy /\ ctl.pc = "idle"
        /\ ctl'.pc = IF shared.pending = 0 THEN "admit" ELSE "idle"
        /\ ctl'.op = IF shared.pending = 0 THEN 16 ELSE 0
        /\ ctl'.barrier = IF shared.pending = 0 THEN published ELSE 0
        /\ ctl'.stamp = 0 /\ ~ctl'.resume
        /\ ctl'.covers = IF shared.pending = 0 THEN accepted ELSE NoEdits
        /\ UNCHANGED <<mbox, shared>>
    BY <1>4, SaveEffect
  <2>2. s = accepted[p] /\ b = published /\ shared.pending = 0
    BY <2>1, <1>4, SaveEffect
  <2>3. Held(p, s) /\ (Live => Nothing)
    BY <1>t, <2>1, <2>2 DEF IInv, HeldInv, KeptInv
  <2>4. Live => cb.retained[p] = 0
    BY <2>3, NothingMeans
  <2>5. published \in Nat /\ \A i \in 1 .. Len(Upcoming) : published + i <= published + Len(Upcoming)
    BY <1>t, <1>v, QueueFields
  <2> QED
    BY <1>v, <1>m, <2>1, <2>2, <2>3, <2>4, <2>5 DEF Held, Before
<1>5. CASE Recover
  <2>1. /\ shared.fault = "outside" /\ shared'.fault = "none" /\ mbox'.st = "none"
        /\ UNCHANGED <<ctl>>
    BY <1>5, RecoverEffect
  <2>2. ctl = IdleControl /\ ctl' = ctl
    BY <1>t, <1>5, RecoverEffect DEF FaultInv
  <2> QED
    BY <2>2 DEF IdleControl
<1> QED
  BY <1>1, <1>2, <1>3, <1>4, <1>5, CallMoves, MailMoves, WordMoves

\* What a save has to hold comes before its barrier.
LEMMA CoverLineKept ==
    ASSUME IInv, Next, Healthy', ctl'.op = 16, NEW p \in Params
    PROVE  CoverLine(p)'
<1> SUFFICES ASSUME mbox'.st # "answered"
             PROVE  Before(p, ctl.covers[p], ctl.barrier)'
  BY DEF CoverLine
<1>1. ctl'.covers[p] \in Nat /\ ctl'.barrier \in Nat
  BY StepTyped, ValuesAtNext DEF Typed, Calls
<1> PICK s \in Nat, b \in Nat : s = ctl'.covers[p] /\ b = ctl'.barrier
  BY <1>1
<1>2. Before(p, s, b)'
  BY CoverAsked, BeforeStays
<1> QED
  BY <1>2 DEF Before

\* A capture holds what its save has to.
LEMMA CoverTakenKept ==
    ASSUME IInv, Next, Healthy', ctl'.op = 16, NEW p \in Params PROVE CoverTaken(p)'
<1>t. Typed /\ CoverInv /\ CaptureInv /\ OrderInv /\ CallInv
  BY DEF IInv
<1>f. /\ peer.capture.st \in {"none", "taken", "done"}
  BY <1>t, PeerFields
<1>v. /\ plugin[p] \in Nat /\ ctl.covers[p] \in Nat /\ peer.capture.bytes[p] \in Nat
      /\ w.item.edits[p] \in Nat
  BY <1>t, ValuesAt
<1>c. Healthy /\ ctl.op = 16 => CoverTaken(p) /\ CoverSaved(p)
  BY <1>t DEF CoverInv
<1>1. CASE UNCHANGED <<ctl.op, ctl.covers, peer.capture.st, peer.capture.bytes, plugin,
                      shared.fault>>
  BY <1>t, <1>1, <1>v, <1>c DEF Healthy, CoverTaken
<1>2. CASE AnswerStarting \/ RestoreRunning \/ RestoreStopped \/ AnswerOnly
  BY <1>t, <1>f, <1>v, <1>c, <1>2, AnswerStartingEffect, RestoreRunningEffect,
     RestoreStoppedEffect, AnswerOnlyEffect DEF Healthy, CoverTaken
<1>3. CASE EndCapture \/ ComponentState \/ CaptureInAudio \/ Fault \/ Recover
  BY <1>t, <1>f, <1>v, <1>c, <1>3, EndCaptureEffect, ComponentStateEffect,
     CaptureInAudioEffect, FaultEffect, RecoverEffect DEF Healthy, CoverTaken
<1>4. CASE Save
  BY <1>t, <1>f, <1>v, <1>c, <1>4, SaveEffect DEF Healthy, CoverTaken, CaptureInv,
     CaptureFenced, CallInv
<1>5. CASE BeginCapture
  BY <1>t, <1>f, <1>v, <1>c, <1>5, BeginCaptureEffect, FencedCovers DEF Healthy, CoverTaken,
     CallInv
<1>6. CASE PeerStep
  BY <1>t, <1>f, <1>v, <1>c, <1>6, PeerEffect DEF Healthy, CoverTaken, OrderInv, ItemOrder
<1> QED
  BY <1>1, <1>2, <1>3, <1>4, <1>5, <1>6, CallMoves, HostMoves, ValueMoves, WordMoves

\* A saved state holds what its save has to.
LEMMA CoverSavedKept ==
    ASSUME IInv, Next, Healthy', ctl'.op = 16, NEW p \in Params PROVE CoverSaved(p)'
<1>t. Typed /\ CoverInv /\ CallInv
  BY DEF IInv
<1>f. /\ mbox.st \in {"none", "asked", "answered"}
  BY <1>t, MailFields
<1>v. /\ plugin[p] \in Nat /\ ctl.covers[p] \in Nat /\ peer.capture.bytes[p] \in Nat
      /\ mbox.bytes[p] \in Nat
  BY <1>t, ValuesAt
<1>c. Healthy /\ ctl.op = 16 => CoverTaken(p) /\ CoverSaved(p)
  BY <1>t DEF CoverInv
<1>1. CASE UNCHANGED <<ctl.op, ctl.covers, mbox.st, mbox.bytes, shared.fault>>
  BY <1>t, <1>1, <1>v, <1>c DEF Healthy, CoverTaken, CoverSaved
<1>2. CASE AnswerStarting \/ RestoreRunning \/ RestoreStopped
  BY <1>t, <1>f, <1>v, <1>c, <1>2, AnswerStartingEffect, RestoreRunningEffect,
     RestoreStoppedEffect DEF Healthy, CoverTaken, CoverSaved
<1>3. CASE Admit \/ AnswerOnly \/ Fault \/ Recover
  BY <1>t, <1>f, <1>v, <1>c, <1>3, AdmitEffect, AnswerOnlyEffect, FaultEffect,
     RecoverEffect DEF Healthy, CoverTaken, CoverSaved
<1>4. CASE Save \/ EndCapture \/ CaptureInAudio
  BY <1>t, <1>f, <1>v, <1>c, <1>4, SaveEffect, EndCaptureEffect, CaptureInAudioEffect
     DEF Healthy, CoverTaken, CoverSaved, CallInv
<1>5. CASE ComponentState
  BY <1>t, <1>f, <1>v, <1>c, <1>5, ComponentStateEffect, FencedCovers DEF Healthy,
     CoverTaken, CoverSaved, CallInv
<1> QED
  BY <1>1, <1>2, <1>3, <1>4, <1>5, CallMoves, MailMoves, WordMoves

\* A save holds what it has to.
LEMMA CoverKept ==
    ASSUME IInv, Next PROVE CoverInv'
  BY CoverLineKept, CoverTakenKept, CoverSavedKept
  DEF CoverInv

\* What the snapshot shows stays shown, and a new snapshot shows what is held.
LEMMA ShownStays ==
    ASSUME IInv, Next, Healthy, Newest', NEW p \in Params, NEW s \in Nat,
           s <= clock.stamps, Held(p, s), Newest => Shown(p, s) PROVE Shown(p, s)'
<1>t. Typed /\ SnapInv /\ BoundsInv /\ OrderInv /\ LastInv /\ CaptureInv /\ CallInv
  BY DEF IInv
<1>f. /\ published + 1 \in Nat /\ shared.lastEdit \in Nat /\ mbox.barrier \in Nat
      /\ snap.generation \in Nat /\ snap.through \in Nat
      /\ clock.generation \in Nat \ {0} /\ clock.generation + 1 \in Nat \ {0}
      /\ published \in Nat
  BY <1>t, QueueFields, SharedFields, MailFields, SnapFields, ClockFields
<1>v. /\ snap.bytes[p] \in Nat /\ plugin[p] \in Nat /\ w.item.edits[p] \in Nat
      /\ \A i \in 1 .. Len(Upcoming) : Upcoming[i].edits[p] \in Nat
      /\ Len(Upcoming) \in Nat /\ NoEdits[p] = 0 /\ NoItem.edits[p] = 0
      /\ cb.edits[p] \in Nat /\ cb.retained[p] \in Nat
      /\ peer.capture.bytes[p] \in Nat
  BY <1>t, ValuesAt
<1>l. Live => Live' \/ s <= snap'.bytes[p]
  BY LiveEnds DEF Newest
<1>s. /\ Newest => snap.through <= published
      /\ shared.lastEdit <= published
  BY <1>t DEF SnapInv, SnapBehind, BoundsInv, WordBounds
<1>h. CaptureShows(p) /\ CaptureFenced /\ LastAt(p) /\ OwnOrder(p)
  BY <1>t DEF CaptureInv, LastInv, OrderInv
<1>1. CASE UNCHANGED <<snap.generation, snap.through, snap.bytes, clock.generation,
                      shared.lastEdit, cb.retained, shared.fault>>
  BY <1>t, <1>1, <1>f, <1>v, <1>l DEF Healthy, Shown, Newest
<1>2. CASE Retain
  BY <1>t, <1>f, <1>v, <1>l, <1>2, RetainEffect, <1>h DEF Healthy, Shown, Newest, OwnOrder
<1>3. CASE Fault
  BY <1>t, <1>f, <1>v, <1>l, <1>3, FaultEffect DEF Healthy, Shown, Newest
<1>4. CASE Process
  <2>1. /\ cb.pc = "idle" /\ Healthy
        /\ cb'.retained = IF cb.rev # shared.revision THEN NoEdits ELSE cb.retained
        /\ ctl.op # 18
        /\ UNCHANGED <<snap, clock.generation, shared.lastEdit, shared.fault>>
    BY <1>4, ProcessEffect
  <2>2. ctl.op # 18 => ~Restoring
    BY <1>t, <2>1 DEF CallInv, Restoring
  <2>3. Live => cb'.retained = cb.retained
    BY <2>1, <2>2, CallbackFields, <1>t DEF Live
  <2> QED
    BY <1>l, <2>1, <2>3 DEF Shown, Newest
<1>5. CASE Sending
  <2>s. PICK edits \in Values, sync \in BOOLEAN, flush \in BOOLEAN :
           Sends(edits, sync, flush)
    BY <1>5, SendEffect
  <2>1. /\ Healthy
        /\ flush => /\ cb.pc = "replay" /\ ~Nothing /\ Edited(edits) # {}
                    /\ Edited(edits) \subseteq Edited(cb.retained)
                    /\ \A q \in Params : edits[q] \in {0, cb.retained[q]}
                    /\ sync <=> Edited(cb.retained) = Edited(edits)
        /\ ~flush => cb.pc = "push" /\ edits = cb.edits /\ ~sync
        /\ \A q \in Params : cb'.retained[q] =
               IF flush /\ edits[q] # 0 THEN 0 ELSE cb.retained[q]
        /\ ~flush => cb'.retained = cb.retained
        /\ shared'.lastEdit = IF Edited(edits) = {} THEN shared.lastEdit
                              ELSE published + 1
        /\ UNCHANGED <<snap, clock.generation, shared.fault>>
    BY <2>s DEF Sends
  <2>2. Newest /\ snap' = snap /\ shared'.lastEdit \in {shared.lastEdit, published + 1}
    BY <2>1 DEF Newest
  <2>3. CASE edits[p] # 0
    <3>1. shared'.lastEdit = published + 1
      BY <2>1, <2>3 DEF Edited
    <3> QED
      BY <1>f, <1>s, <2>2, <3>1 DEF Shown
  <2>4. CASE edits[p] = 0
    <3>1. cb'.retained[p] = cb.retained[p]
      BY <2>1, <2>4
    <3>2. snap.through < shared.lastEdit => snap.through < shared'.lastEdit
      BY <1>f, <1>s, <2>2
    <3> QED
      BY <1>l, <2>1, <2>2, <3>1, <3>2 DEF Shown
  <2> QED
    BY <1>v, <2>s, <2>3, <2>4 DEF Sends, Values
<1>6. CASE EndCapture
  <2>1. /\ w.pc = "top" /\ Healthy
        /\ snap'.generation =
               IF (mbox.op = 16 => shared.pending = 0) THEN clock.generation ELSE snap.generation
        /\ snap'.through =
               IF (mbox.op = 16 => shared.pending = 0) THEN mbox.barrier ELSE snap.through
        /\ snap'.bytes =
               IF (mbox.op = 16 => shared.pending = 0) THEN peer.capture.bytes ELSE snap.bytes
        /\ Fenced /\ mbox.op = 16 /\ mbox.st = "asked" /\ peer.capture.st = "done"
        /\ UNCHANGED <<clock, shared.lastEdit, cb, shared.fault>>
    BY <1>6, EndCaptureEffect
  <2>2. CASE ~(mbox.op = 16 => shared.pending = 0)
    <3>1. Newest /\ snap'.bytes = snap.bytes /\ snap'.through = snap.through
      BY <2>1, <2>2 DEF Newest
    <3> QED
      BY <1>l, <2>1, <3>1 DEF Shown
  <2>3. CASE mbox.op = 16 /\ shared.pending = 0
    <3>1. /\ snap'.bytes[p] = peer.capture.bytes[p] /\ snap'.through = mbox.barrier
          /\ shared'.lastEdit = shared.lastEdit
      BY <2>1, <2>3
    <3>2. Live /\ s <= cb.retained[p] => Shown(p, s)'
      BY <1>l, <2>1 DEF Shown
    <3>3. s <= peer.capture.bytes[p] \/ mbox.barrier < shared.lastEdit \/ (Live /\ s <= cb.retained[p])
      <4>1. mbox.barrier + Len(Upcoming) <= published /\ w.item.edits[p] = 0
        BY <1>h, <1>v, <2>1, FencedMeans DEF CaptureFenced
      <4>2. CASE s <= plugin[p]
        BY <1>f, <1>v, <1>h, <2>1, <4>2 DEF CaptureShows
      <4>3. ASSUME NEW i \in 1 .. Len(Upcoming), s # 0, s <= Upcoming[i].edits[p]
            PROVE  mbox.barrier < shared.lastEdit
        <5>1. published + i <= shared.lastEdit + Len(Upcoming)
          BY <1>v, <1>h, <4>3 DEF LastAt
        <5> QED
          BY <1>f, <1>v, <4>1, <5>1
      <4> QED
        BY <1>v, <4>1, <4>2, <4>3 DEF Held
    <3> QED
      BY <1>f, <3>1, <3>2, <3>3 DEF Shown
  <2> QED
    BY <2>1, <2>2, <2>3
<1>7. CASE ComponentState
  <2>1. /\ w.pc = "top" /\ Healthy
        /\ snap'.generation =
               IF (mbox.op = 16 => shared.pending = 0) THEN clock.generation ELSE snap.generation
        /\ snap'.through =
               IF (mbox.op = 16 => shared.pending = 0) THEN mbox.barrier ELSE snap.through
        /\ snap'.bytes = IF (mbox.op = 16 => shared.pending = 0) THEN plugin' ELSE snap.bytes
        /\ mbox.op = 18 => \A q \in Params : plugin'[q] = mbox.stamp
        /\ mbox.op # 18 => plugin' = plugin
        /\ Fenced /\ mbox.st = "asked" /\ mbox.op \in {16, 18}
        /\ UNCHANGED <<clock, shared.lastEdit, cb, shared.fault>>
    BY <1>7, ComponentStateEffect
  <2>2. CASE ~(mbox.op = 16 => shared.pending = 0)
    <3>1. Newest /\ snap'.bytes = snap.bytes /\ snap'.through = snap.through
      BY <2>1, <2>2 DEF Newest
    <3> QED
      BY <1>l, <2>1, <3>1 DEF Shown
  <2>3. CASE mbox.op = 16 /\ shared.pending = 0
    <3>1. /\ snap'.bytes[p] = plugin[p] /\ snap'.through = mbox.barrier
          /\ shared'.lastEdit = shared.lastEdit
      BY <2>1, <2>3
    <3>2. Live /\ s <= cb.retained[p] => Shown(p, s)'
      BY <1>l, <2>1 DEF Shown
    <3>3. s <= plugin[p] \/ mbox.barrier < shared.lastEdit \/ (Live /\ s <= cb.retained[p])
      <4>1. mbox.barrier + Len(Upcoming) <= published /\ w.item.edits[p] = 0
        BY <1>v, <2>1, FencedMeans
      <4>2. ASSUME NEW i \in 1 .. Len(Upcoming), s # 0, s <= Upcoming[i].edits[p]
            PROVE  mbox.barrier < shared.lastEdit
        <5>1. published + i <= shared.lastEdit + Len(Upcoming)
          BY <1>v, <1>h, <4>2 DEF LastAt
        <5> QED
          BY <1>f, <1>v, <4>1, <5>1
      <4> QED
        BY <1>v, <4>1, <4>2 DEF Held
    <3> QED
      BY <1>f, <3>1, <3>2, <3>3 DEF Shown
  <2>4. CASE mbox.op = 18
    <3>1. snap'.bytes[p] = clock.stamps
      BY <1>t, <2>1, <2>4 DEF CallInv
    <3> QED
      BY <3>1 DEF Shown
  <2> QED
    BY <2>1, <2>2, <2>3, <2>4
<1>8. CASE CaptureInAudio
  <2>1. /\ w.pc = "audio" /\ Healthy
        /\ snap'.generation =
               IF (mbox.op = 16 => shared.pending = 0) THEN clock.generation ELSE snap.generation
        /\ snap'.through =
               IF (mbox.op = 16 => shared.pending = 0) THEN mbox.barrier ELSE snap.through
        /\ snap'.bytes =
               IF (mbox.op = 16 => shared.pending = 0) THEN peer.capture.bytes ELSE snap.bytes
        /\ mbox.op = 16 /\ peer.capture.st = "done"
        /\ UNCHANGED <<clock, shared.lastEdit, cb, shared.fault>>
    BY <1>8, CaptureInAudioEffect
  <2>2. CASE ~(mbox.op = 16 => shared.pending = 0)
    <3>1. Newest /\ snap'.bytes = snap.bytes /\ snap'.through = snap.through
      BY <2>1, <2>2 DEF Newest
    <3> QED
      BY <1>l, <2>1, <3>1 DEF Shown
  <2>3. CASE mbox.op = 16 /\ shared.pending = 0
    <3>1. /\ snap'.bytes[p] = peer.capture.bytes[p] /\ snap'.through = mbox.barrier
          /\ shared'.lastEdit = shared.lastEdit
      BY <2>1, <2>3
    <3>2. Live /\ s <= cb.retained[p] => Shown(p, s)'
      BY <1>l, <2>1 DEF Shown
    <3>3. s <= peer.capture.bytes[p] \/ mbox.barrier < shared.lastEdit \/ (Live /\ s <= cb.retained[p])
      <4>1. mbox.barrier + Len(Upcoming) < published
        BY <1>h, <2>1 DEF CaptureFenced
      <4>2. CASE s <= plugin[p]
        BY <1>f, <1>v, <1>h, <2>1, <4>2 DEF CaptureShows
      <4>3. CASE s # 0 /\ s <= w.item.edits[p]
        <5>1. published <= shared.lastEdit + Len(Upcoming)
          BY <1>v, <1>h, <4>3 DEF LastAt
        <5> QED
          BY <1>f, <1>v, <4>1, <5>1
      <4>4. ASSUME NEW i \in 1 .. Len(Upcoming), s # 0, s <= Upcoming[i].edits[p]
            PROVE  mbox.barrier < shared.lastEdit
        <5>1. published + i <= shared.lastEdit + Len(Upcoming)
          BY <1>v, <1>h, <4>4 DEF LastAt
        <5> QED
          BY <1>f, <1>v, <4>1, <5>1
      <4> QED
        BY <1>v, <4>2, <4>3, <4>4 DEF Held
    <3> QED
      BY <1>f, <3>1, <3>2, <3>3 DEF Shown
  <2> QED
    BY <2>1, <2>2, <2>3
<1>9. CASE Recover
  <2>1. /\ shared.fault = "outside" /\ snap.generation # 0
        /\ clock'.generation = clock.generation + 1 /\ cb'.retained = NoEdits
        /\ shared'.lastEdit = 0 /\ shared'.fault = "none" /\ UNCHANGED <<snap>>
    BY <1>9, RecoverEffect
  <2> QED
    BY <2>1 DEF Healthy
<1> QED
  BY <1>1, <1>2, <1>3, <1>4, <1>5, <1>6, <1>7, <1>8, <1>9, ValueMoves, ClockMoves,
     WordMoves, CallbackMoves

\* What a call accepts is shown, or was before.
LEMMA AcceptedShown ==
    ASSUME IInv, Next, Newest', NEW p \in Params, NEW s \in Nat, s = accepted'[p]
    PROVE  Shown(p, s)' \/ (Healthy /\ s <= clock.stamps /\ Held(p, s) /\ (Newest => Shown(p, s)))
<1>t. Typed /\ HeldInv /\ StampInv /\ SnapInv
  BY DEF IInv
<1>f. /\ snap.generation \in Nat /\ clock.generation \in Nat \ {0}
      /\ clock.generation + 1 \in Nat \ {0}
  BY <1>t, SnapFields, ClockFields
<1>v. /\ cb.edits[p] \in Nat /\ cb.retained[p] \in Nat /\ accepted[p] \in Nat
      /\ snap.bytes[p] \in Nat
  BY <1>t, ValuesAt
<1>h. Healthy => /\ accepted[p] <= clock.stamps /\ Held(p, accepted[p])
                 /\ Sent => cb.edits[p] <= clock.stamps /\ Held(p, cb.edits[p])
  BY <1>t DEF HeldInv, StampInv, StampAt
<1>w. /\ Newest => Shown(p, accepted[p]) /\ (Sent => Shown(p, cb.edits[p]))
      /\ Newest => snap.through <= published
      /\ snap.generation <= clock.generation
  BY <1>t DEF SnapInv, SnapShows, SnapBehind
<1>1. CASE UNCHANGED <<accepted, shared.fault>>
  BY <1>t, <1>1, <1>v, <1>h, <1>w DEF Healthy, Newest
<1>2. CASE Fault
  BY <1>t, <1>f, <1>v, <1>h, <1>w, <1>2, FaultEffect DEF Healthy, Newest
<1>3. CASE Retain
  <2>1. /\ cb.pc = "ready" /\ Healthy
        /\ \A q \in Params : accepted'[q] = IF cb.edits[q] # 0 THEN cb.edits[q] ELSE accepted[q]
        /\ UNCHANGED <<shared.fault>>
    BY <1>3, RetainEffect
  <2>2. CASE cb.edits[p] = 0
    BY <1>h, <1>w, <2>1, <2>2
  <2>3. CASE cb.edits[p] # 0
    <3>1. cb'.retained[p] = s /\ Live /\ cb'.rev = cb.rev /\ UNCHANGED <<mbox, shared.revision>>
      BY <2>1, <2>3, <1>3, RetainEffect, BusyMeans
    <3> QED
      BY <1>v, <2>1, <3>1 DEF Shown, Live, Restoring
  <2> QED
    BY <2>2, <2>3
<1>4. CASE Drained
  <2>1. /\ cb.pc = "drain" /\ Healthy
        /\ cb.flush => accepted' = accepted
        /\ ~cb.flush => \A q \in Params : accepted'[q] =
               IF cb.edits[q] # 0 THEN cb.edits[q] ELSE accepted[q]
        /\ UNCHANGED <<shared>>
    BY <1>4, DrainedEffect
  <2>2. CASE cb.flush
    BY <1>h, <1>w, <2>1, <2>2
  <2>3. CASE ~cb.flush
    <3>1. Sent
      BY <2>1, <2>3 DEF Sent
    <3> QED
      BY <1>h, <1>w, <2>1, <2>3, <3>1
  <2> QED
    BY <2>2, <2>3
<1>5. CASE AnswerStarting
  <2>1. /\ Healthy /\ cb.pc = "idle" /\ mbox.st = "answered"
        /\ mbox.op = 18 => \A q \in Params : accepted'[q] = mbox.stamp
        /\ mbox.op # 18 => accepted' = accepted
        /\ UNCHANGED <<shared.fault>>
    BY <1>5, AnswerStartingEffect
  <2>2. CASE mbox.op = 18
    <3>1. snap'.bytes[p] = s
      BY <1>t, <2>1, <2>2, <1>5, AnswerStartingEffect DEF SnapInv, RestoreSaved
    <3> QED
      BY <1>v, <3>1 DEF Shown
  <2>3. CASE mbox.op # 18
    BY <1>h, <1>w, <2>1, <2>3
  <2> QED
    BY <2>2, <2>3
<1>6. CASE AnswerOnly
  <2>1. /\ mbox.st = "answered" /\ Healthy
        /\ mbox.op = 18 => \A q \in Params : accepted'[q] = mbox.stamp
        /\ mbox.op # 18 => accepted' = accepted
        /\ UNCHANGED <<shared>>
    BY <1>6, AnswerOnlyEffect
  <2>2. CASE mbox.op = 18
    <3>1. snap'.bytes[p] = s
      BY <1>t, <2>1, <2>2, <1>6, AnswerOnlyEffect DEF SnapInv, RestoreSaved
    <3> QED
      BY <1>v, <3>1 DEF Shown
  <2>3. CASE mbox.op # 18
    BY <1>h, <1>w, <2>1, <2>3
  <2> QED
    BY <2>2, <2>3
<1>7. CASE Recover
  <2>1. /\ shared.fault = "outside" /\ accepted' = snap.bytes /\ shared'.fault = "none"
    BY <1>7, RecoverEffect
  <2>2. ~Newest'
    BY <1>w, <1>f, <1>7, RecoverEffect DEF Newest
  <2> QED
    BY <2>2
<1> QED
  BY <1>1, <1>2, <1>3, <1>4, <1>5, <1>6, <1>7, ValueMoves, WordMoves

\* What a block has sent is shown, or was before.
LEMMA SentShown ==
    ASSUME IInv, Next, Newest', Sent', NEW p \in Params, NEW s \in Nat, s = cb'.edits[p]
    PROVE  Shown(p, s)' \/ (Healthy /\ s <= clock.stamps /\ Held(p, s) /\ (Newest => Shown(p, s)))
<1>t. Typed /\ HeldInv /\ StampInv /\ SnapInv /\ BoundsInv
  BY DEF IInv
<1>f. /\ cb.flush \in BOOLEAN /\ published + 1 \in Nat /\ snap.through \in Nat
      /\ published \in Nat
  BY <1>t, CallbackFields, QueueFields, SnapFields
<1>v. /\ cb.edits[p] \in Nat /\ snap.bytes[p] \in Nat
  BY <1>t, ValuesAt
<1>h. Healthy => /\ accepted[p] <= clock.stamps /\ Held(p, accepted[p])
                 /\ Sent => cb.edits[p] <= clock.stamps /\ Held(p, cb.edits[p])
  BY <1>t DEF HeldInv, StampInv, StampAt
<1>w. /\ Newest => Shown(p, accepted[p]) /\ (Sent => Shown(p, cb.edits[p]))
      /\ Newest => snap.through <= published
      /\ snap.generation <= clock.generation
  BY <1>t DEF SnapInv, SnapShows, SnapBehind
<1>1. CASE UNCHANGED <<cb.pc, cb.flush, cb.edits, shared.fault>>
  BY <1>t, <1>1, <1>v, <1>h, <1>w DEF Healthy, Sent, Newest
<1>2. CASE Process \/ Retain \/ Ready
  BY <1>t, <1>f, <1>v, <1>h, <1>w, <1>2, ProcessEffect, RetainEffect, ReadyEffect
     DEF Healthy, Sent, Newest
<1>3. CASE Flushed \/ Drained \/ Fault \/ Recover
  BY <1>t, <1>f, <1>v, <1>h, <1>w, <1>3, FlushedEffect, DrainedEffect, FaultEffect,
     RecoverEffect DEF Healthy, Sent, Newest
<1>4. CASE Sending
  <2>s. PICK edits \in Values, sync \in BOOLEAN, flush \in BOOLEAN :
           Sends(edits, sync, flush)
    BY <1>4, SendEffect
  <2>1. /\ Healthy
        /\ flush => /\ cb.pc = "replay" /\ ~Nothing /\ Edited(edits) # {}
                    /\ Edited(edits) \subseteq Edited(cb.retained)
                    /\ \A q \in Params : edits[q] \in {0, cb.retained[q]}
                    /\ sync <=> Edited(cb.retained) = Edited(edits)
        /\ ~flush => cb.pc = "push" /\ edits = cb.edits /\ ~sync
        /\ cb'.pc = "drain"
        /\ cb'.flush <=> flush
        /\ shared'.lastEdit = IF Edited(edits) = {} THEN shared.lastEdit
                              ELSE published + 1
        /\ UNCHANGED <<cb.edits, shared.fault>>
    BY <2>s DEF Sends
  <2>2. ~flush /\ s = edits[p] /\ snap' = snap /\ Newest
    BY <2>1, <2>s DEF Sent, Sends, Newest
  <2>3. CASE s = 0
    BY <1>v, <2>2, <2>3 DEF Shown
  <2>4. CASE s # 0
    <3>1. shared'.lastEdit = published + 1
      BY <2>1, <2>2, <2>4 DEF Edited
    <3> QED
      BY <1>f, <1>w, <2>2, <3>1 DEF Shown
  <2> QED
    BY <2>3, <2>4
<1> QED
  BY <1>1, <1>2, <1>3, <1>4, CallbackMoves, WordMoves

\* The newest snapshot holds or discloses every accepted edit.
LEMMA ShowsStayed ==
    ASSUME IInv, Next, NEW p \in Params
    PROVE  SnapShows(p)'
<1> SUFFICES ASSUME Newest'
             PROVE  Shown(p, accepted[p])' /\ (Sent' => Shown(p, cb.edits[p])')
  BY DEF SnapShows
<1>1. accepted'[p] \in Nat /\ cb'.edits[p] \in Nat
  BY StepTyped, ValuesAtNext
<1>2. Shown(p, accepted[p])'
  <2> PICK s \in Nat : s = accepted'[p]
    BY <1>1
  <2>1. Shown(p, s)'
    BY AcceptedShown, ShownStays
  <2> QED
    BY <2>1 DEF Shown
<1>3. ASSUME Sent' PROVE Shown(p, cb.edits[p])'
  <2> PICK s \in Nat : s = cb'.edits[p]
    BY <1>1
  <2>1. Shown(p, s)'
    BY <1>3, SentShown, ShownStays
  <2> QED
    BY <2>1 DEF Shown
<1> QED
  BY <1>2, <1>3

\* A snapshot is not newer than its instance.
LEMMA BehindKept ==
    ASSUME IInv, Next PROVE SnapBehind'
<1>t. Typed /\ SnapInv /\ CallInv
  BY DEF IInv
<1>f. /\ published + 1 \in Nat /\ mbox.barrier \in Nat /\ snap.generation \in Nat
      /\ snap.through \in Nat /\ clock.generation \in Nat \ {0}
      /\ clock.generation + 1 \in Nat \ {0} /\ published \in Nat
  BY <1>t, QueueFields, MailFields, SnapFields, ClockFields
<1>s. snap.generation <= clock.generation /\ (Newest => snap.through <= published)
  BY <1>t DEF SnapInv, SnapBehind
<1>1. CASE UNCHANGED <<snap.generation, snap.through, clock.generation, published,
                      shared.fault>>
  BY <1>t, <1>1, <1>f, <1>s DEF Healthy, SnapBehind, Newest
<1>2. CASE Sending
  BY <1>t, <1>f, <1>s, <1>2, SendEffect DEF Healthy, SnapBehind, Newest, Sends
<1>3. CASE TurnOn
  BY <1>t, <1>f, <1>s, <1>3, TurnOnEffect DEF Healthy, SnapBehind, Newest
<1>4. CASE AnswerStarting
  BY <1>t, <1>f, <1>s, <1>4, AnswerStartingEffect DEF Healthy, SnapBehind, Newest
<1>5. CASE TurnOff
  BY <1>t, <1>f, <1>s, <1>5, TurnOffEffect DEF Healthy, SnapBehind, Newest
<1>6. CASE RestoreRunning
  BY <1>t, <1>f, <1>s, <1>6, RestoreRunningEffect DEF Healthy, SnapBehind, Newest
<1>7. CASE Fault \/ Recover
  BY <1>t, <1>f, <1>s, <1>7, FaultEffect, RecoverEffect DEF Healthy, SnapBehind, Newest
<1>8. CASE EndCapture \/ ComponentState \/ CaptureInAudio
  BY <1>t, <1>f, <1>s, <1>8, EndCaptureEffect, ComponentStateEffect,
     CaptureInAudioEffect DEF Healthy, SnapBehind, Newest, CallInv
<1> QED
  BY <1>1, <1>2, <1>3, <1>4, <1>5, <1>6, <1>7, <1>8, ValueMoves, ClockMoves,
     LineMoves, WordMoves

\* A restore that is answered is the snapshot and the plug-in.
LEMMA RestoreKept ==
    ASSUME IInv, Next PROVE RestoreSaved'
<1>t. Typed /\ SnapInv /\ OrderInv
  BY DEF IInv
<1>f. /\ mbox.stamp \in Nat
  BY <1>t, MailFields
<1>1. CASE UNCHANGED <<snap.generation, snap.bytes, clock.generation, mbox.st, mbox.op,
                      mbox.stamp, plugin, shared.fault>>
  BY <1>t, <1>1 DEF Healthy, RestoreSaved, SnapInv
<1>2. CASE AnswerStarting \/ Admit \/ AnswerOnly \/ EndCapture
  BY <1>t, <1>f, ValuesAt, <1>2, AnswerStartingEffect, AdmitEffect, AnswerOnlyEffect,
     EndCaptureEffect DEF Healthy, RestoreSaved, SnapInv
<1>3. CASE ComponentState \/ CaptureInAudio \/ Fault \/ Recover
  BY <1>t, <1>f, ValuesAt, <1>3, ComponentStateEffect, CaptureInAudioEffect,
     FaultEffect, RecoverEffect DEF Healthy, RestoreSaved, SnapInv
<1>4. CASE PeerStep
  BY <1>t, <1>f, ValuesAt, <1>4, PeerEffect DEF Healthy, RestoreSaved, SnapInv, OrderInv,
     ItemOrder
<1> QED
  BY <1>1, <1>2, <1>3, <1>4, ValueMoves, ClockMoves, MailMoves, WordMoves

\* A failure from outside leaves what is confirmed disclosed.
LEMMA DisclosedKept ==
    ASSUME IInv, Next, ~Healthy' PROVE UncapturedDisclosed'
<1>t. Typed
  BY DEF IInv
<1>d. UncapturedDisclosed
  BY Disclosed
<1>1. CASE UNCHANGED <<shared.pending, shared.lastEdit, snap.generation, snap.through,
                      snap.bytes, clock.generation, accepted, shared.fault>>
  BY <1>t, <1>1, <1>d DEF Healthy, UncapturedDisclosed, Uncaptured
<1>2. CASE Process \/ Retain \/ Ready \/ Flushed \/ Drain \/ Drained
  BY <1>t, <1>d, <1>2, ProcessEffect, RetainEffect, ReadyEffect, FlushedEffect,
     DrainEffect, DrainedEffect DEF Healthy, UncapturedDisclosed, Uncaptured
<1>3. CASE AnswerStarting \/ AnswerOnly \/ EndCapture \/ ComponentState
          \/ CaptureInAudio \/ Synced
  BY <1>t, <1>d, <1>3, AnswerStartingEffect, AnswerOnlyEffect, EndCaptureEffect,
     ComponentStateEffect, CaptureInAudioEffect, SyncedEffect
  DEF Healthy, UncapturedDisclosed, Uncaptured
<1>4. CASE Sending
  BY <1>t, <1>d, <1>4, SendEffect DEF Healthy, UncapturedDisclosed, Uncaptured, Sends
<1>5. CASE Fault
  <2>1. /\ Healthy /\ clock.generation <= MaxFaults /\ shared'.fault = "outside"
        /\ UNCHANGED <<shared.pending, shared.lastEdit, snap, clock, accepted>>
    BY <1>5, FaultEffect
  <2>2. /\ shared'.pending = shared.pending /\ shared'.lastEdit = shared.lastEdit
        /\ UNCHANGED <<snap, clock, accepted>>
    BY <1>5, FaultEffect
  <2> QED
    BY <2>2, Disclosed DEF UncapturedDisclosed, Uncaptured
<1>6. CASE Recover
  <2>1. /\ shared.fault = "outside" /\ snap.generation # 0
        /\ clock'.generation = clock.generation + 1 /\ accepted' = snap.bytes
        /\ shared'.pending = 0 /\ shared'.lastEdit = 0 /\ shared'.fault = "none"
        /\ UNCHANGED <<snap>>
    BY <1>6, RecoverEffect
  <2> QED
    BY <1>6, RecoverEffect DEF Healthy
<1> QED
  BY <1>1, <1>2, <1>3, <1>4, <1>5, <1>6, WordMoves, ValueMoves, ClockMoves

\* The snapshot holds or discloses every accepted edit.
LEMMA SnapKept ==
    ASSUME IInv, Next PROVE SnapInv'
  BY ShowsStayed, BehindKept, RestoreKept, DisclosedKept
  DEF SnapInv

\* A block's own request and all its packets keep their room.
LEMMA RoomKept ==
    ASSUME IInv, Next PROVE RoomInv'
<1>t. Typed /\ RoomInv /\ RoomInv
  BY DEF IInv
<1>f. /\ cb.pc \in {"idle", "ready", "replay", "push", "drain"}
      /\ cb.flush \in BOOLEAN /\ cb.retained \in Values /\ clock.requests \in Nat
      /\ clock.requests + 1 \in Nat
  BY <1>t, CallbackFields, ClockFields
<1>r. MaxPublished \in Nat /\ Cardinality(Edited(cb.retained)) \in Nat
  BY <1>t, RoomMeans
<1>1. CASE UNCHANGED <<cb.pc, cb.flush, cb.retained, clock.requests, shared.fault>>
  BY <1>t, <1>1, <1>f, <1>r DEF RoomInv, Healthy, Replaying, Room
<1>2. CASE Retain \/ Ready \/ Flushed \/ Drained \/ TurnOn
  BY <1>t, <1>f, <1>r, <1>2, RetainEffect, ReadyEffect, FlushedEffect, DrainedEffect,
     TurnOnEffect DEF RoomInv, Healthy, Replaying, Room
<1>3. CASE AnswerStarting \/ TurnOff \/ RestoreRunning \/ Fault \/ Recover
  BY <1>t, <1>f, <1>r, <1>3, AnswerStartingEffect, TurnOffEffect,
     RestoreRunningEffect, FaultEffect, RecoverEffect DEF RoomInv, Healthy, Replaying, Room
<1>4. CASE Process
  <2>1. /\ cb.pc = "idle" /\ Healthy /\ cb'.pc = "ready"
        /\ cb'.retained = IF cb.rev # shared.revision THEN NoEdits ELSE cb.retained
        /\ UNCHANGED <<cb.flush, clock.requests, shared.fault>>
    BY <1>4, ProcessEffect
  <2>2. Cardinality(Edited(NoEdits)) = 0
    <3>1. Edited(NoEdits) = {}
      BY DEF Edited, NoEdits
    <3> QED
      BY <3>1, FS_EmptySet
  <2>3. clock'.requests = clock.requests /\ Room
    BY <1>4, ProcessEffect
  <2>4. cb'.retained \in {NoEdits, cb.retained}
    BY <2>1
  <2> QED
    BY <1>f, <1>r, <2>2, <2>3, <2>4 DEF RoomInv, Room
<1>5. CASE Sending
  <2>s. PICK edits \in Values, sync \in BOOLEAN, flush \in BOOLEAN :
           Sends(edits, sync, flush)
    BY <1>5, SendEffect
  <2>1. /\ Healthy
        /\ flush => /\ cb.pc = "replay" /\ ~Nothing /\ Edited(edits) # {}
                    /\ Edited(edits) \subseteq Edited(cb.retained)
                    /\ \A p \in Params : edits[p] \in {0, cb.retained[p]}
                    /\ sync <=> Edited(cb.retained) = Edited(edits)
        /\ ~flush => cb.pc = "push" /\ edits = cb.edits /\ ~sync
        /\ cb'.pc = "drain"
        /\ cb'.flush <=> flush
        /\ \A p \in Params : cb'.retained[p] =
               IF flush /\ edits[p] # 0 THEN 0 ELSE cb.retained[p]
        /\ ~flush => cb'.retained = cb.retained
        /\ clock'.requests = clock.requests + 1 /\ UNCHANGED <<shared.fault>>
    BY <2>s DEF Sends
  <2>2. CASE ~flush
    BY <2>1, <2>2 DEF RoomInv, Replaying
  <2>3. CASE flush
    <3>1. PICK q \in Params : edits[q] # 0
      BY <2>1, <2>3 DEF Edited
    <3>2. /\ cb'.retained[q] = 0 /\ cb.retained[q] # 0
          /\ \A p \in Params : cb'.retained[p] # 0 => cb.retained[p] # 0
      BY <2>1, <2>3, <3>1 DEF Edited
    <3>3. cb'.retained \in Values
      BY StepTyped DEF Typed, Callbacks
    <3>4. /\ Cardinality(Edited(cb'.retained)) \in Nat
          /\ Cardinality(Edited(cb'.retained)) + 1 <= Cardinality(Edited(cb.retained))
      BY <1>f, <3>1, <3>2, <3>3, FewerEdited
    <3>5. Room /\ clock'.requests = clock.requests + 1
      BY <1>t, <2>1, <2>3 DEF RoomInv, Replaying
    <3> QED
      BY <1>f, <1>r, <3>4, <3>5 DEF RoomInv, Room
  <2> QED
    BY <2>2, <2>3
<1> QED
  BY <1>1, <1>2, <1>3, <1>4, <1>5, CallbackMoves, ClockMoves, WordMoves

\* The plug-in's values never go back, except by recovery.
LEMMA PluginGrows ==
    ASSUME IInv, Next, NEW p \in Params
    PROVE  clock'.generation # clock.generation \/ plugin[p] <= plugin'[p]
<1>t. Typed /\ OrderInv /\ StampInv
  BY DEF IInv
<1>f. /\ clock.generation \in Nat \ {0} /\ clock.generation + 1 \in Nat \ {0}
  BY <1>t, ClockFields
<1>v. /\ plugin[p] \in Nat /\ w.item.edits[p] \in Nat
  BY <1>t, ValuesAt
<1>1. CASE UNCHANGED <<plugin, clock.generation, shared.fault>>
  BY <1>t, <1>1, <1>f, <1>v DEF Healthy
<1>2. CASE PeerStep
  BY <1>t, <1>f, <1>v, <1>2, PeerEffect DEF Healthy, OrderInv, ItemOrder
<1>3. CASE Recover
  BY <1>t, <1>f, <1>v, <1>3, RecoverEffect DEF Healthy
<1>4. CASE ComponentState
  <2>1. /\ w.pc = "top" /\ Healthy
        /\ mbox.op = 18 => \A q \in Params : plugin'[q] = mbox.stamp
        /\ mbox.op # 18 => plugin' = plugin
        /\ mbox.st = "asked" /\ UNCHANGED <<clock, shared.fault>>
    BY <1>4, ComponentStateEffect
  <2>2. CASE mbox.op = 18
    <3>1. plugin'[p] = clock.stamps /\ plugin[p] <= clock.stamps
      BY <1>t, <2>1, <2>2, <1>4, ComponentStateEffect DEF IInv, CallInv, StampInv, StampAt
    <3> QED
      BY <3>1
  <2>3. CASE mbox.op # 18
    BY <1>v, <2>1, <2>3
  <2> QED
    BY <2>2, <2>3
<1>5. CASE Fault
  <2>1. /\ Healthy /\ clock.generation <= MaxFaults /\ shared'.fault = "outside"
        /\ UNCHANGED <<plugin, clock>>
    BY <1>5, FaultEffect
  <2> QED
    BY <1>v, <1>5, FaultEffect
<1> QED
  BY <1>1, <1>2, <1>3, <1>4, <1>5, ValueMoves, ClockMoves, WordMoves

-----------------------------------------------------------------------------
(* The invariant                                                           *)

\* The initial states have it.
LEMMA InitInv ==
    ASSUME Init PROVE IInv
<1>1. /\ Upcoming = <<>> /\ Len(Upcoming) = 0 /\ Healthy
      /\ AheadEpoch = 0 /\ AheadOpen = 0 /\ Nothing
  <2>1. Upcoming = <<>> /\ Len(Upcoming) = 0
    BY ConcatEmptySeq DEF Init, Upcoming, NewWorker
  <2>2. Nothing
    BY DEF Init, NewCallback, Nothing, Edited, NoEdits
  <2> QED
    BY <2>1, <2>2 DEF Init, Healthy, NewShared, AheadEpoch, AheadOpen, Between, NewWorker, Open
<1>2. /\ cb.pc = "idle" /\ cb.epoch = 0 /\ ~cb.running /\ cb.sync = 0 /\ cb.rev = 0
      /\ cb.flush = FALSE
      /\ cb.submitted = 0 /\ cb.completed = 0 /\ cb.retained = NoEdits /\ cb.edits = NoEdits
  BY DEF Init, NewCallback
<1>3. /\ ctl = IdleControl /\ ctl.pc = "idle" /\ ctl.op = 0 /\ ctl.stamp = 0
      /\ ctl.covers = NoEdits
  BY DEF Init, IdleControl
<1>4. /\ w.pc = "top" /\ w.item = NoItem /\ w.deferred = <<>> /\ ~w.overlap
      /\ w.item.kind = "none" /\ w.item.epoch = 0 /\ w.item.ticket = 0
      /\ w.item.edits = NoEdits /\ ~w.item.sync
  BY DEF Init, NewWorker, NoItem, Item
<1>5. /\ shared.pending = 0 /\ shared.revision = 0 /\ shared.ready = 0 /\ shared.wanted = 0
      /\ shared.lastEdit = 0 /\ shared.fault = "none"
  BY DEF Init, NewShared
<1>6. /\ mbox.st = "none" /\ mbox.op = 0 /\ mbox.stamp = 0 /\ mbox.bytes = NoEdits
      /\ peer.start = "none" /\ peer.capture = NoCapture /\ peer.capture.st = "none"
      /\ peer.capture.bytes = NoEdits /\ ~peer.applied
  BY DEF Init, NoMail, NewPeer, NoCapture
<1>7. /\ requests = <<>> /\ Len(requests) = 0 /\ published = 0 /\ results = <<>>
      /\ Len(results) = 0
      /\ ~session.running /\ session.epoch = 0 /\ plugin = NoEdits /\ accepted = NoEdits
      /\ snap.generation = 0 /\ snap.bytes = NoEdits
  BY DEF Init
<1>8. /\ clock.stamps = 0 /\ clock.starts = 0 /\ clock.requests = 0 /\ clock.generation = 1
      /\ MaxPublished \in Nat /\ MaxEpochs \in Nat /\ MaxStamps \in Nat
  BY DeliveryAssumption DEF Init
<1>9. \A p \in Params : NoEdits[p] = 0
  BY DEF NoEdits
<1>10. Typed
  <2>1. /\ <<>> \in Seq(Items) /\ <<>> \in Seq(Results) /\ w.deferred = <<>>
        /\ Len(w.deferred) = 0 /\ NoEdits \in Values
    BY <1>4, ValuesMade
  <2>2. /\ cb \in Callbacks /\ ctl \in Calls /\ w \in Workers /\ shared \in Words
        /\ mbox \in Mails /\ peer \in Peers
    BY <2>1, InitialsTyped DEF Init
  <2> QED
    BY <2>1, <2>2
    DEF Init, Typed, Sessions,
        Snapshots, Clocks
<1>11. BoundsInv /\ StampInv
  BY <1>1, <1>2, <1>3, <1>4, <1>5, <1>6, <1>7, <1>8, <1>9
  DEF BoundsInv, ClockBounds, CallbackBounds, LineBounds, WordBounds, RevisionBounds, StampInv,
      StampAt
<1>12. FaultInv /\ CallInv /\ CallbackInv /\ WorkerInv /\ BareInv /\ DeferredInv
  BY <1>1, <1>2, <1>3, <1>4, <1>5, <1>6, <1>7
  DEF FaultInv, CallInv, CallbackInv, WorkerInv, BareInv, Bare, DeferredInv, Between,
     Starting, Open
<1>13. LineInv /\ TicketInv
  BY <1>1, <1>2, <1>4, <1>5, <1>7
  DEF LineInv, Leads, Open, TicketInv, RequestTickets, CountTickets, ResultTickets, InHands
<1>14. ReadyInv /\ AckInv /\ KeptInv /\ PendingInv
  BY <1>1, <1>2, <1>4, <1>5
  DEF ReadyInv, AckInv, KeptInv, PendingInv, Past, Sent, Replaying
<1>15. OrderInv /\ HeldInv /\ CoverInv /\ CaptureInv /\ LastInv
  BY <1>1, <1>2, <1>3, <1>4, <1>6, <1>7, <1>9
  DEF OrderInv, ItemOrder, LineOrder, KeptOrder, DoneOrder, OwnOrder, HeldInv, Held, Sent,
      CoverInv, CaptureInv, CaptureFenced, CaptureShows, LastInv, LastAt
<1>16. SnapInv /\ RoomInv /\ StartSeesRequests
  BY <1>1, <1>2, <1>4, <1>6, <1>7, <1>8, <1>9
  DEF SnapInv, SnapBehind, SnapShows, RestoreSaved, Newest, RoomInv, Replaying,
      StartSeesRequests
<1> QED
  BY <1>10, <1>11, <1>12, <1>13, <1>14, <1>15, <1>16 DEF IInv

\* A step that changes nothing keeps it.
LEMMA StutterInv ==
    ASSUME IInv, UNCHANGED vars PROVE IInv'
<1>1. /\ UNCHANGED <<mode, cb, ctl, w, requests, published, results, shared>>
      /\ UNCHANGED <<mbox, session, peer, plugin, snap, clock, accepted>>
  BY DEF vars
<1>2. UNCHANGED <<Upcoming, AheadEpoch, AheadOpen, InHands, Nothing, Prepared, Live, Healthy>>
  BY <1>1
  DEF Upcoming, AheadEpoch, AheadOpen, InHands, Nothing, Prepared, Live, Restoring, Healthy
<1>3. Typed' /\ BoundsInv' /\ StampInv'
  <2>1. Typed'
    BY <1>1
    DEF IInv, Typed
  <2>2. BoundsInv'
    BY <1>1, <1>2
    DEF IInv, BoundsInv, ClockBounds, CallbackBounds, LineBounds, WordBounds, RevisionBounds
  <2>3. StampInv'
    BY <1>1, <1>2 DEF IInv, StampInv, StampAt
  <2> QED
    BY <2>1, <2>2, <2>3
<1>4. FaultInv' /\ CallInv' /\ CallbackInv' /\ WorkerInv' /\ BareInv' /\ DeferredInv'
  BY <1>1, <1>2
  DEF IInv, FaultInv, CallInv, CallbackInv, WorkerInv, BareInv, DeferredInv, consumed
<1>5. LineInv' /\ TicketInv'
  BY <1>1, <1>2 DEF IInv, LineInv, TicketInv, RequestTickets, CountTickets, ResultTickets
<1>6. ReadyInv' /\ AckInv' /\ KeptInv' /\ PendingInv'
  BY <1>1, <1>2 DEF IInv, ReadyInv, AckInv, KeptInv, PendingInv, AcksAhead, Sent, Replaying
<1>7. OrderInv' /\ HeldInv' /\ CaptureInv' /\ LastInv'
  BY <1>1, <1>2
  DEF IInv, OrderInv, ItemOrder, LineOrder, KeptOrder, DoneOrder, OwnOrder, HeldInv, Held, Sent,
      CaptureInv, CaptureFenced, CaptureShows, LastInv, LastAt
<1>8. CoverInv'
  BY <1>1, <1>2 DEF IInv, CoverInv, CoverLine, CoverTaken, CoverSaved, Before
<1>9. SnapInv' /\ RoomInv' /\ StartSeesRequests'
  BY <1>1, <1>2
  DEF IInv, SnapInv, SnapBehind, SnapShows, Shown, Sent, RestoreSaved, Newest,
      UncapturedDisclosed, Uncaptured, RoomInv, Room, Replaying, StartSeesRequests
<1> QED
  BY <1>3, <1>4, <1>5, <1>6, <1>7, <1>8, <1>9 DEF IInv

\* Every step keeps it.
LEMMA NextInv ==
    ASSUME IInv, Next PROVE IInv'
  BY StepTyped, BoundsKept, StampKept, FaultKept, CallKept, CallbackKept, WorkerKept, BareKept,
     DeferredKept, LeadsKept, TicketKept, ReadyKept, AckKept, KeptKept, PendingKept, OrderKept,
     HeldKept, CoverKept, CaptureKept, LastKept, SnapKept, RoomKept, StartSeesKept
  DEF IInv

\* The inductive invariant holds of every reachable state.
LEMMA Invariance == Spec => []IInv
<1>1. Init => IInv
  BY InitInv
<1>2. IInv /\ [Next]_vars => IInv'
  BY NextInv, StutterInv
<1> QED
  BY <1>1, <1>2, PTL DEF Spec

-----------------------------------------------------------------------------
(* The properties                                                          *)

\* A request that acknowledges is in the worker's hands, put back or queued.
LEMMA AcksWhere ==
    ASSUME Typed, NEW e, AcksAhead(e)
    PROVE  \E item \in {w.item} \cup Range(w.deferred) \cup Range(requests) :
               item.sync /\ item.epoch = e
<1>1. CASE Acks(w.item, e)
  BY <1>1 DEF Acks
<1>2. ASSUME NEW i \in 1 .. Len(Upcoming), Acks(Upcoming[i], e)
      PROVE  \E item \in Range(w.deferred) \cup Range(requests) :
                 item.sync /\ item.epoch = e
  <2>1. w.deferred \in Seq(Items) /\ requests \in Seq(Items)
    BY WorkerFields, QueueFields
  <2>2. CASE i <= Len(w.deferred)
    <3>1. i \in DOMAIN w.deferred /\ Upcoming[i] = w.deferred[i]
      BY <1>2, <2>1, <2>2 DEF Upcoming
    <3> QED
      BY <1>2, <3>1 DEF Acks, Range
  <2>3. CASE i > Len(w.deferred)
    <3>1. /\ i - Len(w.deferred) \in DOMAIN requests
          /\ Upcoming[i] = requests[i - Len(w.deferred)]
      BY <1>2, <2>1, <2>3 DEF Upcoming
    <3> QED
      BY <1>2, <3>1 DEF Acks, Range
  <2> QED
    BY <2>1, <2>2, <2>3
<1> QED
  BY <1>1, <1>2 DEF AcksAhead

\* Edits that are pending and no longer retained are in a replay packet that the
\* worker has still to serve (the flush of queued.rs and the acknowledgement of
\* its last packet): a save becomes possible without another callback.
THEOREM PendingIsReplayed == Spec => []PendingHasSync
<1>1. IInv => PendingHasSync
  <2> SUFFICES ASSUME IInv, Healthy, shared.pending # 0, Nothing
               PROVE  \E item \in {w.item} \cup Range(w.deferred) \cup Range(requests) :
                          item.sync /\ item.epoch = shared.pending
    BY DEF PendingHasSync, Nothing
  <2>1. Typed /\ AcksAhead(shared.pending)
    BY DEF IInv, PendingInv
  <2> QED
    BY <2>1, AcksWhere
<1> QED
  BY <1>1, Invariance, PTL

\* The worker never sleeps on a pending start over a published request: the wake
\* word is read before the second look at the queue (poll_start).
THEOREM StartsAreWoken == Spec => []StartSeesRequests
<1>1. IInv => StartSeesRequests
  BY DEF IInv
<1> QED
  BY <1>1, Invariance, PTL

\* A save that succeeds holds every edit and restore that had returned before it
\* was asked for, whichever of the three ways its request is answered (control,
\* complete_control, admitted_control_precedes).
THEOREM SavesCover == Spec => []SaveCovers
<1>1. IInv => SaveCovers
  <2> SUFFICES ASSUME IInv, mbox.st = "answered", mbox.op = 16, NEW p \in Params
               PROVE  mbox.bytes[p] >= ctl.covers[p]
    BY DEF SaveCovers
  <2>1. Healthy /\ ctl.op = 16
    BY DEF IInv, FaultInv, CallInv, NoMail
  <2>2. ctl.covers[p] <= mbox.bytes[p]
    BY <2>1 DEF IInv, CoverInv, CoverSaved
  <2> QED
    BY <2>2, Line, ValuesAt
<1> QED
  BY <1>1, Invariance, PTL

\* A snapshot reported as complete is: recovery from it loses no edit and no
\* restore that returned to the DAW (ap6_snapshot, its "uncaptured" word).
THEOREM SnapshotsDisclose == Spec => []UncapturedDisclosed
<1>1. IInv => UncapturedDisclosed
  BY Disclosed
<1> QED
  BY <1>1, Invariance, PTL

\* No replayed, queued or overlapped edit overwrites a newer edit or a restore;
\* only recovery from a snapshot takes the plug-in back.
THEOREM PluginNeverGoesBack == Spec => NoStaleEdit
<1>1. IInv /\ [Next]_vars =>
          [\/ clock'.generation # clock.generation
           \/ \A p \in Params : plugin'[p] >= plugin[p]]_vars
  <2> SUFFICES ASSUME IInv, Next, clock'.generation = clock.generation, NEW p \in Params
               PROVE  plugin'[p] >= plugin[p]
    OBVIOUS
  <2>1. plugin[p] <= plugin'[p]
    BY PluginGrows
  <2>2. plugin[p] \in Nat /\ plugin'[p] \in Nat
    BY Line, ValuesAt, StepTyped, ValuesAtNext
  <2> QED
    BY <2>1, <2>2
<1> QED
  BY <1>1, Invariance, PTL DEF Spec, NoStaleEdit

\* Every word keeps its type and its bound.
LEMMA TypesBounded ==
    ASSUME IInv PROVE TypeOK
<1>1. Typed /\ BoundsInv /\ StampInv
  BY DEF IInv
<1>2. /\ MaxPublished \in Nat /\ MaxEpochs \in Nat /\ MaxStamps \in Nat
      /\ clock.stamps \in Nat /\ clock.starts \in Nat /\ clock.requests \in Nat
      /\ clock.stamps <= MaxStamps /\ clock.starts <= MaxEpochs
      /\ clock.requests <= MaxPublished
  BY <1>1, RoomMeans, ClockFields DEF BoundsInv, ClockBounds
<1>3. ASSUME NEW a \in Values, \A p \in Params : a[p] <= clock.stamps
      PROVE  a \in Bytes
  <2>1. \A p \in Params : a[p] \in 0 .. MaxStamps
    BY <1>2, <1>3 DEF Values
  <2> QED
    BY <1>3, <2>1 DEF Values, Bytes
<1>4. ASSUME NEW item \in Items, item.epoch <= cb.epoch, item.ticket <= clock.requests,
             \A p \in Params : item.edits[p] <= clock.stamps
      PROVE  item \in Requests
  <2>1. item.edits \in Bytes
    BY <1>3, <1>4 DEF Items
  <2>2. item.epoch \in 0 .. MaxEpochs /\ item.ticket \in 0 .. MaxPublished
    BY <1>1, <1>2, <1>4, CallbackFields DEF Items, BoundsInv, CallbackBounds
  <2> QED
    BY <1>4, <2>1, <2>2 DEF Items, Requests
<1>5. mode \in Modes
  BY <1>1 DEF Typed
<1>6. cb \in [pc : {"idle", "ready", "replay", "push", "drain"},
              epoch : 0 .. MaxEpochs, running : BOOLEAN, retained : Bytes,
              sync : 0 .. MaxPublished, rev : 0 .. MaxStamps,
              submitted : 0 .. MaxPublished, completed : 0 .. MaxPublished,
              edits : Bytes, flush : BOOLEAN]
  <2>1. cb.retained \in Bytes /\ cb.edits \in Bytes
    BY <1>1, <1>3, CallbackFields DEF StampInv, StampAt
  <2>2. cb.epoch \in 0 .. MaxEpochs
    BY <1>1, <1>2, CallbackFields DEF BoundsInv, CallbackBounds
  <2>3. /\ cb.submitted \in 0 .. MaxPublished /\ cb.completed \in 0 .. MaxPublished
        /\ cb.sync \in 0 .. MaxPublished
    BY <1>1, <1>2, CallbackFields DEF BoundsInv, CallbackBounds
  <2>4. cb.rev \in 0 .. MaxStamps
    BY <1>1, <1>2, CallbackFields, SharedFields
    DEF IInv, CallbackInv, BoundsInv, RevisionBounds
  <2> QED
    BY <1>1, <2>1, <2>2, <2>3, <2>4 DEF Typed, Callbacks
<1>7. /\ ctl.pc \in {"idle", "admit", "wait"} /\ ctl.op \in {0, 16, 18}
      /\ ctl.barrier \in 0 .. MaxPublished /\ ctl.covers \in Bytes
  <2>1. ctl.barrier <= published /\ published \in Nat /\ ctl.barrier \in Nat
    BY <1>1, CallFields, QueueFields DEF IInv, CallInv, IdleControl
  <2>2. ctl.barrier \in 0 .. MaxPublished
    BY <1>1, <1>2, <2>1 DEF BoundsInv, LineBounds
  <2>3. ctl.covers \in Bytes
    BY <1>1, <1>3, CallFields DEF StampInv, StampAt
  <2> QED
    BY <1>1, <2>2, <2>3, CallFields
<1>8. w.pc \in Labels /\ w.item \in Requests /\ Len(w.deferred) <= 1
  <2>1. w.item \in Requests
    BY <1>1, <1>4, WorkerFields DEF BoundsInv, LineBounds, WordBounds, StampInv, StampAt
  <2> QED
    BY <1>1, <2>1, WorkerFields DEF Typed
<1>9. \A i \in 1 .. Len(requests) : requests[i] \in Requests
  <2> SUFFICES ASSUME NEW i \in 1 .. Len(requests)
               PROVE  requests[i] \in Requests
    OBVIOUS
  <2>1. requests \in Seq(Items) /\ w.deferred \in Seq(Items)
    BY <1>1, QueueFields, WorkerFields
  <2>2. Healthy
    BY <2>1 DEF IInv, FaultInv
  <2> DEFINE j == Len(w.deferred) + i
  <2>3. j \in 1 .. Len(Upcoming) /\ Upcoming[j] = requests[i]
    BY <2>1 DEF Upcoming
  <2> HIDE DEF j
  <2>4. /\ Upcoming[j] \in Items /\ Upcoming[j].epoch <= cb.epoch
        /\ Upcoming[j].ticket <= clock.requests
        /\ \A p \in Params : Upcoming[j].edits[p] <= clock.stamps
    BY <1>1, <2>2, <2>3, LineFields, LineMembers DEF BoundsInv, LineBounds, StampInv, StampAt
  <2>5. Upcoming[j] \in Requests
    BY <1>4, <2>4
  <2> QED
    BY <2>3, <2>5
<1>10. published \in 0 .. MaxPublished /\ Len(requests) <= published
  <2>1. published \in Nat /\ published <= clock.requests /\ Len(Upcoming) <= published
    BY <1>1, QueueFields DEF BoundsInv, LineBounds
  <2>2. requests \in Seq(Items) /\ w.deferred \in Seq(Items)
    BY <1>1, QueueFields, WorkerFields
  <2>3. Len(requests) <= Len(Upcoming)
    BY <2>2 DEF Upcoming
  <2> QED
    BY <1>2, <2>1, <2>2, <2>3
<1>11. \A i \in 1 .. Len(results) :
         results[i] \in [epoch : 0 .. MaxEpochs, ticket : 0 .. MaxPublished]
  <2> SUFFICES ASSUME NEW i \in 1 .. Len(results)
               PROVE  results[i] \in [epoch : 0 .. MaxEpochs, ticket : 0 .. MaxPublished]
    OBVIOUS
  <2>1. results \in Seq(Results) /\ results[i] \in Results /\ Len(results) \in Nat
    BY <1>1, ResultFields
  <2>2. Healthy /\ results # <<>>
    BY <2>1 DEF IInv, FaultInv
  <2>3. /\ results[i].epoch = cb.epoch /\ results[i].ticket = cb.completed + i
        /\ cb.submitted = cb.completed + Len(results) + Len(Upcoming) + InHands
    BY <2>2 DEF IInv, TicketInv, ResultTickets, CountTickets
  <2>4. /\ cb.completed \in Nat /\ cb.submitted \in Nat /\ Len(Upcoming) \in Nat
        /\ InHands \in Nat /\ cb.epoch \in Nat
    BY <1>1, CallbackFields, LineFields DEF InHands
  <2>5. results[i].ticket <= cb.submitted /\ results[i].ticket \in Nat
    BY <2>1, <2>3, <2>4
  <2>6. cb.epoch <= MaxEpochs /\ cb.submitted <= MaxPublished
    BY <1>1, <1>2, <2>4 DEF BoundsInv, CallbackBounds
  <2>7. results[i].ticket \in 0 .. MaxPublished
    BY <1>2, <2>4, <2>5, <2>6
  <2>8. results[i].epoch \in 0 .. MaxEpochs
    BY <1>2, <2>3, <2>4, <2>6
  <2> QED
    BY <2>1, <2>7, <2>8 DEF Results
<1>12. shared \in [pending : 0 .. MaxEpochs, revision : 0 .. MaxStamps,
                   ready : 0 .. MaxEpochs, wanted : 0 .. MaxEpochs,
                   lastEdit : 0 .. MaxPublished,
                   fault : {"none", "outside", "own"}, hint : BOOLEAN]
  <2>1. cb.epoch \in Nat /\ cb.epoch <= MaxEpochs
    BY <1>1, <1>2, CallbackFields DEF BoundsInv, CallbackBounds
  <2>2. /\ shared.pending \in 0 .. MaxEpochs /\ shared.ready \in 0 .. MaxEpochs
        /\ shared.wanted \in 0 .. MaxEpochs
    BY <1>1, <1>2, <2>1, SharedFields DEF BoundsInv, WordBounds
  <2>3. shared.lastEdit \in 0 .. MaxPublished
    BY <1>1, <1>2, <1>10, SharedFields DEF BoundsInv, WordBounds
  <2>4. shared.revision \in 0 .. MaxStamps
    BY <1>1, <1>2, SharedFields DEF BoundsInv, RevisionBounds
  <2> QED
    BY <1>1, <2>2, <2>3, <2>4 DEF Typed, Words
<1>13. mbox.st \in {"none", "asked", "answered"} /\ mbox.bytes \in Bytes
  BY <1>1, <1>3, MailFields DEF StampInv, StampAt
<1>14. session \in [running : BOOLEAN, epoch : 0 .. MaxEpochs]
  <2>1. session.epoch \in 0 .. MaxEpochs
    BY <1>1, <1>2, SessionFields, CallbackFields DEF BoundsInv, WordBounds, CallbackBounds
  <2> QED
    BY <1>1, <2>1 DEF Typed, Sessions
<1>15. /\ peer.start \in {"none", "asked", "acked"}
       /\ peer.capture.st \in {"none", "taken", "done"}
       /\ plugin \in Bytes /\ accepted \in Bytes /\ snap.bytes \in Bytes
  BY <1>1, <1>3, PeerFields, ValueFields, SnapFields DEF StampInv, StampAt
<1> QED
  BY <1>5, <1>6, <1>7, <1>8, <1>9, <1>10, <1>11, <1>12, <1>13, <1>14, <1>15 DEF TypeOK, Labels

\* The bridge never fails itself: completions come in the order of their tickets
\* (the CORRELATION check), AUDIO meets its session at its epoch, a restore never
\* meets a running one, and every word keeps its type and its bound, whatever the
\* interleaving of callback, owner and worker.
THEOREM BridgeNeverFaultsItself == Spec => []NoOwnFault
<1>1. IInv => NoOwnFault
  <2>1. IInv => shared.fault # "own"
    BY DEF IInv, FaultInv
  <2> QED
    BY <2>1, TypesBounded DEF NoOwnFault
<1> QED
  BY <1>1, Invariance, PTL
=============================================================================
