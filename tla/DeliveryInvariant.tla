-------------------------- MODULE DeliveryInvariant --------------------------
(***************************************************************************)
(* The inductive invariant of Delivery, IInv, from which DeliveryProofs    *)
(* proves what the runs check about edits, saves and restores.             *)
(*                                                                         *)
(* Between the callback and the session lies one line: the request the     *)
(* worker holds, the one it put back, the queue.  The invariant says that  *)
(* the line leads from the session's start to the callback's (LineInv),    *)
(* that its tickets end at the callback's count (TicketInv), that its      *)
(* edits are ordered by their stamps, the plug-in's before and the         *)
(* retained ones after them (OrderInv), that an accepted edit is in the    *)
(* plug-in, in the line or retained (HeldInv), that retained edits keep    *)
(* the epoch pending (KeptInv), and what a save may rely on at the barrier *)
(* (CoverInv, CaptureInv, LastInv, SnapInv).                               *)
(***************************************************************************)
EXTENDS Delivery

\* The values a variable may hold, its bounds left to BoundsInv and StampInv.
Values == [Params -> Nat]
Items == [kind : {"none", "START", "STOP", "AUDIO"}, epoch : Nat, ticket : Nat,
          edits : Values, sync : BOOLEAN]
Callbacks ==
    [pc : {"idle", "ready", "replay", "push", "drain"}, epoch : Nat,
     running : BOOLEAN, retained : Values, sync : Nat, rev : Nat,
     submitted : Nat, completed : Nat, edits : Values, flush : BOOLEAN]
Calls == [pc : {"idle", "admit", "wait"}, op : {0, 16, 18}, barrier : Nat,
          stamp : Nat, resume : BOOLEAN, covers : Values]
Labels == {"top", "take", "transition", "pstart", "pop1", "pop2", "poll",
           "pwait", "finish", "audio", "sync", "exit"}
Workers == [pc : Labels, item : Items, deferred : Seq(Items), overlap : BOOLEAN]
Results == [epoch : Nat, ticket : Nat]
Words == [pending : Nat, revision : Nat, ready : Nat, wanted : Nat,
          lastEdit : Nat, fault : {"none", "outside", "own"}, hint : BOOLEAN]
Mails == [st : {"none", "asked", "answered"}, op : {0, 16, 18}, barrier : Nat,
          stamp : Nat, ok : BOOLEAN, bytes : Values]
Sessions == [running : BOOLEAN, epoch : Nat]
Captures == [st : {"none", "taken", "done"}, bytes : Values]
Peers == [start : {"none", "asked", "acked"}, capture : Captures, applied : BOOLEAN]
Snapshots == [generation : Nat, through : Nat, bytes : Values]
Clocks == [stamps : Nat, saves : Nat, starts : Nat, requests : Nat,
           generation : Nat \ {0}]

Typed ==
    /\ cb \in Callbacks /\ ctl \in Calls
    /\ w \in Workers /\ Len(w.deferred) <= 1
    /\ requests \in Seq(Items) /\ published \in Nat /\ results \in Seq(Results)
    /\ shared \in Words /\ mbox \in Mails /\ session \in Sessions /\ peer \in Peers
    /\ plugin \in Values /\ accepted \in Values /\ snap \in Snapshots
    /\ clock \in Clocks /\ mode \in Modes

-----------------------------------------------------------------------------
(* The inductive invariant                                                 *)

\* The worker holds a request.
Between == {"top", "take"}
Starting == {"pstart", "pop1", "pop2", "poll", "pwait"}

\* The epoch that is open, 0 when none is.
Open(running, epoch) == IF running THEN epoch ELSE 0

\* The session's epoch, and the open one, once the worker has served what it holds.
AheadEpoch == IF w.pc \in Between THEN session.epoch ELSE w.item.epoch
AheadOpen ==
    IF w.pc \in Between THEN Open(session.running, session.epoch)
    ELSE IF w.item.kind = "STOP" THEN 0 ELSE w.item.epoch

\* The requests x lead from epoch e0, open when o0 is not 0, to epoch e, open when
\* o is not 0.
Leads(e0, o0, x, e, o) ==
    /\ o0 \in {0, e0} /\ e0 <= e
    /\ \A i \in 1 .. Len(x) :
         /\ x[i].kind \in {"START", "STOP", "AUDIO"}
         /\ x[i].epoch > 0 /\ e0 <= x[i].epoch /\ x[i].epoch <= e
         /\ o0 = 0 \/ x[i].kind = "START" => e0 < x[i].epoch
         /\ x[i].kind = "STOP" /\ o # 0 => x[i].epoch < e
         /\ \A j \in 1 .. Len(x) : i < j =>
              /\ x[i].epoch <= x[j].epoch
              /\ x[i].kind = "STOP" \/ x[j].kind = "START" => x[i].epoch < x[j].epoch
              /\ j = i + 1 => (x[i].kind = "STOP" <=> x[j].kind = "START")
              /\ j = i + 1 /\ x[j].kind # "START" => x[i].epoch = x[j].epoch
    /\ Len(x) > 0 => /\ o0 # 0 <=> x[1].kind # "START"
                     /\ o0 # 0 => x[1].epoch = e0
                     /\ x[Len(x)].kind = "STOP" <=> o = 0
                     /\ x[Len(x)].epoch = e
    /\ Len(x) = 0 => e0 = e /\ (o0 = 0 <=> o = 0)

\* A request that is no AUDIO carries no edit, no ticket, no acknowledgement.
Bare(item) == item.kind # "AUDIO" =>
                  item.edits = NoEdits /\ item.ticket = 0 /\ ~item.sync

\* A restore is admitted and not yet answered: what the callback retained still
\* counts until then.
Restoring == mbox.st = "asked" /\ mbox.op = 18
Live == cb.rev + (IF Restoring THEN 1 ELSE 0) = shared.revision

\* The callback is past the wait for its start; its own edits are sent.
Past == {"replay", "push", "drain"}
Replaying == cb.pc = "replay" \/ (cb.pc = "drain" /\ cb.flush)
Sent == cb.pc = "drain" /\ ~cb.flush
Nothing == Edited(cb.retained) = {}
Prepared == mode.offline \/ shared.ready = cb.epoch

\* A replay packet that acknowledges its epoch e has still to be served.
Acks(item, e) == item.sync /\ item.epoch = e
AcksAhead(e) ==
    Acks(w.item, e) \/ \E i \in 1 .. Len(Upcoming) : Acks(Upcoming[i], e)

\* After an outside fault nothing moves before the recovery.
FaultInv ==
    /\ shared.fault # "own"
    /\ ~Healthy => /\ cb.pc = "idle" /\ ctl = IdleControl /\ mbox = NoMail
                   /\ peer = NewPeer /\ requests = <<>> /\ results = <<>>
                   /\ w = [NewWorker EXCEPT !.pc = "exit"]
    /\ Healthy => w.pc # "exit"

\* The mailbox holds the owner's call; a restore has the callback shut out.
CallInv ==
    /\ ctl.pc = "idle" => ctl = IdleControl
    /\ ctl.pc # "idle" => ctl.op \in {16, 18}
    /\ ctl.pc = "wait" <=> mbox.st # "none"
    /\ mbox.st # "none" => /\ mbox.op = ctl.op /\ mbox.barrier = ctl.barrier
                           /\ mbox.stamp = ctl.stamp
    /\ ctl.op = 18 => /\ cb.pc = "idle" /\ ~cb.running
                      /\ ctl.barrier = published /\ ctl.stamp = clock.stamps
    /\ ctl.op = 16 => ctl.barrier <= published

\* The callback knows the state revision; wanted and ready are what they say.
CallbackInv ==
    /\ cb.pc # "idle" => cb.running /\ cb.rev = shared.revision
    /\ cb.flush => cb.pc = "drain"
    /\ cb.running => cb.epoch > 0
    /\ cb.rev <= shared.revision
    /\ mbox.st # "none" /\ mbox.op = 18 => cb.rev < shared.revision
    /\ Healthy => /\ shared.wanted = Open(cb.running, cb.epoch)
                  /\ shared.ready = Open(session.running, session.epoch)

\* What the worker holds at each of its steps.
WorkerInv ==
    /\ w.pc \in Between => w.item = NoItem
    /\ w.pc \in Starting => w.item.kind = "START" /\ ~session.running
    /\ w.pc = "transition" =>
         \/ w.item.kind = "START" /\ ~session.running
         \/ /\ w.item.kind = "STOP"
            /\ session.running /\ session.epoch = w.item.epoch
    /\ w.pc = "finish" => w.item.kind \in {"START", "STOP"} /\ ~session.running
    /\ w.pc \in {"audio", "sync"} => w.item.kind = "AUDIO"
    /\ w.pc \in {"audio", "sync"} /\ ~w.overlap =>
         session.running /\ session.epoch = w.item.epoch
    /\ w.pc = "sync" => w.item.sync
    /\ w.overlap => w.pc = "audio" /\ ~session.running
    /\ peer.applied => w.pc = "audio"
    /\ w.item.kind # "none" => w.item.epoch > 0
    /\ session.running => session.epoch > 0

BareInv == Bare(w.item) /\ \A i \in 1 .. Len(Upcoming) : Bare(Upcoming[i])

\* A request is put back for a save that precedes it, or behind a capture.
DeferredInv ==
    w.deferred # <<>> =>
        /\ w.pc \in Between \cup {"finish"}
        /\ w.pc = "finish" => w.item.kind = "START"
        /\ w.pc # "take" => /\ mbox.st = "asked" /\ mbox.op = 16
                            /\ mbox.barrier < consumed

LineInv == Healthy =>
        Leads(AheadEpoch, AheadOpen, Upcoming, cb.epoch, Open(cb.running, cb.epoch))

\* Tickets of the running epoch end at the callback's count, without a gap.
RequestTickets ==
    /\ \A i \in 1 .. Len(Upcoming) : Upcoming[i].epoch = cb.epoch =>
           Upcoming[i].ticket = cb.submitted + i - Len(Upcoming)
    /\ w.pc \notin Between /\ w.item.kind = "AUDIO" /\ w.item.epoch = cb.epoch =>
           w.item.ticket = cb.submitted - Len(Upcoming)
InHands == IF w.pc = "audio" THEN 1 ELSE 0
CountTickets ==
    IF cb.running /\ AheadEpoch = cb.epoch
    THEN cb.submitted = cb.completed + Len(results) + Len(Upcoming) + InHands
    ELSE results = <<>> /\ (cb.running => cb.completed = 0)
ResultTickets ==
    \A j \in 1 .. Len(results) :
        results[j].epoch = cb.epoch /\ results[j].ticket = cb.completed + j

TicketInv ==
    Healthy => (cb.running => RequestTickets) /\ CountTickets /\ ResultTickets

\* Replays belong to a start that is acknowledged.
ReadyInv ==
    /\ mode.offline => Nothing
    /\ Healthy /\ cb.pc \in Past => Prepared
    /\ Healthy /\ cb.running /\ cb.sync # 0 => Prepared
    /\ Healthy /\ cb.running /\ AcksAhead(cb.epoch) => Prepared

\* Nothing is retained behind an acknowledgement.
AckInv ==
    Healthy =>
        /\ cb.sync # 0 => Nothing
        /\ cb.pc = "push" \/ Sent => Nothing
        /\ Replaying /\ ~Nothing => shared.pending \in {0, cb.epoch}
        /\ AcksAhead(cb.epoch) \/ AcksAhead(shared.pending) => Nothing

\* Retained edits keep the epoch pending, and a pending epoch has retained
\* edits or its acknowledgement under way.
KeptInv == Healthy /\ Live /\ ~Nothing => shared.pending # 0
PendingInv ==
    Healthy /\ shared.pending # 0 /\ Nothing => AcksAhead(shared.pending)

\* Stamps never decrease from the plug-in to the callback: what the worker holds,
\* the line, the retained edits, what is applied, the block's own edits.
ItemOrder(p) == w.item.edits[p] # 0 => plugin[p] <= w.item.edits[p]
LineOrder(p) ==
    \A i \in 1 .. Len(Upcoming) : Upcoming[i].edits[p] # 0 =>
        /\ plugin[p] <= Upcoming[i].edits[p]
        /\ w.item.edits[p] <= Upcoming[i].edits[p]
        /\ \A j \in 1 .. Len(Upcoming) :
             j < i => Upcoming[j].edits[p] <= Upcoming[i].edits[p]
KeptOrder(p) ==
    Live /\ cb.retained[p] # 0 =>
        /\ plugin[p] <= cb.retained[p] /\ w.item.edits[p] <= cb.retained[p]
        /\ \A i \in 1 .. Len(Upcoming) : Upcoming[i].edits[p] <= cb.retained[p]
DoneOrder(p) == w.pc = "sync" \/ peer.applied => w.item.edits[p] <= plugin[p]
OwnOrder(p) == cb.pc # "idle" => cb.edits[p] \in {0, clock.stamps}

OrderInv ==
    Healthy => \A p \in Params :
        /\ ItemOrder(p) /\ LineOrder(p) /\ KeptOrder(p) /\ DoneOrder(p)
        /\ OwnOrder(p)

\* A value is in the plug-in, in the line or retained for the replay.
Held(p, s) ==
    \/ s <= plugin[p] \/ s <= w.item.edits[p]
    \/ \E i \in 1 .. Len(Upcoming) : s <= Upcoming[i].edits[p]
    \/ Live /\ s <= cb.retained[p]

HeldInv ==
    Healthy => \A p \in Params :
        Held(p, accepted[p]) /\ (Sent => Held(p, cb.edits[p]))

\* A value reaches the plug-in with a request at or before the barrier b.
Before(p, s, b) ==
    \/ s <= plugin[p] \/ s <= w.item.edits[p]
    \/ \E i \in 1 .. Len(Upcoming) : /\ published + i <= b + Len(Upcoming)
                                     /\ s <= Upcoming[i].edits[p]

\* What a save will hold: on the way, in the plug-in, captured, answered.
CoverLine(p) == mbox.st # "answered" => Before(p, ctl.covers[p], ctl.barrier)
CoverTaken(p) ==
    /\ peer.capture.st # "none" => ctl.covers[p] <= plugin[p]
    /\ peer.capture.st = "done" => ctl.covers[p] <= peer.capture.bytes[p]
CoverSaved(p) == mbox.st = "answered" => ctl.covers[p] <= mbox.bytes[p]
CoverInv ==
    Healthy /\ ctl.op = 16 => \A p \in Params :
        CoverLine(p) /\ CoverTaken(p) /\ CoverSaved(p)

\* A capture answers a save whose barrier is behind the worker, and discloses
\* what passes it.
CaptureFenced ==
    peer.capture.st # "none" =>
        /\ mbox.st = "asked" /\ mbox.op = 16
        /\ mbox.barrier + Len(Upcoming) <= published
        /\ w.pc # "top" => mbox.barrier + Len(Upcoming) < published
CaptureShows(p) ==
    peer.capture.st = "done" =>
        plugin[p] <= peer.capture.bytes[p] \/ mbox.barrier < shared.lastEdit
CaptureInv == CaptureFenced /\ \A p \in Params : CaptureShows(p)

\* lastEdit is at or after every edit in the line.
LastAt(p) ==
    /\ w.item.edits[p] # 0 => published <= shared.lastEdit + Len(Upcoming)
    /\ \A i \in 1 .. Len(Upcoming) : Upcoming[i].edits[p] # 0 =>
         published + i <= shared.lastEdit + Len(Upcoming)
LastInv == Healthy => \A p \in Params : LastAt(p)

\* What the snapshot holds or discloses.
Shown(p, s) ==
    \/ s <= snap.bytes[p] \/ snap.through < shared.lastEdit
    \/ Live /\ s <= cb.retained[p]
Newest == Healthy /\ snap.generation = clock.generation
SnapShows(p) ==
    Newest => Shown(p, accepted[p]) /\ (Sent => Shown(p, cb.edits[p]))
SnapBehind ==
    snap.generation <= clock.generation /\ (Newest => snap.through <= published)
RestoreSaved ==
    mbox.st = "answered" /\ mbox.op = 18 =>
        /\ snap.generation = clock.generation
        /\ \A p \in Params : snap.bytes[p] = mbox.stamp /\ mbox.stamp <= plugin[p]

SnapInv ==
    /\ SnapBehind /\ RestoreSaved
    /\ \A p \in Params : SnapShows(p)
    /\ ~Healthy => UncapturedDisclosed

\* A block's own request and all its packets fit in the bound.
RoomInv ==
    Healthy /\ (cb.pc \in {"ready", "push"} \/ Replaying) => Room

\* The counts against the bounds and each other.
ClockBounds ==
    /\ clock.stamps <= MaxStamps /\ clock.starts <= MaxEpochs
    /\ clock.requests <= MaxPublished
CallbackBounds ==
    /\ cb.epoch <= clock.starts /\ cb.submitted <= clock.requests
    /\ cb.sync <= cb.submitted /\ cb.completed <= cb.submitted
LineBounds ==
    /\ published <= clock.requests /\ Len(Upcoming) <= published
    /\ w.item.ticket <= clock.requests
    /\ \A i \in 1 .. Len(Upcoming) : Upcoming[i].ticket <= clock.requests
WordBounds ==
    /\ shared.pending <= cb.epoch /\ shared.lastEdit <= published
    /\ shared.wanted <= cb.epoch /\ shared.ready <= cb.epoch
    /\ session.epoch <= cb.epoch /\ w.item.epoch <= cb.epoch
RevisionBounds ==
    /\ shared.revision <= clock.stamps
    /\ ctl.pc = "admit" /\ ctl.op = 18 => shared.revision < clock.stamps
BoundsInv ==
    /\ ClockBounds /\ CallbackBounds /\ LineBounds /\ WordBounds /\ RevisionBounds

\* No value is newer than the newest stamp.
StampAt(p) ==
    /\ plugin[p] <= clock.stamps /\ accepted[p] <= clock.stamps
    /\ snap.bytes[p] <= clock.stamps /\ cb.retained[p] <= clock.stamps
    /\ cb.edits[p] <= clock.stamps /\ w.item.edits[p] <= clock.stamps
    /\ peer.capture.bytes[p] <= clock.stamps /\ mbox.bytes[p] <= clock.stamps
    /\ ctl.covers[p] <= clock.stamps
    /\ \A i \in 1 .. Len(Upcoming) : Upcoming[i].edits[p] <= clock.stamps
StampInv ==
    /\ ctl.stamp <= clock.stamps /\ mbox.stamp <= clock.stamps
    /\ \A p \in Params : StampAt(p)

IInv ==
    /\ Typed /\ BoundsInv /\ StampInv
    /\ FaultInv /\ CallInv /\ CallbackInv /\ WorkerInv /\ BareInv
    /\ DeferredInv
    /\ LineInv /\ TicketInv /\ ReadyInv /\ AckInv /\ KeptInv /\ PendingInv
    /\ OrderInv /\ HeldInv /\ CoverInv /\ CaptureInv /\ LastInv /\ SnapInv
    /\ RoomInv /\ StartSeesRequests

=============================================================================
