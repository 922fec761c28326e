------------------------------ MODULE Delivery ------------------------------
(***************************************************************************)
(* Parameter edits, saves and restores of one native instance, from the    *)
(* DAW's calls to the Windows plug-in and back                             *)
(* (native-vst3-proxy/backend/src/queued.rs, startup.rs, recovery.rs and   *)
(* the guard of source/processor.cpp).                                     *)
(*                                                                         *)
(* Three threads share the state.  The DAW's audio callback sends edits    *)
(* with its blocks; while the Windows side has not acknowledged a start it *)
(* retains them and replays them in zero-frame packets before the first    *)
(* ready block.  The owner thread saves (op 16) and restores (op 18)       *)
(* through a one-entry control mailbox fenced by a barrier in the request  *)
(* queue.  The transport worker serves both, may send the first AUDIO      *)
(* before a start is acknowledged, and lets AUDIO pass a save in progress. *)
(*                                                                         *)
(* Every edit and every restore is a stamp, the time order of the host's   *)
(* calls; the plug-in's value of a parameter is the stamp it last took.    *)
(***************************************************************************)
EXTENDS Naturals, Sequences, FiniteSets, Functions

CONSTANTS
    Params,         \* parameters of the plug-in
    Modes,          \* delivery modes of an instance: exact, overlap, offline
    PacketMax,      \* MAX_EVENTS: parameters one replay packet carries
    MaxStamps,      \* bound: edits and restores
    MaxPublished,   \* bound: requests
    MaxEpochs,      \* bound: processing starts
    MaxSaves,       \* bound: save calls
    MaxFaults       \* bound: failures of the instance from outside

ASSUME DeliveryAssumption ==
    /\ IsFiniteSet(Params) /\ Params # {}
    /\ Modes \subseteq [exact : BOOLEAN, overlap : BOOLEAN, offline : BOOLEAN]
    /\ {PacketMax, MaxPublished, MaxEpochs} \subseteq Nat \ {0}
    /\ {MaxStamps, MaxSaves, MaxFaults} \subseteq Nat

VARIABLES
    mode,       \* fixed by the setup: completion policy, protocol, process mode
    cb,         \* Callback, owned by the audio thread
    ctl,        \* the owner thread's state call
    w,          \* the transport worker
    requests,   \* the request queue
    published,  \* requests.published()
    results,    \* the result queue
    shared,     \* the words of Shared
    mbox,       \* the control mailbox
    session,    \* Session: phase and epoch as the worker knows them
    peer,       \* the Windows side: start, capture, audio in its hands
    plugin,     \* the plug-in's parameter values
    snap,       \* Store: the confirmed snapshot
    clock,      \* bounds: stamps, saves, starts, requests; the generation
    accepted    \* history: newest stamp of a returned call, per parameter

vars == <<mode, cb, ctl, w, requests, published, results, shared, mbox,
          session, peer, plugin, snap, clock, accepted>>

NoEdits == [p \in Params |-> 0]
Edited(e) == {p \in Params : e[p] # 0}
Newer(a, b) == [p \in Params |-> IF b[p] # 0 THEN b[p] ELSE a[p]]
All(stamp) == [p \in Params |-> stamp]
Restricted(e, P) == [p \in Params |-> IF p \in P THEN e[p] ELSE 0]

Item(kind, epoch, ticket, edits, sync) ==
    [kind |-> kind, epoch |-> epoch, ticket |-> ticket, edits |-> edits,
     sync |-> sync]
NoItem == Item("none", 0, 0, NoEdits, FALSE)
NoMail == [st |-> "none", op |-> 0, barrier |-> 0, stamp |-> 0,
           ok |-> FALSE, bytes |-> NoEdits]
NoCapture == [st |-> "none", bytes |-> NoEdits]

NewCallback ==
    [pc |-> "idle", epoch |-> 0, running |-> FALSE, retained |-> NoEdits,
     sync |-> 0, rev |-> 0, submitted |-> 0, completed |-> 0,
     edits |-> NoEdits, flush |-> FALSE]
NewShared ==
    [pending |-> 0,         \* startup_edits_pending: an epoch, or 0
     revision |-> 0,        \* curve_state_revision
     ready |-> 0,           \* processing_ready_epoch
     wanted |-> 0, lastEdit |-> 0,
     fault |-> "none",      \* "outside": deadline, peer; "own": a failed check
     hint |-> FALSE]        \* work notified since the worker's snapshot
NewWorker == [pc |-> "top", item |-> NoItem, deferred |-> <<>>,
              overlap |-> FALSE]
NewPeer == [start |-> "none", capture |-> NoCapture, applied |-> FALSE]
IdleControl == [pc |-> "idle", op |-> 0, barrier |-> 0, stamp |-> 0,
                resume |-> FALSE, covers |-> NoEdits]

Init ==
    /\ mode \in Modes
    /\ cb = NewCallback
    /\ ctl = IdleControl
    /\ w = NewWorker
    /\ requests = <<>>
    /\ published = 0
    /\ results = <<>>
    /\ shared = NewShared
    /\ mbox = NoMail
    /\ session = [running |-> FALSE, epoch |-> 0]
    /\ peer = NewPeer
    /\ plugin = NoEdits
    /\ snap = [generation |-> 0, through |-> 0, bytes |-> NoEdits]
    /\ clock = [stamps |-> 0, saves |-> 0, starts |-> 0, requests |-> 0,
                generation |-> 1]
    /\ accepted = NoEdits

consumed == published - Len(requests)

Healthy == shared.fault = "none"
Failed(s) == [s EXCEPT !.fault = "own"]

\* busy_ of the processor: held through process() and through a whole restore.
Free == cb.pc = "idle" /\ ctl.op # 18

\* work.notify(): moves the wake word; only a worker that holds a snapshot of
\* it can tell.
Notified(s) == [s EXCEPT !.hint = w.pc \in {"pop2", "pwait"}]

\* compare_exchange(epoch, 0) on startup_edits_pending.
Acknowledged(s, epoch) ==
    IF s.pending = epoch THEN [s EXCEPT !.pending = 0] ELSE s

-----------------------------------------------------------------------------
(* The DAW's callback.                                                     *)

Push(item) ==
    /\ requests' = Append(requests, item)
    /\ published' = published + 1

Counted(c, starts) == [c EXCEPT !.requests = @ + 1, !.starts = @ + starts]

\* Fault for testing: the completion count of the old epoch stays.
StartedKeepsCompleted(c) ==
    [c EXCEPT !.epoch = @ + 1, !.running = TRUE, !.sync = 0, !.submitted = 0]

\* transition(START): a new epoch; retained edits survive it, the replay
\* ticket does not.
Started(c) ==
    [c EXCEPT !.epoch = @ + 1, !.running = TRUE, !.sync = 0,
              !.submitted = 0, !.completed = 0]

Start ==
    /\ Healthy /\ ~cb.running
    /\ clock.starts < MaxEpochs /\ clock.requests < MaxPublished
    /\ clock' = Counted(clock, 1)
    /\ cb' = Started(cb)
    /\ results' = <<>>
    /\ shared' = Notified([shared EXCEPT !.wanted = cb.epoch + 1])
    /\ Push(Item("START", cb.epoch + 1, 0, NoEdits, FALSE))

Stop ==
    /\ Healthy /\ cb.running /\ clock.requests < MaxPublished
    /\ cb' = [cb EXCEPT !.running = FALSE]
    /\ results' = <<>>
    /\ shared' = Notified([shared EXCEPT !.wanted = 0])
    /\ Push(Item("STOP", cb.epoch, 0, NoEdits, FALSE))

\* setProcessing(on / off) of the DAW.
SetProcessing ==
    /\ Free
    /\ \/ Start
       \/ Stop /\ clock' = Counted(clock, 0)
    /\ UNCHANGED <<mode, ctl, w, mbox, session, peer, plugin, snap, accepted>>

\* process() enters with the edits of its block.  A state revision it has not
\* seen yet discards what was retained for the state before it.
Superseded(c) ==
    [c EXCEPT !.retained = NoEdits, !.sync = 0, !.rev = shared.revision]

\* The callback's room in the bounds: its own request and all its packets.
Room == clock.requests + Cardinality(Edited(cb.retained)) < MaxPublished

Process ==
    /\ Free /\ cb.running /\ Healthy /\ Room
    /\ \E P \in {{}} \cup {{p} : p \in Params} :
        /\ P # {} => clock.stamps < MaxStamps
        /\ LET stale == cb.rev # shared.revision
               c == IF stale THEN Superseded(cb) ELSE cb
               stamp == clock.stamps + 1
           IN  /\ cb' = [c EXCEPT !.pc = "ready",
                                  !.edits = Restricted(All(stamp), P)]
               /\ shared' = IF stale THEN [shared EXCEPT !.pending = 0]
                            ELSE shared
               /\ clock' = IF P = {} THEN clock
                           ELSE [clock EXCEPT !.stamps = stamp]
    /\ UNCHANGED <<mode, ctl, w, requests, published, results, mbox, session,
                   peer, plugin, snap, accepted>>

Return(c) == [c EXCEPT !.pc = "idle", !.edits = NoEdits, !.flush = FALSE]

\* The bounded wait for the start's acknowledgement ran out: the block is
\* outside the plug-in's stream and its parameter values are retained.
Retain ==
    /\ cb.pc = "ready" /\ ~mode.offline /\ Healthy
    /\ shared.ready # cb.epoch
    /\ cb' = Return([cb EXCEPT !.retained = Newer(@, cb.edits)])
    /\ shared' = IF Edited(cb.edits) = {} THEN shared
                 ELSE [shared EXCEPT !.pending = cb.epoch]
    /\ accepted' = Newer(accepted, cb.edits)
    /\ UNCHANGED <<mode, ctl, w, requests, published, results, mbox, session,
                   peer, plugin, snap, clock>>

\* Fault for testing: a block with edits of its own does not replay first.
ReadyOwnEditsFirst ==
    /\ cb.pc = "ready" /\ Healthy
    /\ mode.offline \/ shared.ready = cb.epoch
    /\ LET replay == cb.sync = 0 /\ shared.pending # 0 /\ Edited(cb.edits) = {}
       IN  /\ cb' = [cb EXCEPT !.pc = IF replay THEN "replay" ELSE "push"]
           /\ shared' = IF replay /\ Edited(cb.retained) # {}
                        THEN [shared EXCEPT !.pending = cb.epoch] ELSE shared
    /\ UNCHANGED <<mode, ctl, w, requests, published, results, mbox, session,
                   peer, plugin, snap, clock, accepted>>

\* The start is acknowledged (or the mode does not wait for it): replay what
\* is pending, unless a replay is already on its way.
Ready ==
    /\ cb.pc = "ready" /\ Healthy
    /\ mode.offline \/ shared.ready = cb.epoch
    /\ LET replay == cb.sync = 0 /\ shared.pending # 0
       IN  /\ cb' = [cb EXCEPT !.pc = IF replay THEN "replay" ELSE "push"]
           /\ shared' = IF replay /\ Edited(cb.retained) # {}
                        THEN [shared EXCEPT !.pending = cb.epoch] ELSE shared
    /\ UNCHANGED <<mode, ctl, w, requests, published, results, mbox, session,
                   peer, plugin, snap, clock, accepted>>

Packets ==
    LET P == Edited(cb.retained)
    IN  {Q \in SUBSET P : /\ Q # {}
                          /\ \/ Cardinality(Q) = PacketMax
                             \/ Q = P /\ Cardinality(Q) < PacketMax}

SendAudio(edits, sync, flush) ==
    /\ clock' = Counted(clock, 0)
    /\ Push(Item("AUDIO", cb.epoch, cb.submitted + 1, edits, sync))
    /\ cb' = [cb EXCEPT !.pc = "drain", !.flush = flush,
                        !.submitted = @ + 1,
                        !.retained = IF flush THEN Restricted(@, Params \ Edited(edits))
                                     ELSE @]
    /\ shared' = Notified([shared EXCEPT
                    !.lastEdit = IF Edited(edits) = {} THEN @ ELSE published + 1])

\* One zero-frame packet; only the last one acknowledges the replay.
Flush ==
    /\ cb.pc = "replay" /\ Healthy
    /\ \E Q \in Packets :
        SendAudio(Restricted(cb.retained, Q), Edited(cb.retained) = Q, TRUE)
    /\ UNCHANGED <<mode, ctl, w, results, mbox, session, peer, plugin, snap,
                   accepted>>

\* All packets are sent: remember the ticket to wait for, or acknowledge now.
Flushed ==
    /\ cb.pc = "replay" /\ Healthy
    /\ Edited(cb.retained) = {}
    /\ IF cb.completed < cb.submitted
       THEN /\ cb' = [cb EXCEPT !.pc = "push", !.sync = cb.submitted]
            /\ UNCHANGED shared
       ELSE /\ cb' = [cb EXCEPT !.pc = "push"]
            /\ shared' = Acknowledged(shared, cb.epoch)
    /\ UNCHANGED <<mode, ctl, w, requests, published, results, mbox, session,
                   peer, plugin, snap, clock, accepted>>

\* The block's own request, after every replayed value.
Submit ==
    /\ cb.pc = "push" /\ Healthy
    /\ SendAudio(cb.edits, FALSE, FALSE)
    /\ UNCHANGED <<mode, ctl, w, results, mbox, session, peer, plugin, snap,
                   accepted>>

\* Take one completion; results of an earlier epoch are dropped, one out of
\* order is a CORRELATION fault.
Drain ==
    /\ cb.pc = "drain" /\ Healthy /\ results # <<>>
    /\ results' = Tail(results)
    /\ LET r == Head(results)
           reached == cb.sync # 0 /\ r.ticket >= cb.sync
       IN  IF r.epoch < cb.epoch
           THEN UNCHANGED <<cb, shared>>
           ELSE IF r.epoch # cb.epoch \/ r.ticket # cb.completed + 1
           THEN shared' = Failed(shared) /\ UNCHANGED cb
           ELSE /\ cb' = [cb EXCEPT !.completed = r.ticket,
                                    !.sync = IF reached THEN 0 ELSE @]
                /\ shared' = IF reached THEN Acknowledged(shared, r.epoch)
                             ELSE shared
    /\ UNCHANGED <<mode, ctl, w, requests, published, mbox, session, peer,
                   plugin, snap, clock, accepted>>

\* Same-callback delivery returns only with its own completion; buffered
\* delivery may return without it.
Drained ==
    /\ cb.pc = "drain" /\ Healthy /\ results = <<>>
    /\ mode.exact => cb.completed >= cb.submitted
    /\ IF cb.flush
       THEN /\ cb' = [cb EXCEPT !.pc = "replay", !.flush = FALSE]
            /\ UNCHANGED accepted
       ELSE /\ cb' = Return(cb)
            /\ accepted' = Newer(accepted, cb.edits)
    /\ UNCHANGED <<mode, ctl, w, requests, published, results, shared, mbox,
                   session, peer, plugin, snap, clock>>

-----------------------------------------------------------------------------
(* The owner thread: getState and setState.                                *)

\* control(16): refused at once while start-up edits are pending; else the
\* barrier is read before the mailbox is locked.
Save ==
    /\ ctl.pc = "idle" /\ Healthy /\ clock.saves < MaxSaves
    /\ clock' = [clock EXCEPT !.saves = @ + 1]
    /\ ctl' = IF shared.pending # 0 THEN IdleControl
              ELSE [IdleControl EXCEPT !.pc = "admit", !.op = 16,
                                       !.barrier = published,
                                       !.covers = accepted]
    /\ UNCHANGED <<mode, cb, w, requests, published, results, shared, mbox,
                   session, peer, plugin, snap, accepted>>

\* setState takes the guard and, when processing, stops it first.
Restore ==
    /\ ctl.pc = "idle" /\ Free /\ Healthy
    /\ clock.stamps < MaxStamps
    /\ clock' = [clock EXCEPT !.stamps = @ + 1,
                              !.requests = IF cb.running THEN @ + 1 ELSE @]
    /\ IF cb.running
       THEN /\ clock.starts < MaxEpochs /\ clock.requests + 1 < MaxPublished
            /\ Stop
       ELSE UNCHANGED <<cb, results, shared, requests, published>>
    /\ ctl' = [IdleControl EXCEPT !.pc = "admit", !.op = 18,
                                  !.barrier = published',
                                  !.stamp = clock.stamps + 1,
                                  !.resume = cb.running]
    /\ UNCHANGED <<mode, w, mbox, session, peer, plugin, snap, accepted>>

\* Under the mailbox lock: a restore raises the revision, then the request is
\* posted and the worker notified.
Admit ==
    /\ ctl.pc = "admit" /\ mbox.st = "none"
    /\ ctl' = [ctl EXCEPT !.pc = "wait"]
    /\ mbox' = [NoMail EXCEPT !.st = "asked", !.op = ctl.op,
                              !.barrier = ctl.barrier, !.stamp = ctl.stamp]
    /\ shared' = Notified([shared EXCEPT
                    !.revision = IF ctl.op = 18 THEN @ + 1 ELSE @])
    /\ UNCHANGED <<mode, cb, w, requests, published, results, session, peer,
                   plugin, snap, clock, accepted>>

\* The answer; a restore that stopped processing restarts it before it lets
\* the guard go.
TakeAnswer ==
    /\ ctl.pc = "wait" /\ mbox.st = "answered"
    /\ mbox' = NoMail
    /\ ctl' = IdleControl
    /\ accepted' = IF mbox.op = 18 THEN All(mbox.stamp) ELSE accepted
    /\ IF ctl.resume /\ Healthy
       THEN Start
       ELSE UNCHANGED <<cb, results, shared, requests, published, clock>>
    /\ UNCHANGED <<mode, w, session, peer, plugin, snap>>

-----------------------------------------------------------------------------
(* The transport worker.                                                   *)

SetReady(epoch) == [shared EXCEPT !.ready = epoch]

\* Fault for testing: the snapshot claims what was published by now.
CompleteThroughNow(bytes) ==
    LET ok == mbox.op = 16 => shared.pending = 0
    IN  /\ mbox' = [mbox EXCEPT !.st = "answered", !.ok = ok, !.bytes = bytes]
        /\ shared' = IF mbox.op = 18 THEN [shared EXCEPT !.pending = 0]
                     ELSE shared
        /\ snap' = IF ok THEN [generation |-> clock.generation,
                               through |-> published, bytes |-> bytes]
                   ELSE snap

\* complete_control: a save is refused if edits became pending meanwhile, a
\* restore supersedes them; a success is confirmed as the snapshot.
Complete(bytes) ==
    LET ok == mbox.op = 16 => shared.pending = 0
    IN  /\ mbox' = [mbox EXCEPT !.st = "answered", !.ok = ok, !.bytes = bytes]
        /\ shared' = IF mbox.op = 18 THEN [shared EXCEPT !.pending = 0]
                     ELSE shared
        /\ snap' = IF ok THEN [generation |-> clock.generation,
                               through |-> mbox.barrier, bytes |-> bytes]
                   ELSE snap

\* The barrier: everything published before the control call is consumed.
Fenced == mbox.st = "asked" /\ consumed >= mbox.barrier

\* A save of a running session is asked for and not waited for: the worker
\* goes on once the Windows delivery thread has taken the control.
BeginCapture ==
    /\ w.pc = "top" /\ Healthy /\ Fenced
    /\ mbox.op = 16 /\ peer.capture.st = "none" /\ session.running
    /\ peer' = [peer EXCEPT !.capture.st = "taken"]
    /\ UNCHANGED <<mode, cb, ctl, w, requests, published, results, shared, mbox,
                   session, plugin, snap, clock, accepted>>

\* poll_capture has the reply.
EndCapture ==
    /\ w.pc = "top" /\ Healthy /\ Fenced /\ peer.capture.st = "done"
    /\ Complete(peer.capture.bytes)
    /\ peer' = [peer EXCEPT !.capture = NoCapture]
    /\ w' = [w EXCEPT !.pc = "take"]
    /\ UNCHANGED <<mode, cb, ctl, requests, published, results, session,
                   plugin, clock, accepted>>

\* component_state of a session that is not processing; a restore of one that
\* is processing fails the session.
ComponentState ==
    /\ w.pc = "top" /\ Healthy /\ Fenced /\ peer.capture.st = "none"
    /\ mbox.op = 18 \/ ~session.running
    /\ IF session.running
       THEN shared' = Failed(shared) /\ UNCHANGED <<w, mbox, snap, plugin>>
       ELSE /\ plugin' = IF mbox.op = 18 THEN All(mbox.stamp) ELSE plugin
            /\ Complete(plugin')
            /\ w' = [w EXCEPT !.pc = "take"]
    /\ UNCHANGED <<mode, cb, ctl, requests, published, results, session, peer,
                   clock, accepted>>

\* deferred.take().or_else(pop).
Upcoming == w.deferred \o requests
Taken ==
    IF w.deferred # <<>> THEN UNCHANGED requests
    ELSE requests' = Tail(requests)

\* The session takes AUDIO only at its own epoch.
InSession(item) == session.running /\ session.epoch = item.epoch

\* The kinds the worker can serve now; START may overlap, AUDIO may pass a
\* capture, START and STOP may not.
Served(item) ==
    CASE item.kind = "AUDIO" -> "audio"
      [] item.kind # "AUDIO" /\ peer.capture.st # "none" -> "top"
      [] item.kind = "START" /\ peer.capture.st = "none" /\ mode.overlap -> "pstart"
      [] OTHER -> "transition"

\* The next request, when no control is due or one was just completed.
Take ==
    /\ \/ w.pc = "take"
       \/ w.pc = "top" /\ (Fenced => peer.capture.st = "taken")
    /\ Healthy /\ Upcoming # <<>>
    /\ LET item == Head(Upcoming)
           pc == Served(item)
       IN  /\ w' = [w EXCEPT !.pc = pc,
                             !.item = IF pc = "top" THEN NoItem ELSE item,
                             !.deferred = IF pc = "top" THEN <<item>> ELSE <<>>]
           /\ peer' = IF pc # "top" /\ item.kind = "START"
                      THEN [peer EXCEPT !.start = "asked"] ELSE peer
           /\ shared' = IF item.kind = "AUDIO" /\ ~InSession(item)
                        THEN Failed(shared) ELSE shared
    /\ Taken
    /\ UNCHANGED <<mode, cb, ctl, published, results, mbox, session, plugin,
                   snap, clock, accepted>>

\* The queue is empty: wait at most INTERRUPT_INTERVAL, then look again.
TakeNothing ==
    /\ w.pc = "take" /\ Healthy /\ Upcoming = <<>>
    /\ w' = [w EXCEPT !.pc = "top"]
    /\ UNCHANGED <<mode, cb, ctl, requests, published, results, shared, mbox,
                   session, peer, plugin, snap, clock, accepted>>

\* commit_start and the acknowledgement of START; STOP and its acknowledgement.
CommitStart(epoch) ==
    /\ session' = [running |-> TRUE, epoch |-> epoch]
    /\ shared' = SetReady(epoch)
    /\ peer' = [peer EXCEPT !.start = "none"]

Transition ==
    /\ w.pc = "transition" /\ Healthy
    /\ IF w.item.kind = "START"
       THEN peer.start = "acked" /\ CommitStart(w.item.epoch)
       ELSE /\ session' = [session EXCEPT !.running = FALSE]
            /\ shared' = SetReady(0)
            /\ UNCHANGED peer
    /\ w' = [w EXCEPT !.pc = "top", !.item = NoItem]
    /\ UNCHANGED <<mode, cb, ctl, requests, published, results, mbox, plugin,
                   snap, clock, accepted>>

\* A start is sent and not yet acknowledged.  w.item is the START.

\* Fault for testing: the popped candidate is counted on the wrong side.
ControlPrecedesInclusive(candidatePopped) ==
    mbox.st = "asked" /\ mbox.barrier <= consumed + IF candidatePopped THEN 1 ELSE 0

\* admitted_control_precedes: a control call admitted before the next request
\* is served before it.
ControlPrecedes(candidatePopped) ==
    /\ mbox.st = "asked"
    /\ IF candidatePopped THEN mbox.barrier < consumed + 1
       ELSE mbox.barrier <= consumed

PendingStart ==
    /\ w.pc = "pstart" /\ Healthy
    /\ w' = [w EXCEPT !.pc = IF ControlPrecedes(FALSE) THEN "finish"
                             ELSE "pop1"]
    /\ UNCHANGED <<mode, cb, ctl, requests, published, results, shared, mbox,
                   session, peer, plugin, snap, clock, accepted>>

\* Both looks at the queue; the second one is after the wake snapshot.
PendingPop ==
    /\ w.pc \in {"pop1", "pop2"} /\ Healthy /\ requests # <<>>
    /\ requests' = Tail(requests)
    /\ LET item == Head(requests)
       IN  IF ControlPrecedes(TRUE)
           THEN /\ w' = [w EXCEPT !.pc = "finish", !.deferred = <<item>>]
                /\ shared' = [shared EXCEPT !.hint = FALSE]
           ELSE /\ w' = [w EXCEPT
                           !.pc = IF item.kind = "AUDIO" THEN "audio" ELSE "finish",
                           !.item = item, !.overlap = item.kind = "AUDIO"]
                /\ shared' = IF \/ item.kind = "START"
                                \/ item.epoch # w.item.epoch
                             THEN Failed(shared)
                             ELSE [shared EXCEPT !.hint = FALSE]
    /\ UNCHANGED <<mode, cb, ctl, published, results, mbox, session, peer,
                   plugin, snap, clock, accepted>>

\* Fault for testing: no second look after the snapshot.
PollStartThenWait ==
    /\ w.pc = "poll" /\ Healthy
    /\ IF peer.start = "acked"
       THEN /\ CommitStart(w.item.epoch)
            /\ w' = [w EXCEPT !.pc = "top", !.item = NoItem]
       ELSE /\ w' = [w EXCEPT !.pc = "pwait"]
            /\ UNCHANGED <<shared, session, peer>>
    /\ UNCHANGED <<mode, cb, ctl, requests, published, results, mbox, plugin,
                   snap, clock, accepted>>

PendingEmpty ==
    /\ w.pc \in {"pop1", "pop2"} /\ Healthy /\ requests = <<>>
    /\ w' = [w EXCEPT !.pc = IF w.pc = "pop1" THEN "poll" ELSE "pwait"]
    /\ UNCHANGED <<mode, cb, ctl, requests, published, results, shared, mbox,
                   session, peer, plugin, snap, clock, accepted>>

\* poll_start: Started has arrived, or snapshot the wake word.
PollStart ==
    /\ w.pc = "poll" /\ Healthy
    /\ IF peer.start = "acked"
       THEN /\ CommitStart(w.item.epoch)
            /\ w' = [w EXCEPT !.pc = "top", !.item = NoItem]
       ELSE /\ w' = [w EXCEPT !.pc = "pop2"]
            /\ UNCHANGED <<shared, session, peer>>
    /\ UNCHANGED <<mode, cb, ctl, requests, published, results, mbox, plugin,
                   snap, clock, accepted>>

\* The wait ends on a notification or on the socket.
PendingWait ==
    /\ w.pc = "pwait" /\ Healthy
    /\ shared.hint \/ peer.start = "acked"
    /\ w' = [w EXCEPT !.pc = "pstart"]
    /\ shared' = [shared EXCEPT !.hint = FALSE]
    /\ UNCHANGED <<mode, cb, ctl, requests, published, results, mbox,
                   session, peer, plugin, snap, clock, accepted>>

\* finish_start, for a control call that precedes or for a STOP that follows.
FinishStart ==
    /\ w.pc = "finish" /\ Healthy /\ peer.start = "acked"
    /\ CommitStart(w.item.epoch)
    /\ w' = IF w.item.kind = "STOP" THEN [w EXCEPT !.pc = "transition"]
            ELSE [w EXCEPT !.pc = "top", !.item = NoItem]
    /\ UNCHANGED <<mode, cb, ctl, requests, published, results, mbox, plugin,
                   snap, clock, accepted>>

\* Started arrives while the overlapped AUDIO is in flight.
StartedInAudio ==
    /\ w.pc = "audio" /\ w.overlap /\ Healthy /\ peer.start = "acked"
    /\ CommitStart(w.item.epoch)
    /\ w' = [w EXCEPT !.overlap = FALSE]
    /\ UNCHANGED <<mode, cb, ctl, requests, published, results, mbox, plugin,
                   snap, clock, accepted>>

\* A capture's reply read while AUDIO is in flight answers its caller there.
CaptureInAudio ==
    /\ w.pc = "audio" /\ Healthy /\ peer.capture.st = "done"
    /\ Complete(peer.capture.bytes)
    /\ peer' = [peer EXCEPT !.capture = NoCapture]
    /\ UNCHANGED <<mode, cb, ctl, w, requests, published, results, session,
                   plugin, clock, accepted>>

\* The AUDIO reply: publish it if its epoch is still wanted; the last replay
\* packet acknowledges its epoch either way.
Publish ==
    /\ w.pc = "audio" /\ ~w.overlap /\ Healthy /\ peer.applied
    /\ peer' = [peer EXCEPT !.applied = FALSE]
    /\ results' = IF shared.wanted = w.item.epoch
                  THEN Append(results, [epoch |-> w.item.epoch,
                                        ticket |-> w.item.ticket])
                  ELSE results
    /\ w' = [w EXCEPT !.pc = IF w.item.sync THEN "sync" ELSE "top",
                      !.item = IF w.item.sync THEN @ ELSE NoItem]
    /\ UNCHANGED <<mode, cb, ctl, requests, published, shared, mbox, session,
                   plugin, snap, clock, accepted>>

\* Fault for testing: a retired replay packet acknowledges nothing.
SyncedWhileWanted ==
    /\ w.pc = "sync" /\ Healthy
    /\ shared' = IF shared.wanted = w.item.epoch
                 THEN Acknowledged(shared, w.item.epoch) ELSE shared
    /\ w' = [w EXCEPT !.pc = "top", !.item = NoItem]
    /\ UNCHANGED <<mode, cb, ctl, requests, published, results, mbox, session,
                   peer, plugin, snap, clock, accepted>>

Synced ==
    /\ w.pc = "sync" /\ Healthy
    /\ shared' = Acknowledged(shared, w.item.epoch)
    /\ w' = [w EXCEPT !.pc = "top", !.item = NoItem]
    /\ UNCHANGED <<mode, cb, ctl, requests, published, results, mbox, session,
                   peer, plugin, snap, clock, accepted>>

-----------------------------------------------------------------------------
(* The Windows side, as far as the native side can tell.                   *)

\* The owner thread acknowledges a start, takes a control and reads the
\* component's state; the delivery thread applies AUDIO meanwhile.
PeerStep ==
    /\ \/ /\ peer.start = "asked"
          /\ peer' = [peer EXCEPT !.start = "acked"]
          /\ UNCHANGED plugin
       \/ /\ peer.capture.st = "taken"
          /\ peer' = [peer EXCEPT !.capture = [st |-> "done", bytes |-> plugin]]
          /\ UNCHANGED plugin
       \/ /\ w.pc = "audio" /\ ~peer.applied /\ peer.start # "asked"
          /\ peer' = [peer EXCEPT !.applied = TRUE]
          /\ plugin' = Newer(plugin, w.item.edits)
    /\ UNCHANGED <<mode, cb, ctl, w, requests, published, results, shared,
                   mbox, session, snap, clock, accepted>>

\* A deadline, a lost peer, a refused reply: the instance fails from outside.
\* After it the three threads only leave, in any order: process() returns an
\* error without accepting its edits, the state call returns an error without a
\* retry and the worker ends; recovery waits for all of them.
Fault ==
    /\ Healthy /\ clock.generation <= MaxFaults
    /\ cb' = Return(cb)
    /\ ctl' = IdleControl
    /\ w' = [NewWorker EXCEPT !.pc = "exit"]
    /\ shared' = [shared EXCEPT !.fault = "outside", !.ready = 0,
                                !.hint = FALSE]
    /\ mbox' = NoMail
    /\ peer' = NewPeer
    /\ requests' = <<>> /\ results' = <<>>
    /\ UNCHANGED <<mode, published, session, plugin, snap, clock, accepted>>

\* ap6_recover: a new transport generation restored from the snapshot, with
\* every callback and state call excluded and the old worker joined.
Recover ==
    /\ shared.fault = "outside"
    /\ snap.generation # 0
    /\ clock' = [clock EXCEPT !.generation = @ + 1]
    /\ plugin' = snap.bytes
    /\ accepted' = snap.bytes
    /\ cb' = NewCallback
    /\ w' = NewWorker
    /\ requests' = <<>> /\ results' = <<>> /\ published' = 0
    /\ shared' = NewShared
    /\ mbox' = NoMail
    /\ session' = [running |-> FALSE, epoch |-> 0]
    /\ peer' = NewPeer
    /\ UNCHANGED <<mode, ctl, snap>>

-----------------------------------------------------------------------------
Callback == Retain \/ Ready \/ Flush \/ Flushed \/ Submit \/ Drain \/ Drained
Owner == Admit \/ TakeAnswer
Worker ==
    \/ BeginCapture \/ EndCapture \/ ComponentState \/ Take \/ TakeNothing \/ Transition
    \/ PendingStart \/ PendingPop \/ PendingEmpty \/ PollStart \/ PendingWait
    \/ FinishStart \/ StartedInAudio \/ CaptureInAudio \/ Publish \/ Synced

Next ==
    \/ SetProcessing \/ Process \/ Callback
    \/ Save \/ Restore \/ Owner
    \/ Worker \/ PeerStep \/ Fault \/ Recover

Spec == Init /\ [][Next]_vars

-----------------------------------------------------------------------------
(* Properties.                                                             *)

Bytes == [Params -> 0 .. MaxStamps]
Requests == [kind : {"none", "START", "STOP", "AUDIO"}, epoch : 0 .. MaxEpochs,
             ticket : 0 .. MaxPublished, edits : Bytes, sync : BOOLEAN]

\* The types of the state; the queue, the tickets and the epochs stay within
\* the named bounds, and startup_edits_pending is zero or an epoch.
TypeOK ==
    /\ mode \in Modes
    /\ cb \in [pc : {"idle", "ready", "replay", "push", "drain"},
               epoch : 0 .. MaxEpochs, running : BOOLEAN, retained : Bytes,
               sync : 0 .. MaxPublished, rev : 0 .. MaxStamps,
               submitted : 0 .. MaxPublished, completed : 0 .. MaxPublished,
               edits : Bytes, flush : BOOLEAN]
    /\ ctl.pc \in {"idle", "admit", "wait"}
    /\ ctl.op \in {0, 16, 18} /\ ctl.barrier \in 0 .. MaxPublished
    /\ ctl.covers \in Bytes
    /\ w.pc \in {"top", "take", "transition", "pstart",
                 "pop1", "pop2", "poll", "pwait", "finish", "audio", "sync",
                 "exit"}
    /\ w.item \in Requests /\ Len(w.deferred) <= 1
    /\ \A i \in 1 .. Len(requests) : requests[i] \in Requests
    /\ published \in 0 .. MaxPublished /\ Len(requests) <= published
    /\ \A i \in 1 .. Len(results) :
         results[i] \in [epoch : 0 .. MaxEpochs, ticket : 0 .. MaxPublished]
    /\ shared \in [pending : 0 .. MaxEpochs, revision : 0 .. MaxStamps,
                   ready : 0 .. MaxEpochs, wanted : 0 .. MaxEpochs,
                   lastEdit : 0 .. MaxPublished,
                   fault : {"none", "outside", "own"}, hint : BOOLEAN]
    /\ mbox.st \in {"none", "asked", "answered"} /\ mbox.bytes \in Bytes
    /\ session \in [running : BOOLEAN, epoch : 0 .. MaxEpochs]
    /\ peer.start \in {"none", "asked", "acked"}
    /\ peer.capture.st \in {"none", "taken", "done"}
    /\ plugin \in Bytes /\ accepted \in Bytes /\ snap.bytes \in Bytes

\* A save that succeeds holds every edit and restore whose call had returned
\* before the save was requested, retained start-up edits included
\* (control, complete_control, admitted_control_precedes).
SaveCovers ==
    mbox.st = "answered" /\ mbox.op = 16 /\ mbox.ok =>
        \A p \in Params : mbox.bytes[p] >= ctl.covers[p]

\* The plug-in never goes back: no replayed, queued or overlapped edit
\* overwrites a newer edit or a restore, except by recovery from a snapshot
\* (the revision check of process, the replay order, the STOP fence of op 18).
NoStaleEdit ==
    [][\/ clock'.generation # clock.generation
       \/ \A p \in Params : plugin'[p] >= plugin[p]]_vars

\* ap6_snapshot.uncaptured.
Uncaptured ==
    \/ snap.generation # clock.generation
    \/ shared.pending # 0
    \/ shared.lastEdit > snap.through

\* A snapshot reported as holding every edit does: recovery from it loses no
\* edit or restore that returned to the DAW.
UncapturedDisclosed ==
    snap.generation # 0 /\ ~Uncaptured =>
        \A p \in Params : snap.bytes[p] >= accepted[p]

\* The bridge never fails itself: completions come in ticket order, AUDIO
\* reaches the session at its epoch, a restore never meets a running session,
\* whatever the interleaving of callback, owner and worker, and every word
\* keeps its type.
NoOwnFault == TypeOK /\ shared.fault # "own"

\* The worker does not sleep on a pending start over a published request: the
\* second look at the queue comes after the wake snapshot.
StartSeesRequests == w.pc = "pwait" /\ Healthy /\ ~shared.hint => requests = <<>>

\* Edits that are pending and no longer retained are in a replay packet that
\* the worker has still to serve and that will acknowledge their epoch: a
\* stopped callback need not run again before a save is possible.
PendingHasSync ==
    Healthy /\ cb.pc = "idle" /\ shared.pending # 0 /\ Edited(cb.retained) = {}
        => \E item \in {w.item} \cup Range(w.deferred) \cup Range(requests) :
               item.sync /\ item.epoch = shared.pending
=============================================================================
