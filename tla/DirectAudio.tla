----------------------------- MODULE DirectAudio -----------------------------
(***************************************************************************)
(* Prepared delivery v4: the shared-memory hand-off of one audio request   *)
(* and its reply between the DAW's callback thread and the Windows render  *)
(* thread, without a relay.                                                *)
(*                                                                         *)
(*   callback  native-vst3-proxy/backend/src/direct_audio.rs               *)
(*             and direct_audio_session.rs, called from queued.rs          *)
(*   render    windows-factory-probe/source/delivery_mailbox.h,            *)
(*             called from mapped_processing.cpp                           *)
(*   native    the native worker and the peer-death watch (queued.rs)      *)
(*   windows   the Windows owner thread and its transport-death callback   *)
(*                                                                         *)
(* Each of the two waiters sleeps on a futex word.  Of such a counter only *)
(* one thing matters to the sleep: whether it moved since the waiter's     *)
(* snapshot.  That bit is moved[w]; the code relies on fewer than 2^32     *)
(* notifications during one wait.  A notification is an increment followed *)
(* by a wake, in two steps; the words an actor still has to notify are     *)
(* duty[a], the request word before the reply word.                        *)
(***************************************************************************)
EXTENDS Naturals

CONSTANTS MaxEpoch,   \* bound: playback starts explored
          MaxTicket   \* bound: host calls explored in one playback

ASSUME BoundsAssumption == MaxEpoch \in Nat /\ MaxTicket \in Nat

VARIABLES terminal,      \* TERMINAL: 0 or the code of the first cancellation
          control,       \* CONTROL: a lifecycle frame is ready for render
          audioOwner,    \* AUDIO_OWNER: the callback's claim on the audio bytes
          requestFlag, replyFlag,    \* REQUEST_FLAG, REPLY_FLAG
          requestBytes, replyBytes,  \* whose call the bytes belong to
          moved,         \* moved[w]: w was incremented since its waiter's snapshot
          duty, bumped,  \* notifications actor a still owes; the first is incremented
          pc,            \* where each actor is
          call,          \* the callback's [epoch, ticket] of the latest host call
          session,       \* AudioSession: [epoch, next] it will publish
          outstanding,   \* AudioEndpoint.outstanding
          late,          \* the host call's deadline has passed
          fault,         \* Shared.fault or cancelled: new host calls are refused
          rendering,     \* the call render decoded last
          ownerFailed,   \* owner_failure on the Windows side
          life           \* running, stop_sent, stop_ready or stopped

region == <<requestFlag, replyFlag, requestBytes, replyBytes>>
words == <<terminal, control, audioOwner>>
wakes == <<moved, duty, bumped>>
caller == <<call, session, outstanding, late, fault>>
peer == <<rendering, ownerFailed, life>>
vars == <<words, region, wakes, pc, caller, peer>>

Actors == {"callback", "render", "native", "windows"}
Words == {"request", "reply"}
Calls == [epoch : 0 .. MaxEpoch, ticket : 0 .. MaxTicket]
NoCall == [epoch |-> 0, ticket |-> 0]

CallbackPcs == {"idle", "input", "publish", "flags", "copy_request", "set_request",
                "snapshot", "terminal", "deadline", "flag", "enter", "asleep",
                "copy_reply", "recheck", "redeadline", "release", "validate",
                "output", "finish", "fail", "drop_release", "dropped", "claim"}
RenderPcs == {"stopped", "snapshot", "terminal", "request", "decode", "control",
              "enter", "asleep", "vendor", "reply", "copy_reply", "uncancelled",
              "set_reply", "error", "failed", "dead"}
OwnerPcs == {"serving", "stop", "failing", "done", "dead"}

Init ==
    /\ terminal = 0 /\ control = FALSE /\ audioOwner = TRUE
    /\ requestFlag = 0 /\ replyFlag = 0
    /\ requestBytes = NoCall /\ replyBytes = NoCall
    /\ moved = [w \in Words |-> TRUE]
    /\ duty = [a \in Actors |-> {}]
    /\ bumped = [a \in Actors |-> FALSE]
    /\ pc = [a \in Actors |-> CASE a = "callback" -> "idle"
                                [] a = "render" -> "stopped"
                                [] OTHER -> "serving"]
    /\ call = NoCall
    /\ session = [epoch |-> 0, next |-> 1]
    /\ outstanding = FALSE /\ late = FALSE /\ fault = FALSE
    /\ rendering = NoCall /\ ownerFailed = FALSE
    /\ life = "stopped"

-----------------------------------------------------------------------------
(* Notification *)

\* Actor a is at label and owes no notification of an earlier step.
At(a, label) == pc[a] = label /\ duty[a] = {}
Goto(a, label) == pc' = [pc EXCEPT ![a] = label]

Notify(a, ws) == duty' = [duty EXCEPT ![a] = ws] /\ UNCHANGED <<moved, bumped>>

\* Endpoint::cancel and DeliveryMailbox::cancel: the first code stays, and both
\* waiters are notified whoever wins.
Cancel(a, code) ==
    /\ terminal' = IF terminal = 0 THEN code ELSE terminal
    /\ UNCHANGED <<control, audioOwner>>
    /\ Notify(a, Words)

FirstDuty(a) == IF "request" \in duty[a] THEN "request" ELSE "reply"
WaiterOf(w) == IF w = "request" THEN "render" ELSE "callback"

NotifyBump(a) ==
    /\ duty[a] # {}
    /\ ~bumped[a]
    /\ moved' = [moved EXCEPT ![FirstDuty(a)] = TRUE]
    /\ bumped' = [bumped EXCEPT ![a] = TRUE]
    /\ UNCHANGED <<words, region, duty, pc, caller, peer>>

NotifyWake(a) ==
    /\ bumped[a]
    /\ LET u == WaiterOf(FirstDuty(a))
       IN  pc' = IF pc[u] = "asleep" THEN [pc EXCEPT ![u] = "snapshot"] ELSE pc
    /\ duty' = [duty EXCEPT ![a] = @ \ {FirstDuty(a)}]
    /\ bumped' = [bumped EXCEPT ![a] = FALSE]
    /\ UNCHANGED <<words, region, moved, caller, peer>>

-----------------------------------------------------------------------------
(* The callback: Callback::process_outputs_until_traced and AudioSession      *)

\* The epoch and ticket the session accepts next: its own, or the first ticket of
\* the epoch right after its own.
Accepts(item) ==
    \/ item.epoch = session.epoch /\ item.ticket = session.next
    \/ item.epoch = session.epoch + 1 /\ item.ticket = 1

\* A host call gets the next ticket of its epoch; one the session does not accept
\* fails before any shared byte is written.
CallBegin ==
    /\ At("callback", "idle")
    /\ life = "running" /\ ~fault
    /\ call.ticket < MaxTicket
    /\ call' = [call EXCEPT !.ticket = @ + 1]
    /\ late' = FALSE
    /\ IF Accepts(call')
       THEN /\ session' = [epoch |-> call.epoch, next |-> call'.ticket]
            /\ Goto("callback", "input")
       ELSE /\ session' = session
            /\ Goto("callback", "fail")
    /\ UNCHANGED <<words, region, wakes, outstanding, fault, peer>>

\* Extent checks on the caller's block, events and context refuse it.
CallRejected ==
    /\ At("callback", "input")
    /\ Goto("callback", "fail")
    /\ UNCHANGED <<words, region, wakes, caller, peer>>

\* The input planes are written and the deadline is still ahead.
InputWritten ==
    /\ At("callback", "input")
    /\ ~late
    /\ Goto("callback", "publish")
    /\ UNCHANGED <<words, region, wakes, caller, peer>>

\* Mutant of DeadlineExpires: the call takes its request back and gives up, and the
\* next call gets the slot.
DeadlineExpiresRetracting ==
    /\ \E label \in {"input", "deadline", "enter", "asleep", "redeadline", "finish"} :
          At("callback", label)
    /\ late
    /\ requestFlag' = 0 /\ outstanding' = FALSE
    /\ session' = [session EXCEPT !.next = @ + 1]
    /\ Goto("callback", "idle")
    /\ UNCHANGED <<words, replyFlag, requestBytes, replyBytes, wakes, call, late, fault,
                   peer>>

\* Every place that finds the deadline passed cancels with code 2.
DeadlineExpires ==
    /\ \/ \E label \in {"input", "deadline", "enter", "asleep", "redeadline"} :
             At("callback", label)
       \/ At("callback", "finish") /\ terminal = 0
    /\ late
    /\ Cancel("callback", 2)
    /\ Goto("callback", "fail")
    /\ UNCHANGED <<region, caller, peer>>

\* Places that find a terminal code return Cancelled, without a fault of their own.
TerminalSeen ==
    /\ \/ At("callback", "publish")
       \/ At("callback", "terminal")
       \/ At("callback", "recheck")
       \/ At("callback", "finish")
    /\ terminal # 0
    /\ Goto("callback", "idle")
    /\ UNCHANGED <<words, region, wakes, caller, peer>>

PublishTerminal ==
    /\ At("callback", "publish")
    /\ terminal = 0
    /\ Goto("callback", IF outstanding THEN "fail" ELSE "flags")
    /\ UNCHANGED <<words, region, wakes, caller, peer>>

PublishFlags ==
    /\ At("callback", "flags")
    /\ IF requestFlag # 0 \/ replyFlag # 0
       THEN Goto("callback", "fail") /\ outstanding' = outstanding
       ELSE Goto("callback", "copy_request") /\ outstanding' = TRUE
    /\ UNCHANGED <<words, region, wakes, call, session, late, fault, peer>>

CopyRequest ==
    /\ At("callback", "copy_request")
    /\ requestBytes' = call
    /\ Goto("callback", "set_request")
    /\ UNCHANGED <<words, requestFlag, replyFlag, replyBytes, wakes, caller, peer>>

SetRequest ==
    /\ At("callback", "set_request")
    /\ requestFlag' = 1
    /\ Notify("callback", {"request"})
    /\ Goto("callback", "snapshot")
    /\ UNCHANGED <<words, replyFlag, requestBytes, replyBytes, caller, peer>>

\* AudioEndpoint::receive reads the wake word before it inspects anything.
ReplySnapshot ==
    /\ At("callback", "snapshot")
    /\ moved' = [moved EXCEPT !["reply"] = FALSE]
    /\ Goto("callback", "terminal")
    /\ UNCHANGED <<words, region, duty, bumped, caller, peer>>

ReplyTerminal ==
    /\ At("callback", "terminal")
    /\ terminal = 0
    /\ Goto("callback", "deadline")
    /\ UNCHANGED <<words, region, wakes, caller, peer>>

ReplyDeadline ==
    /\ At("callback", "deadline")
    /\ ~late
    /\ Goto("callback", "flag")
    /\ UNCHANGED <<words, region, wakes, caller, peer>>

\* Mutant of ReplyFlagRead: the wake word is sampled after the flag, not before.
ReplyFlagReadThenSnapshot ==
    /\ At("callback", "flag")
    /\ moved' = [moved EXCEPT !["reply"] = FALSE]
    /\ Goto("callback", IF replyFlag = 1 THEN "copy_reply" ELSE "enter")
    /\ UNCHANGED <<words, region, duty, bumped, caller, peer>>

ReplyFlagRead ==
    /\ At("callback", "flag")
    /\ Goto("callback", IF replyFlag = 1 THEN "copy_reply" ELSE "enter")
    /\ UNCHANGED <<words, region, wakes, caller, peer>>

\* FUTEX_WAIT compares the word with the snapshot before it sleeps.
ReplyWait ==
    /\ At("callback", "enter")
    /\ Goto("callback", IF moved["reply"] THEN "snapshot" ELSE "asleep")
    /\ UNCHANGED <<words, region, wakes, caller, peer>>

\* EINTR, or a kernel timeout just short of the deadline: look again.
SpuriousWake(a) ==
    /\ At(a, "asleep")
    /\ Goto(a, "snapshot")
    /\ UNCHANGED <<words, region, wakes, caller, peer>>

\* The reply was copied into private memory, unless its extent is refused.
CopyReply ==
    /\ At("callback", "copy_reply")
    /\ Goto("callback", "recheck")
    /\ UNCHANGED <<words, region, wakes, caller, peer>>

\* A reply whose extent or correlation is refused, or a wait the kernel refused.
ReplyRefused ==
    /\ \/ At("callback", "copy_reply")
       \/ At("callback", "enter")
       \/ At("callback", "validate") /\ replyBytes # call
    /\ Cancel("callback", 3)
    /\ Goto("callback", "fail")
    /\ UNCHANGED <<region, caller, peer>>

\* A deschedule during the copy must not release a cancelled or late slot.
ReplyRecheck ==
    /\ At("callback", "recheck")
    /\ terminal = 0
    /\ Goto("callback", "redeadline")
    /\ UNCHANGED <<words, region, wakes, caller, peer>>

ReplyRedeadline ==
    /\ At("callback", "redeadline")
    /\ ~late
    /\ Goto("callback", "release")
    /\ UNCHANGED <<words, region, wakes, caller, peer>>

\* Only a completed copy gives the slot its next use.
ReplyRelease ==
    /\ At("callback", "release")
    /\ replyFlag' = 0
    /\ outstanding' = FALSE
    /\ Goto("callback", "validate")
    /\ UNCHANGED <<words, requestFlag, requestBytes, replyBytes, wakes, call, session,
                   late, fault, peer>>

ReplyValidated ==
    /\ At("callback", "validate")
    /\ replyBytes = call
    /\ Goto("callback", "output")
    /\ UNCHANGED <<words, region, wakes, caller, peer>>

\* The output planes were read, or refused for a bad packet or sample.
OutputRead ==
    /\ At("callback", "output")
    /\ \E label \in {"finish", "fail"} : Goto("callback", label)
    /\ UNCHANGED <<words, region, wakes, caller, peer>>

CallCompletes ==
    /\ At("callback", "finish")
    /\ terminal = 0
    /\ ~late
    /\ session' = [session EXCEPT !.next = @ + 1]
    /\ Goto("callback", "idle")
    /\ UNCHANGED <<words, region, wakes, call, outstanding, late, fault, peer>>

\* Shared::fail or fail_deadline: the fault refuses later calls, and cancels again.
CallFails ==
    /\ At("callback", "fail")
    /\ fault' = TRUE
    /\ Cancel("callback", 3)
    /\ Goto("callback", "idle")
    /\ UNCHANGED <<region, call, session, outstanding, late, peer>>

\* Time passes the deadline of the call in progress.
DeadlinePasses ==
    /\ pc["callback"] \notin {"idle", "drop_release", "dropped", "claim"}
    /\ ~late
    /\ late' = TRUE
    /\ UNCHANGED <<words, region, wakes, pc, call, session, outstanding, fault, peer>>

-----------------------------------------------------------------------------
(* Lifecycle: playback stops and starts through the control lane, and a new   *)
(* setup replaces the endpoint while playback is stopped.                     *)

HostStop ==
    /\ At("callback", "idle")
    /\ life = "running" /\ ~fault
    /\ life' = "stop_sent"
    /\ UNCHANGED <<words, region, wakes, pc, caller, rendering, ownerFailed>>

\* The Started acknowledgement fences the first request of the new epoch.
HostStart ==
    /\ At("callback", "idle")
    /\ At("render", "stopped")
    /\ life = "stopped" /\ ~fault
    /\ call.epoch < MaxEpoch
    /\ call' = [epoch |-> call.epoch + 1, ticket |-> 0]
    /\ life' = "running"
    /\ Goto("render", "snapshot")
    /\ UNCHANGED <<words, region, wakes, session, outstanding, late, fault,
                   rendering, ownerFailed>>

\* Drop of the AudioEndpoint at the next setup: the host has stopped playback, the
\* peer may not have.
DropCancels ==
    /\ At("callback", "idle")
    /\ life # "running"
    /\ outstanding \/ terminal # 0
    /\ Cancel("callback", 1)
    /\ Goto("callback", "dropped")
    /\ UNCHANGED <<region, caller, peer>>

\* Mutant of DropQuiet: the claim is given back whatever is in flight.
DropQuietUnchecked ==
    /\ At("callback", "idle")
    /\ life # "running"
    /\ Goto("callback", "drop_release")
    /\ UNCHANGED <<words, region, wakes, caller, peer>>

DropQuiet ==
    /\ At("callback", "idle")
    /\ life # "running"
    /\ ~outstanding /\ terminal = 0
    /\ Goto("callback", "drop_release")
    /\ UNCHANGED <<words, region, wakes, caller, peer>>

DropReleases ==
    /\ At("callback", "drop_release")
    /\ audioOwner' = FALSE
    /\ Goto("callback", "dropped")
    /\ UNCHANGED <<terminal, control, region, wakes, caller, peer>>

\* claim_audio for the new AudioSession, made by the worker once it has served the
\* stop and the setup: refused when terminal, or while owned.
ClaimTerminal ==
    /\ At("callback", "dropped")
    /\ life = "stopped"
    /\ terminal = 0
    /\ Goto("callback", "claim")
    /\ UNCHANGED <<words, region, wakes, caller, peer>>

ClaimAudio ==
    /\ At("callback", "claim")
    /\ IF audioOwner
       THEN /\ Goto("callback", "dropped")
            /\ UNCHANGED <<audioOwner, session, outstanding>>
       ELSE /\ Goto("callback", "idle")
            /\ audioOwner' = TRUE
            /\ session' = [epoch |-> call.epoch, next |-> 1]
            /\ outstanding' = FALSE
    /\ UNCHANGED <<terminal, control, region, wakes, call, late, fault, peer>>

-----------------------------------------------------------------------------
(* The render thread: DeliveryMailbox::receive and send                       *)

RequestSnapshot ==
    /\ At("render", "snapshot")
    /\ moved' = [moved EXCEPT !["request"] = FALSE]
    /\ Goto("render", "terminal")
    /\ UNCHANGED <<words, region, duty, bumped, caller, peer>>

RequestTerminal ==
    /\ At("render", "terminal")
    /\ Goto("render", IF terminal = 0 /\ ~ownerFailed THEN "request" ELSE "error")
    /\ UNCHANGED <<words, region, wakes, caller, peer>>

RequestFlagRead ==
    /\ At("render", "request")
    /\ Goto("render", IF requestFlag = 1 THEN "decode" ELSE "control")
    /\ UNCHANGED <<words, region, wakes, caller, peer>>

\* Decoded into private memory; only then is the request flag cleared.
RequestDecode ==
    /\ At("render", "decode")
    /\ rendering' = requestBytes
    /\ requestFlag' = 0
    /\ Goto("render", "vendor")
    /\ UNCHANGED <<words, replyFlag, requestBytes, replyBytes, wakes, caller,
                   ownerFailed, life>>

\* A prepared lifecycle frame: render leaves the audio loop and stops.
ControlTaken ==
    /\ At("render", "control")
    /\ IF control
       THEN control' = FALSE /\ life' = "stopped" /\ Goto("render", "stopped")
       ELSE UNCHANGED <<control, life>> /\ Goto("render", "enter")
    /\ UNCHANGED <<terminal, audioOwner, region, wakes, caller, rendering, ownerFailed>>

RequestWait ==
    /\ At("render", "enter")
    /\ Goto("render", IF moved["request"] THEN "snapshot" ELSE "asleep")
    /\ UNCHANGED <<words, region, wakes, caller, peer>>

\* A request whose extent or kind is refused keeps its flag; a wait the kernel
\* refuses ends the loop too.
RequestRefused ==
    /\ At("render", "decode") \/ At("render", "enter")
    /\ Goto("render", "error")
    /\ UNCHANGED <<words, region, wakes, caller, peer>>

\* The vendor's process call reads the input planes and writes the output planes.
VendorReturns ==
    /\ At("render", "vendor")
    /\ \E label \in {"reply", "error"} : Goto("render", label)
    /\ UNCHANGED <<words, region, wakes, caller, peer>>

SendOccupied ==
    /\ At("render", "reply")
    /\ Goto("render", IF replyFlag = 0 THEN "copy_reply" ELSE "error")
    /\ UNCHANGED <<words, region, wakes, caller, peer>>

SendCopy ==
    /\ At("render", "copy_reply")
    /\ replyBytes' = rendering
    /\ Goto("render", "uncancelled")
    /\ UNCHANGED <<words, requestFlag, replyFlag, requestBytes, wakes, caller, peer>>

SendTerminal ==
    /\ At("render", "uncancelled")
    /\ Goto("render", IF terminal = 0 THEN "set_reply" ELSE "error")
    /\ UNCHANGED <<words, region, wakes, caller, peer>>

SendFlag ==
    /\ At("render", "set_reply")
    /\ replyFlag' = 1
    /\ Notify("render", {"reply"})
    /\ Goto("render", "snapshot")
    /\ UNCHANGED <<words, requestFlag, requestBytes, replyBytes, caller, peer>>

\* MappedSession's error path: cancel with code 3, then mark the owner failed.
RenderCancels ==
    /\ At("render", "error")
    /\ Cancel("render", 3)
    /\ Goto("render", "failed")
    /\ UNCHANGED <<region, caller, peer>>

RenderMarksFailure ==
    /\ At("render", "failed")
    /\ ~ownerFailed
    /\ ownerFailed' = TRUE
    /\ UNCHANGED <<words, region, wakes, pc, caller, rendering, life>>

-----------------------------------------------------------------------------
(* The owners *)

\* The Windows owner takes the Stop frame and hands it to render, unless the
\* channel is terminal or a hand-off is pending: then its service fails.
LifecycleReady ==
    /\ At("windows", "serving")
    /\ life = "stop_sent"
    /\ IF terminal = 0 /\ ~control
       THEN life' = "stop_ready" /\ Goto("windows", "stop")
       ELSE life' = life /\ Goto("windows", "failing")
    /\ UNCHANGED <<words, region, wakes, caller, rendering, ownerFailed>>

LifecycleHandoff ==
    /\ At("windows", "stop")
    /\ control' = TRUE
    /\ Notify("windows", {"request"})
    /\ Goto("windows", "serving")
    /\ UNCHANGED <<terminal, audioOwner, region, caller, peer>>

\* The editor, the owner service or the transport below it fails.
WindowsOwnerFails ==
    /\ At("windows", "serving")
    /\ Goto("windows", "failing")
    /\ UNCHANGED <<words, region, wakes, caller, peer>>

\* owner_failed marks the failure and then cancels; a dead transport only cancels.
WindowsMarksFailure ==
    /\ At("windows", "failing")
    /\ ~ownerFailed
    /\ ownerFailed' = TRUE
    /\ UNCHANGED <<words, region, wakes, pc, caller, rendering, life>>

WindowsCancels ==
    /\ At("windows", "failing")
    /\ Cancel("windows", 1)
    /\ Goto("windows", "done")
    /\ UNCHANGED <<region, caller, peer>>

\* The worker fails or is told to quit, or the death watch sees the peer's socket
\* close: refuse new calls, then cancel.
NativeCancels ==
    /\ At("native", "serving")
    /\ fault' = TRUE
    /\ \E code \in {1, 3} : Cancel("native", code)
    /\ Goto("native", "done")
    /\ UNCHANGED <<region, call, session, outstanding, late, peer>>

\* The Windows process dies: both of its threads stop, wherever they are, and
\* the notifications they owed are never made.
PeerDies ==
    /\ pc["render"] # "dead"
    /\ pc' = [pc EXCEPT !["render"] = "dead", !["windows"] = "dead"]
    /\ duty' = [duty EXCEPT !["render"] = {}, !["windows"] = {}]
    /\ bumped' = [bumped EXCEPT !["render"] = FALSE, !["windows"] = FALSE]
    /\ UNCHANGED <<words, region, moved, caller, peer>>

-----------------------------------------------------------------------------
\* Steps the callback thread takes by itself inside one host call.
CallbackStep ==
    \/ InputWritten \/ DeadlineExpires \/ TerminalSeen \/ PublishTerminal
    \/ PublishFlags \/ CopyRequest \/ SetRequest \/ ReplySnapshot \/ ReplyTerminal
    \/ ReplyDeadline \/ ReplyFlagRead \/ ReplyWait \/ CopyReply \/ ReplyRefused
    \/ ReplyRecheck \/ ReplyRedeadline \/ ReplyRelease \/ ReplyValidated
    \/ OutputRead \/ CallCompletes \/ CallFails

\* Steps the render thread takes by itself, the vendor's process call excepted.
RenderStep ==
    \/ RequestSnapshot \/ RequestTerminal \/ RequestFlagRead \/ RequestDecode
    \/ ControlTaken \/ RequestWait \/ SendOccupied \/ SendCopy \/ SendTerminal
    \/ SendFlag \/ RenderCancels \/ RenderMarksFailure

NotifyStep(a) == NotifyBump(a) \/ NotifyWake(a)

Setup == DropCancels \/ DropQuiet \/ DropReleases \/ ClaimTerminal \/ ClaimAudio

Next ==
    \/ CallbackStep \/ RenderStep \/ VendorReturns
    \/ \E a \in Actors : NotifyStep(a)
    \/ CallBegin \/ CallRejected \/ DeadlinePasses \/ RequestRefused
    \/ SpuriousWake("callback") \/ SpuriousWake("render")
    \/ HostStop \/ HostStart \/ Setup
    \/ LifecycleReady \/ LifecycleHandoff
    \/ WindowsOwnerFails \/ WindowsMarksFailure \/ WindowsCancels
    \/ NativeCancels \/ PeerDies

Spec == Init /\ [][Next]_vars

-----------------------------------------------------------------------------
\* Type invariant: the words hold the values their protocols give them.
TypeOK ==
    /\ terminal \in 0 .. 3
    /\ control \in BOOLEAN /\ audioOwner \in BOOLEAN
    /\ requestFlag \in {0, 1} /\ replyFlag \in {0, 1}
    /\ requestBytes \in Calls /\ replyBytes \in Calls /\ rendering \in Calls
    /\ moved \in [Words -> BOOLEAN]
    /\ duty \in [Actors -> SUBSET Words]
    /\ bumped \in [Actors -> BOOLEAN]
    /\ pc \in [Actors -> CallbackPcs \cup RenderPcs \cup OwnerPcs]
    /\ pc["callback"] \in CallbackPcs
    /\ pc["render"] \in RenderPcs
    /\ call \in Calls
    /\ session \in [epoch : 0 .. MaxEpoch, next : 1 .. MaxTicket + 1]
    /\ outstanding \in BOOLEAN /\ late \in BOOLEAN /\ fault \in BOOLEAN
    /\ ownerFailed \in BOOLEAN
    /\ life \in {"running", "stop_sent", "stop_ready", "stopped"}

\* The request and reply bytes are never touched by both processes at once,
\* whatever timeouts, cancellations and late answers interleave.
NoByteRace ==
    /\ ~(pc["callback"] = "copy_request" /\ pc["render"] = "decode")
    /\ ~(pc["callback"] = "copy_reply" /\ pc["render"] = "copy_reply")

\* The audio planes are never touched by both: while the vendor's code is
\* processing, the callback neither writes input nor reads output.
NoPlaneRace ==
    pc["render"] = "vendor" => pc["callback"] \notin {"input", "output"}

\* A reply that was accepted from the slot answers the call that is waiting: an
\* answer that comes after its call expired is never taken for the next one's.
NoStaleReply ==
    pc["callback"] \in {"release", "validate"} => replyBytes = call

\* While the audio claim is free, nothing of an earlier endpoint is in flight:
\* a new setup starts from an empty slot and a render thread at rest.
FreeClaimIsQuiet ==
    ~audioOwner =>
        /\ requestFlag = 0 /\ replyFlag = 0
        /\ pc["render"] \notin {"decode", "vendor", "reply", "copy_reply",
                                "uncancelled", "set_reply"}

\* Who owns the slot is never in doubt: bytes and planes are touched by one process
\* at a time and a free claim has nothing in flight, whatever deadlines, stops,
\* setups, cancellations and late answers interleave (publish, receive, send, drop).
SlotOwnership == TypeOK /\ NoByteRace /\ NoPlaneRace /\ FreeClaimIsQuiet

PeerDead == pc["render"] = "dead"

\* No wake is lost: a waiter never sleeps on a condition that already holds
\* unless somebody still owes it the wake, or the peer died owing it and the
\* death watch has yet to cancel.
NoLostWake ==
    /\ pc["callback"] = "asleep" /\ (replyFlag = 1 \/ terminal # 0) =>
          \/ \E a \in Actors : "reply" \in duty[a]
          \/ PeerDead /\ pc["native"] = "serving"
    /\ pc["render"] = "asleep" /\ (requestFlag = 1 \/ control \/ terminal # 0) =>
          \E a \in Actors : "request" \in duty[a]

\* The first call of every playback is accepted: its epoch is the one the session
\* adopts, whatever earlier playbacks did or did not process.
EveryStartAccepted ==
    pc["callback"] = "fail" /\ call.ticket = 1 => session.epoch = call.epoch
=============================================================================
