-------------------------- MODULE DirectAudioProofs --------------------------
(***************************************************************************)
(* Proofs about the direct audio hand-off, for every number of playbacks   *)
(* and of host calls: the slot has one owner at a time, an accepted reply  *)
(* answers the waiting call, and no wake is lost.                          *)
(***************************************************************************)
EXTENDS DirectAudio, TLAPS

-----------------------------------------------------------------------------
(* The inductive invariant: who owns the slot *)

\* Render holds a request it decoded and has not answered.
Rendering == {"vendor", "reply", "copy_reply", "uncancelled", "set_reply"}

\* The host call was accepted by the session and has not left it.
InCall == {"input", "publish", "flags", "copy_request", "set_request", "snapshot",
           "terminal", "deadline", "flag", "enter", "asleep", "copy_reply", "recheck",
           "redeadline", "release", "validate", "output", "finish"}

\* The callback published its request, or is about to, and has not released the slot.
InSlot == {"copy_request", "set_request", "snapshot", "terminal", "deadline", "flag",
           "enter", "asleep", "copy_reply", "recheck", "redeadline", "release"}

\* The slot holds a request, or a call being rendered, or a reply, never two of them,
\* and what it holds was published by the endpoint that still counts it outstanding.
SlotInv ==
    /\ pc["render"] = "decode" => requestFlag = 1
    /\ pc["render"] \in Rendering => requestFlag = 0 /\ replyFlag = 0
    /\ requestFlag = 1 => replyFlag = 0
    /\ requestFlag = 1 \/ replyFlag = 1 \/ pc["render"] \in Rendering => outstanding
    /\ pc["callback"] \in {"copy_request", "set_request"} =>
          requestFlag = 0 /\ replyFlag = 0 /\ pc["render"] \notin Rendering
    /\ pc["callback"] \in {"copy_reply", "recheck", "redeadline", "release"} => replyFlag = 1

\* Where the callback has a request outstanding, and where it has not.  A request that is
\* outstanding after its call left the slot was cancelled: no stop can complete any more,
\* and the session accepts no other call.
CallInv ==
    /\ pc["callback"] \in InSlot => outstanding
    /\ pc["callback"] \in InCall \ InSlot => ~outstanding
    /\ pc["callback"] = "drop_release" => ~outstanding
    /\ pc["callback"] \in InCall => session.epoch = call.epoch /\ session.next = call.ticket
    /\ outstanding =>
          /\ session.epoch = call.epoch /\ session.next <= call.ticket
          /\ life \in {"running", "stop_sent"}
          /\ pc["callback"] \in {"idle", "dropped"} => terminal # 0
    /\ ~audioOwner => pc["callback"] \in {"dropped", "claim"} /\ ~outstanding

\* Playback runs while a host call does; an endpoint is replaced only while it is stopped;
\* a stop handed to render is the one the host asked for.
LifeInv ==
    /\ pc["callback"] \in InCall \cup {"fail"} => life = "running"
    /\ pc["callback"] \in {"drop_release", "dropped"} => life # "running"
    /\ pc["callback"] = "claim" => life = "stopped"
    /\ pc["windows"] = "stop" => life = "stop_ready" /\ ~control
    /\ control => life = "stop_ready"

\* Whatever the slot holds while the callback waits is its own call's.
AnswerInv ==
    /\ pc["callback"] \in InSlot \ {"copy_request"} =>
          /\ pc["callback"] = "set_request" \/ requestFlag = 1 => requestBytes = call
          /\ pc["render"] \in Rendering => rendering = call
          /\ pc["render"] \in {"uncancelled", "set_reply"} \/ replyFlag = 1 =>
                replyBytes = call
    /\ pc["callback"] = "validate" => replyBytes = call

OwnerInv == SlotInv /\ CallInv /\ LifeInv /\ AnswerInv

-----------------------------------------------------------------------------
(* The inductive invariant: who owes a wake *)

\* Actor a has yet to increment w, and to wake its waiter after that.
Due(a, w) == w \in duty[a] /\ ~(bumped[a] /\ FirstDuty(a) = w)

\* The callback is past the check of a condition that holds: it will miss it.
ReplyMissed ==
    \/ terminal # 0 /\ pc["callback"] \in {"deadline", "flag", "enter"}
    \/ replyFlag = 1 /\ pc["callback"] = "enter"

\* Render is past the check of a condition that holds.
RequestMissed ==
    \/ terminal # 0 /\ pc["render"] \in {"request", "control", "enter"}
    \/ requestFlag = 1 /\ pc["render"] \in {"control", "enter"}
    \/ control /\ pc["render"] = "enter"

\* The death watch has yet to cancel for a peer that died.
WatchPending == PeerDead /\ pc["native"] = "serving"

\* An increment in progress is of an owed notification.
DutyInv == \A a \in Actors : bumped[a] => duty[a] # {}

\* A condition the callback missed moves the word before it can sleep.
CallbackWakeInv ==
    ReplyMissed /\ ~moved["reply"] => (\E a \in Actors : Due(a, "reply")) \/ WatchPending

\* A condition render missed moves the word before it can sleep.
RenderWakeInv ==
    RequestMissed /\ ~moved["request"] => \E a \in Actors : Due(a, "request")

\* After the death watch has cancelled, its own notification is the one that counts.
WatchInv ==
    pc["native"] # "serving" =>
        /\ terminal # 0
        /\ pc["callback"] \in {"deadline", "flag", "enter"} =>
              moved["reply"] \/ Due("native", "reply")
        /\ pc["callback"] = "asleep" => "reply" \in duty["native"]

WakeInv == DutyInv /\ CallbackWakeInv /\ RenderWakeInv /\ WatchInv /\ NoLostWake

IInv == TypeOK /\ OwnerInv /\ WakeInv

-----------------------------------------------------------------------------
(* Groups of steps that touch the same state *)

\* The callback goes on without touching a word.
CallbackMove ==
    \/ CallRejected \/ InputWritten \/ TerminalSeen \/ PublishTerminal
    \/ ReplyTerminal \/ ReplyDeadline \/ ReplyFlagRead \/ ReplyWait \/ CopyReply
    \/ ReplyRecheck \/ ReplyRedeadline \/ ReplyValidated \/ OutputRead \/ DropQuiet
    \/ ClaimTerminal \/ SpuriousWake("callback")

\* Render goes on without touching a word.
RenderMove ==
    \/ RequestTerminal \/ RequestFlagRead \/ RequestWait \/ RequestRefused
    \/ VendorReturns \/ SendOccupied \/ SendTerminal \/ SpuriousWake("render")

\* One of the places that cancel the channel.
Cancellation ==
    \/ DeadlineExpires \/ ReplyRefused \/ CallFails \/ DropCancels \/ RenderCancels
    \/ WindowsCancels \/ NativeCancels

\* The callback begins a call and publishes its request.
PublishStep ==
    CallBegin \/ PublishFlags \/ CopyRequest \/ SetRequest

\* The callback releases the slot and completes the call.
ReplyStep ==
    ReplyRelease \/ CallCompletes

\* The audio claim is given back and taken again.
ClaimStep ==
    DropReleases \/ ClaimAudio

\* Render takes a request and answers it.
AnswerStep ==
    RequestDecode \/ SendCopy \/ SendFlag

\* A waiter reads its wake word.
SnapshotStep ==
    ReplySnapshot \/ RequestSnapshot

\* Playback stops and starts.
LifeStep ==
    \/ HostStop \/ HostStart \/ LifecycleReady \/ LifecycleHandoff \/ ControlTaken

\* A deadline passes, an owner fails or is marked.
FailureMark ==
    \/ DeadlinePasses \/ RenderMarksFailure \/ WindowsOwnerFails
    \/ WindowsMarksFailure

\* Every step belongs to a group.
LEMMA StepKinds ==
    ASSUME Next
    PROVE  \/ CallbackMove \/ RenderMove \/ Cancellation \/ PublishStep
           \/ ReplyStep \/ ClaimStep \/ AnswerStep \/ SnapshotStep
           \/ LifeStep \/ FailureMark
           \/ PeerDies \/ \E a \in Actors : NotifyBump(a) \/ NotifyWake(a)
  BY DEF Next, CallbackStep, RenderStep, NotifyStep, Setup,
         CallbackMove, RenderMove, Cancellation, PublishStep, ReplyStep, ClaimStep,
         AnswerStep, SnapshotStep, LifeStep, FailureMark

-----------------------------------------------------------------------------
(* Every step keeps the types *)

\* Each group of variables has its type.
PcTypes ==
    /\ pc \in [Actors -> CallbackPcs \cup RenderPcs \cup OwnerPcs]
    /\ pc["callback"] \in CallbackPcs /\ pc["render"] \in RenderPcs

WakeTypes ==
    /\ moved \in [Words -> BOOLEAN]
    /\ duty \in [Actors -> SUBSET Words]
    /\ bumped \in [Actors -> BOOLEAN]

SwitchTypes ==
    /\ control \in BOOLEAN /\ audioOwner \in BOOLEAN /\ outstanding \in BOOLEAN
    /\ late \in BOOLEAN /\ fault \in BOOLEAN /\ ownerFailed \in BOOLEAN

CallTypes ==
    /\ requestBytes \in Calls /\ replyBytes \in Calls /\ rendering \in Calls
    /\ call \in Calls
    /\ session \in [epoch : 0 .. MaxEpoch, next : 1 .. MaxTicket + 1]

WordTypes ==
    /\ terminal \in 0 .. 3 /\ requestFlag \in {0, 1} /\ replyFlag \in {0, 1}
    /\ life \in {"running", "stop_sent", "stop_ready", "stopped"}

\* The type invariant by groups of variables.
LEMMA TypeParts ==
    TypeOK <=> PcTypes /\ WakeTypes /\ SwitchTypes /\ CallTypes /\ WordTypes
  BY DEF TypeOK, PcTypes, WakeTypes, SwitchTypes, CallTypes, WordTypes

\* Every actor stays at one of its own labels.
LEMMA PcTyped == ASSUME TypeOK, Next PROVE PcTypes'
<1> USE DEF words, region, wakes, caller, peer, At, Goto, PcTypes, TypeOK, Actors,
           Words, CallbackPcs, RenderPcs, OwnerPcs
<1>1. CASE CallbackMove
  BY <1>1 DEF CallbackMove, CallRejected, InputWritten, TerminalSeen, PublishTerminal,
            ReplyTerminal, ReplyDeadline, ReplyFlagRead, ReplyWait, CopyReply,
            ReplyRecheck, ReplyRedeadline, ReplyValidated, OutputRead, DropQuiet,
            ClaimTerminal, SpuriousWake
<1>2. CASE RenderMove
  BY <1>2 DEF RenderMove, RequestTerminal, RequestFlagRead, RequestWait,
            RequestRefused, VendorReturns, SendOccupied, SendTerminal, SpuriousWake
<1>3. CASE Cancellation
  BY <1>3 DEF Cancellation, DeadlineExpires, ReplyRefused, CallFails, DropCancels,
            RenderCancels, WindowsCancels, NativeCancels, Cancel, Notify
<1>4. CASE PublishStep
  BY <1>4 DEF PublishStep, CallBegin, PublishFlags, CopyRequest, SetRequest, Notify,
            Accepts
<1>5. CASE ReplyStep
  BY <1>5 DEF ReplyStep, ReplyRelease, CallCompletes
<1>6. CASE ClaimStep
  BY <1>6 DEF ClaimStep, DropReleases, ClaimAudio
<1>7. CASE AnswerStep
  BY <1>7 DEF AnswerStep, RequestDecode, SendCopy, SendFlag, Notify
<1>8. CASE SnapshotStep
  BY <1>8 DEF SnapshotStep, ReplySnapshot, RequestSnapshot
<1>9. CASE LifeStep
  BY <1>9 DEF LifeStep, HostStop, HostStart, LifecycleReady, LifecycleHandoff,
            ControlTaken, Notify
<1>10. CASE FailureMark
  BY <1>10 DEF FailureMark, DeadlinePasses, RenderMarksFailure, WindowsOwnerFails,
            WindowsMarksFailure
<1>11. CASE PeerDies
  BY <1>11 DEF PeerDies
<1>12. CASE \E a \in Actors : NotifyBump(a)
  BY <1>12 DEF NotifyBump, FirstDuty
<1>13. CASE \E a \in Actors : NotifyWake(a)
  BY <1>13 DEF NotifyWake, WaiterOf, FirstDuty
<1> QED
  BY <1>1, <1>2, <1>3, <1>4, <1>5, <1>6, <1>7, <1>8, <1>9, <1>10, <1>11, <1>12, <1>13,
     StepKinds

\* Notifications are owed and made for the two words only.
LEMMA WakesTyped == ASSUME TypeOK, Next PROVE WakeTypes'
<1> USE DEF words, region, wakes, caller, peer, At, Goto, WakeTypes, TypeOK, Actors,
           Words
<1>1. CASE CallbackMove
  BY <1>1 DEF CallbackMove, CallRejected, InputWritten, TerminalSeen, PublishTerminal,
            ReplyTerminal, ReplyDeadline, ReplyFlagRead, ReplyWait, CopyReply,
            ReplyRecheck, ReplyRedeadline, ReplyValidated, OutputRead, DropQuiet,
            ClaimTerminal, SpuriousWake
<1>2. CASE RenderMove
  BY <1>2 DEF RenderMove, RequestTerminal, RequestFlagRead, RequestWait,
            RequestRefused, VendorReturns, SendOccupied, SendTerminal, SpuriousWake
<1>3. CASE Cancellation
  BY <1>3 DEF Cancellation, DeadlineExpires, ReplyRefused, CallFails, DropCancels,
            RenderCancels, WindowsCancels, NativeCancels, Cancel, Notify
<1>4. CASE PublishStep
  BY <1>4 DEF PublishStep, CallBegin, PublishFlags, CopyRequest, SetRequest, Notify,
            Accepts
<1>5. CASE ReplyStep
  BY <1>5 DEF ReplyStep, ReplyRelease, CallCompletes
<1>6. CASE ClaimStep
  BY <1>6 DEF ClaimStep, DropReleases, ClaimAudio
<1>7. CASE AnswerStep
  BY <1>7 DEF AnswerStep, RequestDecode, SendCopy, SendFlag, Notify
<1>8. CASE SnapshotStep
  BY <1>8 DEF SnapshotStep, ReplySnapshot, RequestSnapshot
<1>9. CASE LifeStep
  BY <1>9 DEF LifeStep, HostStop, HostStart, LifecycleReady, LifecycleHandoff,
            ControlTaken, Notify
<1>10. CASE FailureMark
  BY <1>10 DEF FailureMark, DeadlinePasses, RenderMarksFailure, WindowsOwnerFails,
            WindowsMarksFailure
<1>11. CASE PeerDies
  BY <1>11 DEF PeerDies
<1>12. CASE \E a \in Actors : NotifyBump(a)
  BY <1>12 DEF NotifyBump, FirstDuty
<1>13. CASE \E a \in Actors : NotifyWake(a)
  BY <1>13 DEF NotifyWake, WaiterOf, FirstDuty
<1> QED
  BY <1>1, <1>2, <1>3, <1>4, <1>5, <1>6, <1>7, <1>8, <1>9, <1>10, <1>11, <1>12, <1>13,
     StepKinds

\* A switch stays on or off.
LEMMA SwitchesTyped == ASSUME TypeOK, Next PROVE SwitchTypes'
<1> USE DEF words, region, wakes, caller, peer, At, Goto, SwitchTypes, TypeOK, Actors,
           Words
<1>1. CASE CallbackMove
  BY <1>1 DEF CallbackMove, CallRejected, InputWritten, TerminalSeen, PublishTerminal,
            ReplyTerminal, ReplyDeadline, ReplyFlagRead, ReplyWait, CopyReply,
            ReplyRecheck, ReplyRedeadline, ReplyValidated, OutputRead, DropQuiet,
            ClaimTerminal, SpuriousWake
<1>2. CASE RenderMove
  BY <1>2 DEF RenderMove, RequestTerminal, RequestFlagRead, RequestWait,
            RequestRefused, VendorReturns, SendOccupied, SendTerminal, SpuriousWake
<1>3. CASE Cancellation
  BY <1>3 DEF Cancellation, DeadlineExpires, ReplyRefused, CallFails, DropCancels,
            RenderCancels, WindowsCancels, NativeCancels, Cancel, Notify
<1>4. CASE PublishStep
  BY <1>4 DEF PublishStep, CallBegin, PublishFlags, CopyRequest, SetRequest, Notify,
            Accepts
<1>5. CASE ReplyStep
  BY <1>5 DEF ReplyStep, ReplyRelease, CallCompletes
<1>6. CASE ClaimStep
  BY <1>6 DEF ClaimStep, DropReleases, ClaimAudio
<1>7. CASE AnswerStep
  BY <1>7 DEF AnswerStep, RequestDecode, SendCopy, SendFlag, Notify
<1>8. CASE SnapshotStep
  BY <1>8 DEF SnapshotStep, ReplySnapshot, RequestSnapshot
<1>9. CASE LifeStep
  BY <1>9 DEF LifeStep, HostStop, HostStart, LifecycleReady, LifecycleHandoff,
            ControlTaken, Notify
<1>10. CASE FailureMark
  BY <1>10 DEF FailureMark, DeadlinePasses, RenderMarksFailure, WindowsOwnerFails,
            WindowsMarksFailure
<1>11. CASE PeerDies
  BY <1>11 DEF PeerDies
<1>12. CASE \E a \in Actors : NotifyBump(a)
  BY <1>12 DEF NotifyBump, FirstDuty
<1>13. CASE \E a \in Actors : NotifyWake(a)
  BY <1>13 DEF NotifyWake, WaiterOf, FirstDuty
<1> QED
  BY <1>1, <1>2, <1>3, <1>4, <1>5, <1>6, <1>7, <1>8, <1>9, <1>10, <1>11, <1>12, <1>13,
     StepKinds

\* The session counts no further than one past the host's calls.
LEMMA CallsTyped == ASSUME TypeOK, CallInv, Next PROVE CallTypes'
<1> USE BoundsAssumption DEF words, region, wakes, caller, peer, At, Goto, CallTypes,
           TypeOK, Actors, Words, Calls, CallInv, InCall, InSlot
<1>1. CASE CallbackMove
  BY <1>1 DEF CallbackMove, CallRejected, InputWritten, TerminalSeen, PublishTerminal,
            ReplyTerminal, ReplyDeadline, ReplyFlagRead, ReplyWait, CopyReply,
            ReplyRecheck, ReplyRedeadline, ReplyValidated, OutputRead, DropQuiet,
            ClaimTerminal, SpuriousWake
<1>2. CASE RenderMove
  BY <1>2 DEF RenderMove, RequestTerminal, RequestFlagRead, RequestWait,
            RequestRefused, VendorReturns, SendOccupied, SendTerminal, SpuriousWake
<1>3. CASE Cancellation
  BY <1>3 DEF Cancellation, DeadlineExpires, ReplyRefused, CallFails, DropCancels,
            RenderCancels, WindowsCancels, NativeCancels, Cancel, Notify
<1>4. CASE PublishStep
  BY <1>4 DEF PublishStep, CallBegin, PublishFlags, CopyRequest, SetRequest, Notify,
            Accepts
<1>5. CASE ReplyStep
  BY <1>5 DEF ReplyStep, ReplyRelease, CallCompletes
<1>6. CASE ClaimStep
  BY <1>6 DEF ClaimStep, DropReleases, ClaimAudio
<1>7. CASE AnswerStep
  BY <1>7 DEF AnswerStep, RequestDecode, SendCopy, SendFlag, Notify
<1>8. CASE SnapshotStep
  BY <1>8 DEF SnapshotStep, ReplySnapshot, RequestSnapshot
<1>9. CASE LifeStep
  BY <1>9 DEF LifeStep, HostStop, HostStart, LifecycleReady, LifecycleHandoff,
            ControlTaken, Notify
<1>10. CASE FailureMark
  BY <1>10 DEF FailureMark, DeadlinePasses, RenderMarksFailure, WindowsOwnerFails,
            WindowsMarksFailure
<1>11. CASE PeerDies
  BY <1>11 DEF PeerDies
<1>12. CASE \E a \in Actors : NotifyBump(a)
  BY <1>12 DEF NotifyBump, FirstDuty
<1>13. CASE \E a \in Actors : NotifyWake(a)
  BY <1>13 DEF NotifyWake, WaiterOf, FirstDuty
<1> QED
  BY <1>1, <1>2, <1>3, <1>4, <1>5, <1>6, <1>7, <1>8, <1>9, <1>10, <1>11, <1>12, <1>13,
     StepKinds

\* The shared words keep the values of their protocols.
LEMMA WordsTyped == ASSUME TypeOK, Next PROVE WordTypes'
<1> USE DEF words, region, wakes, caller, peer, At, Goto, WordTypes, TypeOK, Actors,
           Words
<1>1. CASE CallbackMove
  BY <1>1 DEF CallbackMove, CallRejected, InputWritten, TerminalSeen, PublishTerminal,
            ReplyTerminal, ReplyDeadline, ReplyFlagRead, ReplyWait, CopyReply,
            ReplyRecheck, ReplyRedeadline, ReplyValidated, OutputRead, DropQuiet,
            ClaimTerminal, SpuriousWake
<1>2. CASE RenderMove
  BY <1>2 DEF RenderMove, RequestTerminal, RequestFlagRead, RequestWait,
            RequestRefused, VendorReturns, SendOccupied, SendTerminal, SpuriousWake
<1>3. CASE Cancellation
  BY <1>3 DEF Cancellation, DeadlineExpires, ReplyRefused, CallFails, DropCancels,
            RenderCancels, WindowsCancels, NativeCancels, Cancel, Notify
<1>4. CASE PublishStep
  BY <1>4 DEF PublishStep, CallBegin, PublishFlags, CopyRequest, SetRequest, Notify,
            Accepts
<1>5. CASE ReplyStep
  BY <1>5 DEF ReplyStep, ReplyRelease, CallCompletes
<1>6. CASE ClaimStep
  BY <1>6 DEF ClaimStep, DropReleases, ClaimAudio
<1>7. CASE AnswerStep
  BY <1>7 DEF AnswerStep, RequestDecode, SendCopy, SendFlag, Notify
<1>8. CASE SnapshotStep
  BY <1>8 DEF SnapshotStep, ReplySnapshot, RequestSnapshot
<1>9. CASE LifeStep
  BY <1>9 DEF LifeStep, HostStop, HostStart, LifecycleReady, LifecycleHandoff,
            ControlTaken, Notify
<1>10. CASE FailureMark
  BY <1>10 DEF FailureMark, DeadlinePasses, RenderMarksFailure, WindowsOwnerFails,
            WindowsMarksFailure
<1>11. CASE PeerDies
  BY <1>11 DEF PeerDies
<1>12. CASE \E a \in Actors : NotifyBump(a)
  BY <1>12 DEF NotifyBump, FirstDuty
<1>13. CASE \E a \in Actors : NotifyWake(a)
  BY <1>13 DEF NotifyWake, WaiterOf, FirstDuty
<1> QED
  BY <1>1, <1>2, <1>3, <1>4, <1>5, <1>6, <1>7, <1>8, <1>9, <1>10, <1>11, <1>12, <1>13,
     StepKinds

-----------------------------------------------------------------------------
(* Every step keeps who owns the slot *)

\* The slot keeps one owner.
LEMMA SlotKept == ASSUME TypeOK, OwnerInv, Next PROVE SlotInv'
<1> USE DEF words, region, wakes, caller, peer, At, Goto, TypeOK, InCall, InSlot,
           Rendering, Actors, OwnerInv, SlotInv, CallInv
<1>1. CASE CallbackMove
  BY <1>1 DEF CallbackMove, CallRejected, InputWritten, TerminalSeen, PublishTerminal,
            ReplyTerminal, ReplyDeadline, ReplyFlagRead, ReplyWait, CopyReply,
            ReplyRecheck, ReplyRedeadline, ReplyValidated, OutputRead, DropQuiet,
            ClaimTerminal, SpuriousWake
<1>2. CASE RenderMove
  BY <1>2 DEF RenderMove, RequestTerminal, RequestFlagRead, RequestWait,
            RequestRefused, VendorReturns, SendOccupied, SendTerminal, SpuriousWake
<1>3. CASE Cancellation
  BY <1>3 DEF Cancellation, DeadlineExpires, ReplyRefused, CallFails, DropCancels,
            RenderCancels, WindowsCancels, NativeCancels, Cancel, Notify
<1>4. CASE PublishStep
  BY <1>4 DEF PublishStep, CallBegin, PublishFlags, CopyRequest, SetRequest, Notify,
            Accepts
<1>5. CASE ReplyStep
  BY <1>5 DEF ReplyStep, ReplyRelease, CallCompletes
<1>6. CASE ClaimStep
  BY <1>6 DEF ClaimStep, DropReleases, ClaimAudio
<1>7. CASE AnswerStep
  BY <1>7 DEF AnswerStep, RequestDecode, SendCopy, SendFlag, Notify
<1>8. CASE SnapshotStep
  BY <1>8 DEF SnapshotStep, ReplySnapshot, RequestSnapshot
<1>9. CASE LifeStep
  BY <1>9 DEF LifeStep, HostStop, HostStart, LifecycleReady, LifecycleHandoff,
            ControlTaken, Notify
<1>10. CASE FailureMark
  BY <1>10 DEF FailureMark, DeadlinePasses, RenderMarksFailure, WindowsOwnerFails,
            WindowsMarksFailure
<1>11. CASE PeerDies
  BY <1>11 DEF PeerDies
<1>12. CASE \E a \in Actors : NotifyBump(a)
  BY <1>12 DEF NotifyBump, FirstDuty
<1>13. CASE \E a \in Actors : NotifyWake(a)
  BY <1>13 DEF NotifyWake, WaiterOf, FirstDuty
<1> QED
  BY <1>1, <1>2, <1>3, <1>4, <1>5, <1>6, <1>7, <1>8, <1>9, <1>10, <1>11, <1>12, <1>13,
     StepKinds

\* What is outstanding stays counted until the slot is released or the channel cancelled.
LEMMA CallKept == ASSUME TypeOK, OwnerInv, Next PROVE CallInv'
<1> USE BoundsAssumption DEF words, region, wakes, caller, peer, At, Goto, TypeOK,
           InCall, InSlot, Rendering, Actors, CallbackPcs, Calls, OwnerInv, SlotInv,
           CallInv, LifeInv
<1>1. CASE CallbackMove
  BY <1>1 DEF CallbackMove, CallRejected, InputWritten, TerminalSeen, PublishTerminal,
            ReplyTerminal, ReplyDeadline, ReplyFlagRead, ReplyWait, CopyReply,
            ReplyRecheck, ReplyRedeadline, ReplyValidated, OutputRead, DropQuiet,
            ClaimTerminal, SpuriousWake
<1>2. CASE RenderMove
  BY <1>2 DEF RenderMove, RequestTerminal, RequestFlagRead, RequestWait,
            RequestRefused, VendorReturns, SendOccupied, SendTerminal, SpuriousWake
<1>3. CASE Cancellation
  BY <1>3 DEF Cancellation, DeadlineExpires, ReplyRefused, CallFails, DropCancels,
            RenderCancels, WindowsCancels, NativeCancels, Cancel, Notify
<1>4. CASE PublishStep
  BY <1>4 DEF PublishStep, CallBegin, PublishFlags, CopyRequest, SetRequest, Notify,
            Accepts
<1>5. CASE ReplyStep
  BY <1>5 DEF ReplyStep, ReplyRelease, CallCompletes
<1>6. CASE ClaimStep
  BY <1>6 DEF ClaimStep, DropReleases, ClaimAudio
<1>7. CASE AnswerStep
  BY <1>7 DEF AnswerStep, RequestDecode, SendCopy, SendFlag, Notify
<1>8. CASE SnapshotStep
  BY <1>8 DEF SnapshotStep, ReplySnapshot, RequestSnapshot
<1>9. CASE LifeStep
  BY <1>9 DEF LifeStep, HostStop, HostStart, LifecycleReady, LifecycleHandoff,
            ControlTaken, Notify
<1>10. CASE FailureMark
  BY <1>10 DEF FailureMark, DeadlinePasses, RenderMarksFailure, WindowsOwnerFails,
            WindowsMarksFailure
<1>11. CASE PeerDies
  BY <1>11 DEF PeerDies
<1>12. CASE \E a \in Actors : NotifyBump(a)
  BY <1>12 DEF NotifyBump, FirstDuty
<1>13. CASE \E a \in Actors : NotifyWake(a)
  BY <1>13 DEF NotifyWake, WaiterOf, FirstDuty
<1> QED
  BY <1>1, <1>2, <1>3, <1>4, <1>5, <1>6, <1>7, <1>8, <1>9, <1>10, <1>11, <1>12, <1>13,
     StepKinds

\* Playback and the endpoint change places only when the other is at rest.
LEMMA LifeKept == ASSUME TypeOK, OwnerInv, Next PROVE LifeInv'
<1> USE DEF words, region, wakes, caller, peer, At, Goto, TypeOK, InCall, InSlot,
           Rendering, Actors, OwnerInv, LifeInv
<1>1. CASE CallbackMove
  BY <1>1 DEF CallbackMove, CallRejected, InputWritten, TerminalSeen, PublishTerminal,
            ReplyTerminal, ReplyDeadline, ReplyFlagRead, ReplyWait, CopyReply,
            ReplyRecheck, ReplyRedeadline, ReplyValidated, OutputRead, DropQuiet,
            ClaimTerminal, SpuriousWake
<1>2. CASE RenderMove
  BY <1>2 DEF RenderMove, RequestTerminal, RequestFlagRead, RequestWait,
            RequestRefused, VendorReturns, SendOccupied, SendTerminal, SpuriousWake
<1>3. CASE Cancellation
  BY <1>3 DEF Cancellation, DeadlineExpires, ReplyRefused, CallFails, DropCancels,
            RenderCancels, WindowsCancels, NativeCancels, Cancel, Notify
<1>4. CASE PublishStep
  BY <1>4 DEF PublishStep, CallBegin, PublishFlags, CopyRequest, SetRequest, Notify,
            Accepts
<1>5. CASE ReplyStep
  BY <1>5 DEF ReplyStep, ReplyRelease, CallCompletes
<1>6. CASE ClaimStep
  BY <1>6 DEF ClaimStep, DropReleases, ClaimAudio
<1>7. CASE AnswerStep
  BY <1>7 DEF AnswerStep, RequestDecode, SendCopy, SendFlag, Notify
<1>8. CASE SnapshotStep
  BY <1>8 DEF SnapshotStep, ReplySnapshot, RequestSnapshot
<1>9. CASE LifeStep
  BY <1>9 DEF LifeStep, HostStop, HostStart, LifecycleReady, LifecycleHandoff,
            ControlTaken, Notify
<1>10. CASE FailureMark
  BY <1>10 DEF FailureMark, DeadlinePasses, RenderMarksFailure, WindowsOwnerFails,
            WindowsMarksFailure
<1>11. CASE PeerDies
  BY <1>11 DEF PeerDies
<1>12. CASE \E a \in Actors : NotifyBump(a)
  BY <1>12 DEF NotifyBump, FirstDuty
<1>13. CASE \E a \in Actors : NotifyWake(a)
  BY <1>13 DEF NotifyWake, WaiterOf, FirstDuty
<1> QED
  BY <1>1, <1>2, <1>3, <1>4, <1>5, <1>6, <1>7, <1>8, <1>9, <1>10, <1>11, <1>12, <1>13,
     StepKinds

\* The bytes in the slot stay those of the call that waits.
LEMMA AnswerKept == ASSUME TypeOK, OwnerInv, Next PROVE AnswerInv'
<1> USE DEF words, region, wakes, caller, peer, At, Goto, TypeOK, InCall, InSlot,
           Rendering, Actors, OwnerInv, SlotInv, CallInv, AnswerInv
<1>1. CASE CallbackMove
  BY <1>1 DEF CallbackMove, CallRejected, InputWritten, TerminalSeen, PublishTerminal,
            ReplyTerminal, ReplyDeadline, ReplyFlagRead, ReplyWait, CopyReply,
            ReplyRecheck, ReplyRedeadline, ReplyValidated, OutputRead, DropQuiet,
            ClaimTerminal, SpuriousWake
<1>2. CASE RenderMove
  BY <1>2 DEF RenderMove, RequestTerminal, RequestFlagRead, RequestWait,
            RequestRefused, VendorReturns, SendOccupied, SendTerminal, SpuriousWake
<1>3. CASE Cancellation
  BY <1>3 DEF Cancellation, DeadlineExpires, ReplyRefused, CallFails, DropCancels,
            RenderCancels, WindowsCancels, NativeCancels, Cancel, Notify
<1>4. CASE PublishStep
  BY <1>4 DEF PublishStep, CallBegin, PublishFlags, CopyRequest, SetRequest, Notify,
            Accepts
<1>5. CASE ReplyStep
  BY <1>5 DEF ReplyStep, ReplyRelease, CallCompletes
<1>6. CASE ClaimStep
  BY <1>6 DEF ClaimStep, DropReleases, ClaimAudio
<1>7. CASE AnswerStep
  BY <1>7 DEF AnswerStep, RequestDecode, SendCopy, SendFlag, Notify
<1>8. CASE SnapshotStep
  BY <1>8 DEF SnapshotStep, ReplySnapshot, RequestSnapshot
<1>9. CASE LifeStep
  BY <1>9 DEF LifeStep, HostStop, HostStart, LifecycleReady, LifecycleHandoff,
            ControlTaken, Notify
<1>10. CASE FailureMark
  BY <1>10 DEF FailureMark, DeadlinePasses, RenderMarksFailure, WindowsOwnerFails,
            WindowsMarksFailure
<1>11. CASE PeerDies
  BY <1>11 DEF PeerDies
<1>12. CASE \E a \in Actors : NotifyBump(a)
  BY <1>12 DEF NotifyBump, FirstDuty
<1>13. CASE \E a \in Actors : NotifyWake(a)
  BY <1>13 DEF NotifyWake, WaiterOf, FirstDuty
<1> QED
  BY <1>1, <1>2, <1>3, <1>4, <1>5, <1>6, <1>7, <1>8, <1>9, <1>10, <1>11, <1>12, <1>13,
     StepKinds

-----------------------------------------------------------------------------
(* Every step keeps who owes a wake *)

\* Only an owed word is incremented.
LEMMA DutyKept == ASSUME TypeOK, WakeInv, Next PROVE DutyInv'
<1> USE DEF words, region, wakes, caller, peer, At, Goto, TypeOK, Actors, Words,
           CallbackPcs, RenderPcs, DutyInv, WakeInv
<1>1. CASE CallbackMove
  BY <1>1 DEF CallbackMove, CallRejected, InputWritten, TerminalSeen, PublishTerminal,
            ReplyTerminal, ReplyDeadline, ReplyFlagRead, ReplyWait, CopyReply,
            ReplyRecheck, ReplyRedeadline, ReplyValidated, OutputRead, DropQuiet,
            ClaimTerminal, SpuriousWake
<1>2. CASE RenderMove
  BY <1>2 DEF RenderMove, RequestTerminal, RequestFlagRead, RequestWait,
            RequestRefused, VendorReturns, SendOccupied, SendTerminal, SpuriousWake
<1>3. CASE Cancellation
  BY <1>3 DEF Cancellation, DeadlineExpires, ReplyRefused, CallFails, DropCancels,
            RenderCancels, WindowsCancels, NativeCancels, Cancel, Notify
<1>4. CASE PublishStep
  BY <1>4 DEF PublishStep, CallBegin, PublishFlags, CopyRequest, SetRequest, Notify,
            Accepts
<1>5. CASE ReplyStep
  BY <1>5 DEF ReplyStep, ReplyRelease, CallCompletes
<1>6. CASE ClaimStep
  BY <1>6 DEF ClaimStep, DropReleases, ClaimAudio
<1>7. CASE AnswerStep
  BY <1>7 DEF AnswerStep, RequestDecode, SendCopy, SendFlag, Notify
<1>8. CASE SnapshotStep
  BY <1>8 DEF SnapshotStep, ReplySnapshot, RequestSnapshot
<1>9. CASE LifeStep
  BY <1>9 DEF LifeStep, HostStop, HostStart, LifecycleReady, LifecycleHandoff,
            ControlTaken, Notify
<1>10. CASE FailureMark
  BY <1>10 DEF FailureMark, DeadlinePasses, RenderMarksFailure, WindowsOwnerFails,
            WindowsMarksFailure
<1>11. CASE PeerDies
  BY <1>11 DEF PeerDies
<1>12. CASE \E a \in Actors : NotifyBump(a)
  BY <1>12 DEF NotifyBump, FirstDuty
<1>13. CASE \E a \in Actors : NotifyWake(a)
  BY <1>13 DEF NotifyWake, WaiterOf, FirstDuty
<1> QED
  BY <1>1, <1>2, <1>3, <1>4, <1>5, <1>6, <1>7, <1>8, <1>9, <1>10, <1>11, <1>12, <1>13,
     StepKinds

\* What the callback misses is still owed to it.
LEMMA CallbackWakeKept == ASSUME TypeOK, WakeInv, Next PROVE CallbackWakeInv'
<1> USE DEF words, region, wakes, caller, peer, At, Goto, TypeOK, Actors, Words,
           CallbackPcs, RenderPcs, DutyInv, WakeInv, Due, ReplyMissed, WatchPending,
           PeerDead, CallbackWakeInv, WatchInv, FirstDuty
<1>1. CASE CallbackMove
  BY <1>1 DEF CallbackMove, CallRejected, InputWritten, TerminalSeen, PublishTerminal,
            ReplyTerminal, ReplyDeadline, ReplyFlagRead, ReplyWait, CopyReply,
            ReplyRecheck, ReplyRedeadline, ReplyValidated, OutputRead, DropQuiet,
            ClaimTerminal, SpuriousWake
<1>2. CASE RenderMove
  BY <1>2 DEF RenderMove, RequestTerminal, RequestFlagRead, RequestWait,
            RequestRefused, VendorReturns, SendOccupied, SendTerminal, SpuriousWake
<1>3. CASE Cancellation
  BY <1>3 DEF Cancellation, DeadlineExpires, ReplyRefused, CallFails, DropCancels,
            RenderCancels, WindowsCancels, NativeCancels, Cancel, Notify
<1>4. CASE PublishStep
  BY <1>4 DEF PublishStep, CallBegin, PublishFlags, CopyRequest, SetRequest, Notify,
            Accepts
<1>5. CASE ReplyStep
  BY <1>5 DEF ReplyStep, ReplyRelease, CallCompletes
<1>6. CASE ClaimStep
  BY <1>6 DEF ClaimStep, DropReleases, ClaimAudio
<1>7. CASE AnswerStep
  BY <1>7 DEF AnswerStep, RequestDecode, SendCopy, SendFlag, Notify
<1>8. CASE SnapshotStep
  BY <1>8 DEF SnapshotStep, ReplySnapshot, RequestSnapshot
<1>9. CASE LifeStep
  BY <1>9 DEF LifeStep, HostStop, HostStart, LifecycleReady, LifecycleHandoff,
            ControlTaken, Notify
<1>10. CASE FailureMark
  BY <1>10 DEF FailureMark, DeadlinePasses, RenderMarksFailure, WindowsOwnerFails,
            WindowsMarksFailure
<1>11. CASE PeerDies
  BY <1>11 DEF PeerDies
<1>12. CASE \E a \in Actors : NotifyBump(a)
  BY <1>12 DEF NotifyBump, FirstDuty
<1>13. CASE \E a \in Actors : NotifyWake(a)
  BY <1>13 DEF NotifyWake, WaiterOf, FirstDuty
<1> QED
  BY <1>1, <1>2, <1>3, <1>4, <1>5, <1>6, <1>7, <1>8, <1>9, <1>10, <1>11, <1>12, <1>13,
     StepKinds

\* What render misses is still owed to it.
LEMMA RenderWakeKept == ASSUME TypeOK, WakeInv, Next PROVE RenderWakeInv'
<1> USE DEF words, region, wakes, caller, peer, At, Goto, TypeOK, Actors, Words,
           CallbackPcs, RenderPcs, DutyInv, WakeInv, Due, RequestMissed, RenderWakeInv,
           FirstDuty
<1>1. CASE CallbackMove
  BY <1>1 DEF CallbackMove, CallRejected, InputWritten, TerminalSeen, PublishTerminal,
            ReplyTerminal, ReplyDeadline, ReplyFlagRead, ReplyWait, CopyReply,
            ReplyRecheck, ReplyRedeadline, ReplyValidated, OutputRead, DropQuiet,
            ClaimTerminal, SpuriousWake
<1>2. CASE RenderMove
  BY <1>2 DEF RenderMove, RequestTerminal, RequestFlagRead, RequestWait,
            RequestRefused, VendorReturns, SendOccupied, SendTerminal, SpuriousWake
<1>3. CASE Cancellation
  BY <1>3 DEF Cancellation, DeadlineExpires, ReplyRefused, CallFails, DropCancels,
            RenderCancels, WindowsCancels, NativeCancels, Cancel, Notify
<1>4. CASE PublishStep
  BY <1>4 DEF PublishStep, CallBegin, PublishFlags, CopyRequest, SetRequest, Notify,
            Accepts
<1>5. CASE ReplyStep
  BY <1>5 DEF ReplyStep, ReplyRelease, CallCompletes
<1>6. CASE ClaimStep
  BY <1>6 DEF ClaimStep, DropReleases, ClaimAudio
<1>7. CASE AnswerStep
  BY <1>7 DEF AnswerStep, RequestDecode, SendCopy, SendFlag, Notify
<1>8. CASE SnapshotStep
  BY <1>8 DEF SnapshotStep, ReplySnapshot, RequestSnapshot
<1>9. CASE LifeStep
  BY <1>9 DEF LifeStep, HostStop, HostStart, LifecycleReady, LifecycleHandoff,
            ControlTaken, Notify
<1>10. CASE FailureMark
  BY <1>10 DEF FailureMark, DeadlinePasses, RenderMarksFailure, WindowsOwnerFails,
            WindowsMarksFailure
<1>11. CASE PeerDies
  BY <1>11 DEF PeerDies
<1>12. CASE \E a \in Actors : NotifyBump(a)
  BY <1>12 DEF NotifyBump, FirstDuty
<1>13. CASE \E a \in Actors : NotifyWake(a)
  BY <1>13 DEF NotifyWake, WaiterOf, FirstDuty
<1> QED
  BY <1>1, <1>2, <1>3, <1>4, <1>5, <1>6, <1>7, <1>8, <1>9, <1>10, <1>11, <1>12, <1>13,
     StepKinds

\* The death watch notifies the callback itself, whatever died before it.
LEMMA WatchKept == ASSUME TypeOK, WakeInv, Next PROVE WatchInv'
<1> USE DEF words, region, wakes, caller, peer, At, Goto, TypeOK, Actors, Words,
           CallbackPcs, RenderPcs, DutyInv, WakeInv, Due, WatchInv, FirstDuty
<1>1. CASE CallbackMove
  BY <1>1 DEF CallbackMove, CallRejected, InputWritten, TerminalSeen, PublishTerminal,
            ReplyTerminal, ReplyDeadline, ReplyFlagRead, ReplyWait, CopyReply,
            ReplyRecheck, ReplyRedeadline, ReplyValidated, OutputRead, DropQuiet,
            ClaimTerminal, SpuriousWake
<1>2. CASE RenderMove
  BY <1>2 DEF RenderMove, RequestTerminal, RequestFlagRead, RequestWait,
            RequestRefused, VendorReturns, SendOccupied, SendTerminal, SpuriousWake
<1>3. CASE Cancellation
  BY <1>3 DEF Cancellation, DeadlineExpires, ReplyRefused, CallFails, DropCancels,
            RenderCancels, WindowsCancels, NativeCancels, Cancel, Notify
<1>4. CASE PublishStep
  BY <1>4 DEF PublishStep, CallBegin, PublishFlags, CopyRequest, SetRequest, Notify,
            Accepts
<1>5. CASE ReplyStep
  BY <1>5 DEF ReplyStep, ReplyRelease, CallCompletes
<1>6. CASE ClaimStep
  BY <1>6 DEF ClaimStep, DropReleases, ClaimAudio
<1>7. CASE AnswerStep
  BY <1>7 DEF AnswerStep, RequestDecode, SendCopy, SendFlag, Notify
<1>8. CASE SnapshotStep
  BY <1>8 DEF SnapshotStep, ReplySnapshot, RequestSnapshot
<1>9. CASE LifeStep
  BY <1>9 DEF LifeStep, HostStop, HostStart, LifecycleReady, LifecycleHandoff,
            ControlTaken, Notify
<1>10. CASE FailureMark
  BY <1>10 DEF FailureMark, DeadlinePasses, RenderMarksFailure, WindowsOwnerFails,
            WindowsMarksFailure
<1>11. CASE PeerDies
  BY <1>11 DEF PeerDies
<1>12. CASE \E a \in Actors : NotifyBump(a)
  BY <1>12 DEF NotifyBump, FirstDuty
<1>13. CASE \E a \in Actors : NotifyWake(a)
  BY <1>13 DEF NotifyWake, WaiterOf, FirstDuty
<1> QED
  BY <1>1, <1>2, <1>3, <1>4, <1>5, <1>6, <1>7, <1>8, <1>9, <1>10, <1>11, <1>12, <1>13,
     StepKinds

\* A waiter that falls asleep, or sleeps while its condition comes to hold, is owed a wake.
LEMMA NoLostWakeKept == ASSUME TypeOK, WakeInv, Next PROVE NoLostWake'
<1> USE DEF words, region, wakes, caller, peer, At, Goto, TypeOK, Actors, Words,
           CallbackPcs, RenderPcs, DutyInv, WakeInv, Due, ReplyMissed, RequestMissed,
           WatchPending, PeerDead, CallbackWakeInv, RenderWakeInv, WatchInv,
           NoLostWake, FirstDuty
<1>1. CASE CallbackMove
  BY <1>1 DEF CallbackMove, CallRejected, InputWritten, TerminalSeen, PublishTerminal,
            ReplyTerminal, ReplyDeadline, ReplyFlagRead, ReplyWait, CopyReply,
            ReplyRecheck, ReplyRedeadline, ReplyValidated, OutputRead, DropQuiet,
            ClaimTerminal, SpuriousWake
<1>2. CASE RenderMove
  BY <1>2 DEF RenderMove, RequestTerminal, RequestFlagRead, RequestWait,
            RequestRefused, VendorReturns, SendOccupied, SendTerminal, SpuriousWake
<1>3. CASE Cancellation
  BY <1>3 DEF Cancellation, DeadlineExpires, ReplyRefused, CallFails, DropCancels,
            RenderCancels, WindowsCancels, NativeCancels, Cancel, Notify
<1>4. CASE PublishStep
  BY <1>4 DEF PublishStep, CallBegin, PublishFlags, CopyRequest, SetRequest, Notify,
            Accepts
<1>5. CASE ReplyStep
  BY <1>5 DEF ReplyStep, ReplyRelease, CallCompletes
<1>6. CASE ClaimStep
  BY <1>6 DEF ClaimStep, DropReleases, ClaimAudio
<1>7. CASE AnswerStep
  BY <1>7 DEF AnswerStep, RequestDecode, SendCopy, SendFlag, Notify
<1>8. CASE SnapshotStep
  BY <1>8 DEF SnapshotStep, ReplySnapshot, RequestSnapshot
<1>9. CASE LifeStep
  BY <1>9 DEF LifeStep, HostStop, HostStart, LifecycleReady, LifecycleHandoff,
            ControlTaken, Notify
<1>10. CASE FailureMark
  BY <1>10 DEF FailureMark, DeadlinePasses, RenderMarksFailure, WindowsOwnerFails,
            WindowsMarksFailure
<1>11. CASE PeerDies
  BY <1>11 DEF PeerDies
<1>12. CASE \E a \in Actors : NotifyBump(a)
  BY <1>12 DEF NotifyBump, FirstDuty
<1>13. CASE \E a \in Actors : NotifyWake(a)
  BY <1>13 DEF NotifyWake, WaiterOf, FirstDuty
<1> QED
  BY <1>1, <1>2, <1>3, <1>4, <1>5, <1>6, <1>7, <1>8, <1>9, <1>10, <1>11, <1>12, <1>13,
     StepKinds

-----------------------------------------------------------------------------
(* The invariant *)

\* A stopped playback with an empty slot satisfies the invariant.
LEMMA InitEstablishes == Init => IInv
<1> SUFFICES ASSUME Init PROVE IInv
  OBVIOUS
<1> USE BoundsAssumption DEF Init, Actors, Words
<1>1. PcTypes /\ WakeTypes
  BY DEF PcTypes, WakeTypes, CallbackPcs, RenderPcs, OwnerPcs
<1>2. SwitchTypes
  BY DEF SwitchTypes
<1>3. CallTypes /\ WordTypes
  BY DEF CallTypes, WordTypes, Calls, NoCall
<1>4. pc["callback"] = "idle" /\ pc["render"] = "stopped" /\ pc["windows"] = "serving"
      /\ pc["native"] = "serving"
  OBVIOUS
<1>5. SlotInv /\ CallInv /\ LifeInv /\ AnswerInv
  BY <1>4 DEF SlotInv, CallInv, LifeInv, AnswerInv, InCall, InSlot, Rendering
<1>6. WakeInv
  BY <1>4 DEF WakeInv, DutyInv, CallbackWakeInv, RenderWakeInv, WatchInv, NoLostWake,
              ReplyMissed, RequestMissed
<1> QED
  BY <1>1, <1>2, <1>3, <1>5, <1>6, TypeParts DEF IInv, OwnerInv

\* Every step of every actor keeps the invariant.
LEMMA NextPreserves == IInv /\ [Next]_vars => IInv'
<1> SUFFICES ASSUME IInv, [Next]_vars PROVE IInv'
  OBVIOUS
<1>1. CASE Next
  <2>1. TypeOK /\ OwnerInv /\ CallInv /\ WakeInv
    BY DEF IInv, OwnerInv
  <2>2. TypeOK'
    <3>1. PcTypes' /\ WakeTypes' /\ SwitchTypes'
      BY <1>1, <2>1, PcTyped, WakesTyped, SwitchesTyped
    <3>2. CallTypes' /\ WordTypes'
      BY <1>1, <2>1, CallsTyped, WordsTyped
    <3> QED
      BY <3>1, <3>2 DEF TypeOK, PcTypes, WakeTypes, SwitchTypes, CallTypes, WordTypes
  <2>3. OwnerInv'
    BY <1>1, <2>1, SlotKept, CallKept, LifeKept, AnswerKept DEF OwnerInv
  <2>4. WakeInv'
    BY <1>1, <2>1, DutyKept, CallbackWakeKept, RenderWakeKept, WatchKept, NoLostWakeKept
    DEF WakeInv
  <2> QED
    BY <2>2, <2>3, <2>4 DEF IInv
<1>2. CASE UNCHANGED vars
  <2> USE <1>2 DEF vars, words, region, wakes, caller, peer
  <2>1. TypeOK'
    BY DEF IInv, TypeOK
  <2>2. OwnerInv'
    BY DEF IInv, OwnerInv, SlotInv, CallInv, LifeInv, AnswerInv
  <2>3. WakeInv'
    BY DEF IInv, WakeInv, DutyInv, CallbackWakeInv, RenderWakeInv, WatchInv, NoLostWake,
           ReplyMissed, RequestMissed, Due, FirstDuty, WatchPending, PeerDead
  <2> QED
    BY <2>1, <2>2, <2>3 DEF IInv
<1> QED
  BY <1>1, <1>2

\* The inductive invariant holds in every reachable state.
LEMMA Invariance == Spec => []IInv
  BY InitEstablishes, NextPreserves, PTL DEF Spec

-----------------------------------------------------------------------------
(* Safety *)

\* For every number of playbacks and calls, the request bytes, the reply bytes and the audio
\* planes are touched by one process at a time, and a claim given back at a setup leaves
\* nothing of the old endpoint in flight (AudioEndpoint::publish, receive and drop against
\* DeliveryMailbox::receive and send).
THEOREM SlotHasOneOwner == Spec => []SlotOwnership
<1>1. IInv => SlotOwnership
  <2> SUFFICES ASSUME IInv PROVE SlotOwnership
    OBVIOUS
  <2> USE DEF IInv, OwnerInv, InCall, InSlot, Rendering
  <2>1. NoByteRace
    BY DEF NoByteRace, SlotInv
  <2>2. NoPlaneRace
    BY DEF NoPlaneRace, SlotInv, CallInv
  <2>3. FreeClaimIsQuiet
    BY DEF FreeClaimIsQuiet, SlotInv, CallInv, TypeOK
  <2> QED
    BY <2>1, <2>2, <2>3 DEF SlotOwnership
<1> QED
  BY Invariance, <1>1, PTL

\* A reply accepted from the slot answers the call that is waiting, however late earlier
\* answers come (AudioEndpoint::receive).
THEOREM RepliesAreFresh == Spec => []NoStaleReply
<1>1. IInv => NoStaleReply
  BY DEF IInv, OwnerInv, NoStaleReply, AnswerInv, SlotInv, InSlot
<1> QED
  BY Invariance, <1>1, PTL

\* Neither waiter sleeps on a condition that holds unless a wake is still owed, or the
\* death watch has yet to speak for a dead peer (the futex protocol of both sides).
THEOREM WakesAreOwed == Spec => []NoLostWake
<1>1. IInv => NoLostWake
  BY DEF IInv, WakeInv
<1> QED
  BY Invariance, <1>1, PTL

=============================================================================
