----------------------------- MODULE RelayRing -----------------------------
(***************************************************************************)
(* The command ring of a rayland session, end to end.                      *)
(*                                                                         *)
(*   machine C                                   machine S                 *)
(*   ---------                                   ---------                 *)
(*   application (Mesa)                          message thread `serve`    *)
(*     | tail, commands          C2S link          | applied tail, doorbell*)
(*   ring watcher ------------------------------>  ring thread             *)
(*   vtest thread (inline commands) ------------>    (virglrenderer)       *)
(*                               S2C link          | replies, head         *)
(*   reader thread <-----------------------------  progress thread         *)
(*     | consumed tail                                                     *)
(*   ring watcher: publishes head, which releases the application          *)
(*                                                                         *)
(* One unit of ring position is one command.  The code's cursors are u32   *)
(* byte counts that wrap; here they are natural numbers that do not (the   *)
(* wrapped arithmetic is a module of its own, see the README).  Ring slots *)
(* are reused modulo BufSize exactly as `cursor & buffer_mask` reuses them.*)
(*                                                                         *)
(* The watcher's IDLE/ALIVE status word and its parking are RingPark; the  *)
(* stall clock is StallClock.  Here a parked watcher is one that has not   *)
(* taken its next step yet: PARK_SLEEP always ends.                        *)
(***************************************************************************)
EXTENDS Integers, Sequences

CONSTANTS
    BufSize,    \* commands the ring holds (RingIdentity.buffer_size)
    MaxCmd,     \* bound: ring commands the application issues
    MaxMem,     \* bound: times the application writes its blob memory
    MaxInline   \* bound: inline commands the application issues

ASSUME RingAssumption ==
    /\ BufSize \in Nat \ {0}
    /\ MaxCmd \in Nat
    /\ MaxMem \in Nat
    /\ MaxInline \in Nat

VARIABLES
    \* the application and the ring's shared words on C
    tail,       \* the ring's tail word: written by Mesa
    head,       \* the ring's head word: written by the watcher, polled by Mesa
    cbuf,       \* the ring's command slots on C
    appMem,     \* version of the application's blob memory on C
    inlines,    \* inline commands issued so far
    \* rayland-c, ring watcher thread
    wpc,        \* where the watcher is in its loop
    lastTail,   \* RingWatcher.last_tail
    delta,      \* the commands of the delta in hand
    batch,      \* the messages still to ship, as messages_for_delta ordered them
    wConsumed,  \* the consumed tail the watcher read
    base,       \* LocalBlob.baseline: the version S has been told of
    \* rayland-c, vtest thread (RelayEngine::submit)
    vpc,        \* where the vtest thread is
    vAfter,     \* ghost: the tail when the application issued the inline command
    vTarget,    \* flush_ring's target
    \* rayland-c, shared Progress and what the reader thread has written
    relayed,    \* Progress.relayed_tail
    sent,       \* ghost: the tail of the last delta put on the link
    shipped,    \* Progress.shipped_tail
    consumed,   \* Progress.consumed_tail
    crep,       \* replies in C's reply arena: those of commands below crep
    pastFrontier, \* S acknowledged something never relayed (Ack::PastFrontier)
    \* the two directions of the link
    c2s, s2c,
    \* rayland-s
    spc,        \* where the message thread is; it holds the applier lock
                \* while it is not at "recv"
    sbuf,       \* the ring's command slots on S
    smem,       \* version of the blob memory on S
    applied,    \* RingMirror.applied_tail, which is also the tail word on S
    refused,    \* S answered a delta with an unsolicited error
    srep,       \* replies the ring thread has written into S's arena
    shead,      \* the head word on S: written by the ring thread
    ppc,        \* where the progress thread is
    reported,   \* RingMirror.reported_head
    srepShadow, \* HostBlob.shadow of the arena: replies C has been told of
    venus       \* the arena writes the progress thread is about to ship

appVars == <<tail, cbuf, appMem, inlines>>
watcherVars == <<wpc, lastTail, delta, batch, wConsumed, base, head>>
vtestVars == <<vpc, vAfter, vTarget>>
progressVars == <<relayed, sent, shipped, consumed>>
readerVars == <<crep, pastFrontier>>
messageVars == <<spc, sbuf, smem, applied, refused>>
ringThreadVars == <<srep, shead>>
progressThreadVars == <<ppc, reported, srepShadow, venus>>
vars == <<appVars, watcherVars, vtestVars, progressVars, readerVars, c2s, s2c,
          messageVars, ringThreadVars, progressThreadVars>>

-----------------------------------------------------------------------------
(* Commands and messages.                                                  *)

\* A ring command: its place in the stream, and the version of the blob
\* memory the application had written when it issued it (a vkQueueSubmit
\* that reads a buffer the application has just filled).
Command == [pos : Nat, need : Nat]

\* What an unused slot holds: no command, and so no memory it needs.
Empty == [pos |-> -1, need |-> 0]

Slot == Command \cup {Empty}

RingDelta(t, cmds) == [type |-> "RingDelta", tail |-> t, cmds |-> cmds]
BlobData(v) == [type |-> "BlobData", ver |-> v]

\* `after` and `ordered` are ghosts: the tail the application had published
\* when it issued the command, and whether flush_ring returned because the
\* ring had caught up (rather than because FLUSH_TIMEOUT expired).
SubmitCmd(a, o) == [type |-> "SubmitCmd", after |-> a, ordered |-> o]

C2SMessage ==
    [type : {"RingDelta"}, tail : Nat, cmds : Seq(Slot)]
      \cup [type : {"BlobData"}, ver : Nat]
      \cup [type : {"SubmitCmd"}, after : Nat, ordered : BOOLEAN]

ReplyData(r) == [type |-> "ReplyData", upto |-> r]
RingProgress(h) == [type |-> "RingProgress", tail |-> h]

S2CMessage ==
    [type : {"ReplyData"}, upto : Nat] \cup [type : {"RingProgress"}, tail : Nat]

SlotOf(p) == p % BufSize

-----------------------------------------------------------------------------
(* The application: Mesa's Venus driver, as the code's comments describe it. *)

\* vn_ring_submit: room for one more (vn_ring_has_space), the bytes, then the
\* tail.  A synchronous call then polls head; an asynchronous one does not.
AppIssue ==
    /\ tail < MaxCmd
    /\ tail + 1 - head <= BufSize
    /\ cbuf' = [cbuf EXCEPT ![SlotOf(tail)] = [pos |-> tail, need |-> appMem]]
    /\ tail' = tail + 1
    /\ UNCHANGED <<appMem, inlines, watcherVars, vtestVars, progressVars,
                   readerVars, c2s, s2c, messageVars, ringThreadVars,
                   progressThreadVars>>

\* The application stores to mapped memory; nothing is told of it.
AppWrite ==
    /\ appMem < MaxMem
    /\ appMem' = appMem + 1
    /\ UNCHANGED <<tail, cbuf, inlines, watcherVars, vtestVars, progressVars,
                   readerVars, c2s, s2c, messageVars, ringThreadVars,
                   progressThreadVars>>

\* The application sends a command over the vtest socket instead: a ring
\* creation, a vkNotifyRingMESA doorbell, a virtqueue seqno.
AppInline ==
    /\ vpc = "idle"
    /\ inlines < MaxInline
    /\ inlines' = inlines + 1
    /\ vpc' = "flush"
    /\ vAfter' = tail
    /\ UNCHANGED <<tail, cbuf, appMem, vTarget, watcherVars, progressVars,
                   readerVars, c2s, s2c, messageVars, ringThreadVars,
                   progressThreadVars>>

-----------------------------------------------------------------------------
(* The vtest thread on C: RelayEngine::submit and its barrier.             *)

\* flush_ring reads the ring's tail under the blob lock.
FlushTarget ==
    /\ vpc = "flush"
    /\ vTarget' = tail
    /\ vpc' = "wait"
    /\ UNCHANGED <<vAfter, appVars, watcherVars, progressVars, readerVars, c2s,
                   s2c, messageVars, ringThreadVars, progressThreadVars>>

\* Mutant: the barrier waits for what was drained rather than for what was
\* sent.
FlushedOnceRelayed == relayed >= vTarget

Flushed == shipped >= vTarget

\* The watcher holds the link lock `tx` from a batch's first message until
\* it has noted the batch shipped.
LinkHeld == wpc \in {"shipping", "note"}

\* The barrier is satisfied: the inline command goes out.
SubmitFlushed ==
    /\ vpc = "wait"
    /\ Flushed
    /\ ~LinkHeld
    /\ c2s' = Append(c2s, SubmitCmd(vAfter, TRUE))
    /\ vpc' = "idle"
    /\ UNCHANGED <<vAfter, vTarget, appVars, watcherVars, progressVars,
                   readerVars, s2c, messageVars, ringThreadVars,
                   progressThreadVars>>

\* FLUSH_TIMEOUT expired first: the command goes out anyway, and a message
\* on C's console says so.  By the time it gets the link lock the ring may
\* have caught up.
SubmitTimedOut ==
    /\ vpc = "wait"
    /\ ~LinkHeld
    /\ c2s' = Append(c2s, SubmitCmd(vAfter, FALSE))
    /\ vpc' = "idle"
    /\ UNCHANGED <<vAfter, vTarget, appVars, watcherVars, progressVars,
                   readerVars, s2c, messageVars, ringThreadVars,
                   progressThreadVars>>

-----------------------------------------------------------------------------
(* The ring watcher on C.                                                  *)

\* Mutant: drains one command too many.
DrainedPastTail(t) ==
    [i \in 1 .. t - lastTail + 1 |-> cbuf[SlotOf(lastTail + i - 1)]]

\* The commands from the watcher's frontier up to a tail it has read,
\* rejoined across the end of the buffer.
Drained(t) == [i \in 1 .. t - lastTail |-> cbuf[SlotOf(lastTail + i - 1)]]

\* take_delta found something: the frontier moves at once.
TakeDelta ==
    /\ wpc = "take"
    /\ tail # lastTail
    /\ delta' = Drained(tail)
    /\ lastTail' = tail
    /\ wpc' = "relay"
    /\ UNCHANGED <<batch, wConsumed, base, head, appVars, vtestVars,
                   progressVars, readerVars, c2s, s2c, messageVars,
                   ringThreadVars, progressThreadVars>>

\* Mutant: the frontier is not noted.
RelayUnnoted ==
    /\ wpc = "relay"
    /\ wpc' = "diff"
    /\ UNCHANGED <<lastTail, delta, batch, wConsumed, base, head, progressVars,
                   appVars, vtestVars, readerVars, c2s, s2c, messageVars,
                   ringThreadVars, progressThreadVars>>

\* Progress::note_relayed, before anything is sent.
NoteRelayed ==
    /\ wpc = "relay"
    /\ relayed' = lastTail
    /\ wpc' = "diff"
    /\ UNCHANGED <<lastTail, delta, batch, wConsumed, base, head, sent, shipped,
                   consumed, appVars, vtestVars, readerVars, c2s, s2c,
                   messageVars, ringThreadVars, progressThreadVars>>

\* What the blob diff adds to a batch: nothing when nothing changed.
ChangedRuns == IF appMem = base THEN << >> ELSE << BlobData(appMem) >>

\* Mutant: the ring first, the blobs last.
RingBeforeBlobs ==
    /\ wpc = "diff"
    /\ batch' = << RingDelta(lastTail, delta) >> \o ChangedRuns
    /\ base' = appMem
    /\ wpc' = "ship"
    /\ UNCHANGED <<lastTail, delta, wConsumed, head, appVars, vtestVars,
                   progressVars, readerVars, c2s, s2c, messageVars,
                   ringThreadVars, progressThreadVars>>

\* messages_for_delta, under the blob lock: the blobs first, the ring last.
MessagesForDelta ==
    /\ wpc = "diff"
    /\ batch' = Append(ChangedRuns, RingDelta(lastTail, delta))
    /\ base' = appMem
    /\ wpc' = "ship"
    /\ UNCHANGED <<lastTail, delta, wConsumed, head, appVars, vtestVars,
                   progressVars, readerVars, c2s, s2c, messageVars,
                   ringThreadVars, progressThreadVars>>

\* The batch goes out message by message under one hold of the link lock: no
\* other sender's message lands inside it, but S may apply and acknowledge a
\* message before the next one is sent.
ShipMessage ==
    /\ wpc \in {"ship", "shipping"}
    /\ c2s' = Append(c2s, Head(batch))
    /\ sent' = IF Head(batch).type = "RingDelta" THEN Head(batch).tail ELSE sent
    /\ batch' = Tail(batch)
    /\ wpc' = IF Tail(batch) = << >> THEN "note" ELSE "shipping"
    /\ UNCHANGED <<lastTail, delta, wConsumed, base, head, relayed, shipped,
                   consumed, appVars, vtestVars, readerVars, s2c, messageVars,
                   ringThreadVars, progressThreadVars>>

\* Progress::note_shipped, after the last send and still under the link lock.
\* Then `continue`.
NoteShipped ==
    /\ wpc = "note"
    /\ shipped' = lastTail
    /\ wpc' = "take"
    /\ UNCHANGED <<lastTail, delta, batch, wConsumed, base, head, relayed, sent,
                   consumed, appVars, vtestVars, readerVars, c2s, s2c,
                   messageVars, ringThreadVars, progressThreadVars>>

\* take_delta found nothing: the watcher reads Progress instead.
ReadProgress ==
    /\ wpc = "take"
    /\ tail = lastTail
    /\ wConsumed' = consumed
    /\ wpc' = "publish"
    /\ UNCHANGED <<lastTail, delta, batch, base, head, appVars, vtestVars,
                   progressVars, readerVars, c2s, s2c, messageVars,
                   ringThreadVars, progressThreadVars>>

\* Mutant: publishes what was sent, not what was consumed.
AdvanceHeadToShipped ==
    /\ wpc = "publish"
    /\ head' = shipped
    /\ wpc' = "take"
    /\ UNCHANGED <<lastTail, delta, batch, wConsumed, base, appVars, vtestVars,
                   progressVars, readerVars, c2s, s2c, messageVars,
                   ringThreadVars, progressThreadVars>>

\* advance_head, if the consumed tail moved since it was last published.
AdvanceHead ==
    /\ wpc = "publish"
    /\ head' = wConsumed
    /\ wpc' = "take"
    /\ UNCHANGED <<lastTail, delta, batch, wConsumed, base, appVars, vtestVars,
                   progressVars, readerVars, c2s, s2c, messageVars,
                   ringThreadVars, progressThreadVars>>

-----------------------------------------------------------------------------
(* The reader thread on C.                                                 *)

ReadReplyData ==
    /\ s2c # << >>
    /\ Head(s2c).type = "ReplyData"
    /\ crep' = Head(s2c).upto
    /\ s2c' = Tail(s2c)
    /\ UNCHANGED <<pastFrontier, appVars, watcherVars, vtestVars, progressVars,
                   c2s, messageVars, ringThreadVars, progressThreadVars>>

\* Mutant: the newest relayed tail is refused.
AcknowledgesBelowFrontier(t) == t > consumed /\ t < relayed

\* Is this acknowledgement one of something relayed and not yet consumed?
\* (Progress::note_consumed; wrapping subtraction makes a smaller tail look
\* far past the frontier, so it is refused as well.)
Acknowledges(t) == t > consumed /\ t <= relayed

\* Progress::note_consumed: Advanced, Stale, or PastFrontier.
ReadRingProgress ==
    /\ s2c # << >>
    /\ Head(s2c).type = "RingProgress"
    /\ LET t == Head(s2c).tail
       IN /\ consumed' = IF Acknowledges(t) THEN t ELSE consumed
          /\ pastFrontier' =
                (pastFrontier \/ (t # consumed /\ ~Acknowledges(t)))
    /\ s2c' = Tail(s2c)
    /\ UNCHANGED <<relayed, sent, shipped, crep, appVars, watcherVars, vtestVars,
                   c2s, messageVars, ringThreadVars, progressThreadVars>>

-----------------------------------------------------------------------------
(* The message thread on S: `serve` and Applier::apply.                    *)

\* BlobData: HostBlob::copy_in.
ApplyBlobData ==
    /\ spc = "recv"
    /\ c2s # << >>
    /\ Head(c2s).type = "BlobData"
    /\ smem' = Head(c2s).ver
    /\ c2s' = Tail(c2s)
    /\ UNCHANGED <<spc, sbuf, applied, refused, appVars, watcherVars, vtestVars,
                   progressVars, readerVars, s2c, ringThreadVars,
                   progressThreadVars>>

\* apply_delta's checks: the tail must advance by exactly what the delta
\* carries (LengthMismatch), and by no more than a buffer (LongerThanBuffer).
DeltaFits(m) ==
    /\ m.tail - applied = Len(m.cmds)
    /\ Len(m.cmds) <= BufSize

\* Mutant: what runs past the end of the buffer is dropped.
WrittenUnwrapped(cmds) ==
    [s \in 0 .. BufSize - 1 |->
        LET i == s - SlotOf(applied) + 1
        IN IF i >= 1 /\ i <= Len(cmds) THEN cmds[i] ELSE sbuf[s]]

\* The slots after a delta is written at the applied tail, wrapped.
Written(cmds) ==
    [s \in 0 .. BufSize - 1 |->
        LET i == ((s - applied) % BufSize) + 1
        IN IF i <= Len(cmds) THEN cmds[i] ELSE sbuf[s]]

\* apply_delta, first half: the command bytes.  A delta that does not fit is
\* refused with S2C::Error{solicited: false}, which C only logs: the ring
\* would never resynchronize.
ReceiveDelta ==
    /\ spc = "recv"
    /\ c2s # << >>
    /\ Head(c2s).type = "RingDelta"
    /\ IF DeltaFits(Head(c2s))
       THEN /\ sbuf' = Written(Head(c2s).cmds)
            /\ spc' = "publish"
            /\ UNCHANGED <<refused, c2s>>
       ELSE /\ refused' = TRUE
            /\ c2s' = Tail(c2s)
            /\ UNCHANGED <<sbuf, spc>>
    /\ UNCHANGED <<smem, applied, appVars, watcherVars, vtestVars,
                   progressVars, readerVars, s2c, ringThreadVars,
                   progressThreadVars>>

\* apply_delta, second half: the Release store of the tail word, and the
\* doorbell the message thread rings for the ring thread.
PublishTail ==
    /\ spc = "publish"
    /\ applied' = Head(c2s).tail
    /\ c2s' = Tail(c2s)
    /\ spc' = "recv"
    /\ UNCHANGED <<sbuf, smem, refused, appVars, watcherVars, vtestVars,
                   progressVars, readerVars, s2c, ringThreadVars,
                   progressThreadVars>>

\* SubmitCmd goes straight to the engine.
ApplySubmitCmd ==
    /\ spc = "recv"
    /\ c2s # << >>
    /\ Head(c2s).type = "SubmitCmd"
    /\ c2s' = Tail(c2s)
    /\ UNCHANGED <<spc, sbuf, smem, applied, refused, appVars, watcherVars,
                   vtestVars, progressVars, readerVars, s2c, ringThreadVars,
                   progressThreadVars>>

-----------------------------------------------------------------------------
(* virglrenderer's ring thread, in the render-server process on S.         *)

\* The command the ring thread reads next.
NextCommand == sbuf[SlotOf(shead)]

\* It runs a command it finds below the tail and writes the reply ...
Dispatch ==
    /\ srep = shead
    /\ shead < applied
    /\ srep' = shead + 1
    /\ UNCHANGED <<shead, appVars, watcherVars, vtestVars, progressVars,
                   readerVars, c2s, s2c, messageVars, progressThreadVars>>

\* ... and only then stores head (vkr_ring_store_head, Release).
StoreHead ==
    /\ srep = shead + 1
    /\ shead' = srep
    /\ UNCHANGED <<srep, appVars, watcherVars, vtestVars, progressVars,
                   readerVars, c2s, s2c, messageVars, progressThreadVars>>

-----------------------------------------------------------------------------
(* The progress thread on S.  Its applier-lock sections wait while the     *)
(* message thread holds the lock.                                          *)

\* Mutant: reports the tail it applied, not the head the ring thread reached.
TakeAppliedTail ==
    /\ ppc = "poll"
    /\ spc = "recv"
    /\ applied # reported
    /\ reported' = applied
    /\ ppc' = "scan"
    /\ UNCHANGED <<srepShadow, venus, appVars, watcherVars, vtestVars,
                   progressVars, readerVars, c2s, s2c, messageVars,
                   ringThreadVars>>

\* take_ring_progress: only a head that moved is worth reporting.
TakeRingProgress ==
    /\ ppc = "poll"
    /\ spc = "recv"
    /\ shead # reported
    /\ reported' = shead
    /\ ppc' = "scan"
    /\ UNCHANGED <<srepShadow, venus, appVars, watcherVars, vtestVars,
                   progressVars, readerVars, c2s, s2c, messageVars,
                   ringThreadVars>>

\* take_venus_blob_writes, in a later lock section: the arena as it is now.
TakeVenusBlobWrites ==
    /\ ppc = "scan"
    /\ spc = "recv"
    /\ venus' = IF srep = srepShadow THEN << >> ELSE << ReplyData(srep) >>
    /\ srepShadow' = srep
    /\ ppc' = "shipVenus"
    /\ UNCHANGED <<reported, appVars, watcherVars, vtestVars, progressVars,
                   readerVars, c2s, s2c, messageVars, ringThreadVars>>

\* Mutant: the progress goes out before the replies.
ShipProgressFirst ==
    /\ ppc = "shipVenus"
    /\ s2c' = Append(s2c, RingProgress(reported)) \o venus
    /\ ppc' = "shipProgress"
    /\ UNCHANGED <<reported, srepShadow, venus, appVars, watcherVars, vtestVars,
                   progressVars, readerVars, c2s, messageVars, ringThreadVars>>

\* ship(venus): the replies first ...
ShipVenus ==
    /\ ppc = "shipVenus"
    /\ s2c' = s2c \o venus
    /\ ppc' = "shipProgress"
    /\ UNCHANGED <<reported, srepShadow, venus, appVars, watcherVars, vtestVars,
                   progressVars, readerVars, c2s, messageVars, ringThreadVars>>

\* ... and ship(progress), which releases the application, last.
ShipProgress ==
    /\ ppc = "shipProgress"
    /\ s2c' = Append(s2c, RingProgress(reported))
    /\ ppc' = "poll"
    /\ UNCHANGED <<reported, srepShadow, venus, appVars, watcherVars, vtestVars,
                   progressVars, readerVars, c2s, messageVars, ringThreadVars>>

-----------------------------------------------------------------------------
Init ==
    /\ tail = 0 /\ head = 0 /\ appMem = 0 /\ inlines = 0
    /\ cbuf = [s \in 0 .. BufSize - 1 |-> Empty]
    /\ wpc = "take" /\ lastTail = 0 /\ delta = << >> /\ batch = << >>
    /\ wConsumed = 0 /\ base = 0
    /\ vpc = "idle" /\ vAfter = 0 /\ vTarget = 0
    /\ relayed = 0 /\ sent = 0 /\ shipped = 0 /\ consumed = 0
    /\ crep = 0 /\ pastFrontier = FALSE
    /\ c2s = << >> /\ s2c = << >>
    /\ spc = "recv" /\ sbuf = [s \in 0 .. BufSize - 1 |-> Empty]
    /\ smem = 0 /\ applied = 0 /\ refused = FALSE
    /\ srep = 0 /\ shead = 0
    /\ ppc = "poll" /\ reported = 0 /\ srepShadow = 0 /\ venus = << >>

Application == AppIssue \/ AppWrite \/ AppInline

VtestThread == FlushTarget \/ SubmitFlushed \/ SubmitTimedOut

WatcherThread ==
    \/ TakeDelta \/ NoteRelayed \/ MessagesForDelta \/ ShipMessage
    \/ NoteShipped \/ ReadProgress \/ AdvanceHead

ReaderThread == ReadReplyData \/ ReadRingProgress

MessageThread ==
    ApplyBlobData \/ ReceiveDelta \/ PublishTail \/ ApplySubmitCmd

RingThread == Dispatch \/ StoreHead

ProgressThread ==
    TakeRingProgress \/ TakeVenusBlobWrites \/ ShipVenus \/ ShipProgress

Next ==
    \/ Application \/ VtestThread \/ WatcherThread \/ ReaderThread
    \/ MessageThread \/ RingThread \/ ProgressThread

Spec == Init /\ [][Next]_vars

\* Every daemon thread runs again eventually: an OS thread in a loop with a
\* bounded sleep, over a reliable ordered stream; so does the ring thread,
\* which S's own doorbell wakes.  The application owes nothing.  Weak fairness
\* is enough for the progress thread too, although it shares the applier lock
\* with the message thread: an application whose calls are not released fills
\* its ring and stops, and then the message thread leaves the lock alone.
Fairness ==
    /\ WF_vars(FlushTarget) /\ WF_vars(SubmitFlushed)
    /\ WF_vars(WatcherThread)
    /\ WF_vars(ReaderThread)
    /\ WF_vars(MessageThread)
    /\ WF_vars(RingThread)
    /\ WF_vars(ProgressThread)

FairSpec == Spec /\ Fairness

-----------------------------------------------------------------------------
(* Properties.                                                             *)

\* The type of every variable, and take_delta's assert: a delta is never more
\* than the ring holds.
TypeOK ==
    /\ tail \in 0 .. MaxCmd /\ head \in Nat
    /\ cbuf \in [0 .. BufSize - 1 -> Slot]
    /\ appMem \in 0 .. MaxMem /\ inlines \in 0 .. MaxInline
    /\ wpc \in {"take", "relay", "diff", "ship", "shipping", "note", "publish"}
    /\ lastTail \in Nat /\ wConsumed \in Nat /\ base \in Nat
    /\ delta \in Seq(Slot) /\ Len(delta) <= BufSize
    /\ batch \in Seq(C2SMessage)
    /\ vpc \in {"idle", "flush", "wait"} /\ vAfter \in Nat /\ vTarget \in Nat
    /\ relayed \in Nat /\ sent \in Nat /\ shipped \in Nat /\ consumed \in Nat
    /\ crep \in Nat /\ pastFrontier \in BOOLEAN
    /\ c2s \in Seq(C2SMessage) /\ s2c \in Seq(S2CMessage)
    /\ spc \in {"recv", "publish"}
    /\ sbuf \in [0 .. BufSize - 1 -> Slot]
    /\ smem \in Nat /\ applied \in Nat /\ refused \in BOOLEAN
    /\ srep \in Nat /\ shead \in Nat
    /\ ppc \in {"poll", "scan", "shipVenus", "shipProgress"}
    /\ reported \in Nat /\ srepShadow \in Nat
    /\ venus \in Seq(S2CMessage)

\* Every cursor of the session, from what the application may reuse to what it
\* has written, in the order the data flows: no cursor of either daemon ever
\* overtakes the one it depends on, on either machine, and the application is
\* never more than one buffer ahead of what it was told is done.  This is what
\* the asserts of take_delta (`produced <= buffer_size`) and advance_head rest
\* on: Mesa never overwrites a command that was not sent and run.  Progress's
\* shipped tail follows what was sent and bounds nothing on S, which may run
\* and acknowledge a delta before C notes it shipped; its relayed tail, noted
\* before the send, is never overtaken.
FrontierOrder ==
    /\ head <= consumed /\ consumed <= reported /\ reported <= shead
    /\ shead <= srep /\ srep <= applied
    /\ applied <= sent /\ shipped <= sent
    /\ sent <= relayed /\ relayed <= lastTail
    /\ lastTail <= tail /\ tail <= head + BufSize

\* The head C publishes is a promise that the reply is in C's own memory:
\* vn_ring_wait_seqno returns on it and the application decodes the arena.
\* It depends on virglrenderer's order (reply, head), on the progress thread
\* reading head before it diffs the arena and shipping the diff first, on the
\* link's order, and on C publishing head from acknowledgements only.
ReplyBeforeHead == head <= crep

\* The slot the ring thread reads next holds the command the application wrote
\* at that place in the stream: nothing lost, repeated, reordered, or
\* overwritten by a later lap of the ring on either machine.
StreamIntact == srep < applied => sbuf[SlotOf(srep)].pos = srep

\* By the time the ring thread can see a command, the blob memory it reads on
\* S is at least as new as the application's was when it issued the command.
\* The watcher reads the tail before it diffs the blobs, and sends the blobs
\* before the ring: either order reversed breaks this.
MemoryBeforeCommand == srep < applied => sbuf[SlotOf(srep)].need <= smem

\* An inline command that passed flush_ring's barrier reaches the engine only
\* after every ring command the application had issued before it is in S's
\* ring: the two paths of one program order never swap on the link.
InlineInOrder ==
    \A i \in DOMAIN c2s :
        /\ i = 1 /\ spc = "recv" /\ c2s[1].type = "SubmitCmd" /\ c2s[1].ordered
        => c2s[1].after <= applied

\* Neither daemon ever refuses the other's cursor: S's deltas always fit
\* (no LengthMismatch, no LongerThanBuffer) and C's acknowledgements are never
\* past the frontier, whatever the interleaving.
NothingRefused == ~refused /\ ~pastFrontier

\* What the relay promises the application: RingService, with the answers
\* being C's arena and the release being C's head.
Service ==
    INSTANCE RingService
        WITH Room <- BufSize, issued <- tail, executed <- srep,
             answered <- crep, released <- head

ServesTheRing == Service!Spec

\* Every call returns: the relay comes to rest again and again (the application
\* having so much to issue and no more), and then C's head word reports done
\* whatever was issued, and flush_ring's wait has ended, for the watcher always
\* gets to ship what the vtest thread is waiting for.
EveryCallReturns == []<>(head = tail /\ vpc = "idle")
=============================================================================
