------------------------------ MODULE Readback ------------------------------
(***************************************************************************)
(* A frame's way back: from S's GPU to the application's readback buffer   *)
(* on C, and to the window on S.                                           *)
(*                                                                         *)
(* Nothing tells S that the GPU has finished a copy.  With fence feedback  *)
(* off, the application polls vkGetFenceStatus over the ring; virglrenderer*)
(* writes each answer into the reply arena; and the progress thread takes  *)
(* an answer VK_SUCCESS anywhere in the live arena as its cue to diff the  *)
(* application's blobs.  An answer stays in the arena long after it was    *)
(* read (reply streams chain), so the cue may be an old one.               *)
(*                                                                         *)
(* The way from C to S, and C's publishing of head, are RelayRing's: here  *)
(* a command issued can be run, and a RingProgress that arrives releases   *)
(* the application.  The blobs' mappings and shadows are BlobSync's: here  *)
(* S alone writes them, and a pixel's content is its frame's number.       *)
(***************************************************************************)
EXTENDS Integers, Sequences, FiniteSets

CONSTANTS
    Pixels,     \* the readback buffer's pixels, 0 among them
    Word,       \* S also writes a second, smaller blob of the application's
    MaxFrame,   \* bound: frames the application draws
    MaxPoll     \* bound: answers to vkGetFenceStatus

ASSUME ReadbackAssumption ==
    /\ 0 \in Pixels /\ Word \in BOOLEAN /\ MaxFrame \in Nat /\ MaxPoll \in Nat

VARIABLES
    \* the application on C
    phase,      \* "draw", "poll", "wait", "read"
    frame,      \* frames drawn so far
    stream,     \* the ring's commands: "submit" and "poll"
    \* C's memory and ring
    cres,       \* the readback buffer
    creplies,   \* answers in C's arena
    chead,      \* the head word
    \* the link
    s2c,
    \* S's GPU and ring thread
    todo,       \* pixels the GPU's copy has still to write
    sres,       \* the readback buffer
    word,       \* the second blob: frames finished
    replies,    \* answers the ring thread wrote
    forgotten,  \* answers in pools the application has given back
    ran, shead, \* commands run, and the head word behind them
    \* the progress thread
    ppc, reported,  \* "ended": a batch could not be shipped (Window)
    resShadow, wordShadow, toldReplies,
    signaled, venus, app,
    \* LiveFrame.pixels, the window's
    live

appVars == <<phase, frame, stream>>
memVars == <<cres, creplies, chead>>
ringVars == <<replies, ran, shead>>
gpuVars == <<todo, sres, word>>
progressVars == <<ppc, reported, resShadow, wordShadow, toldReplies, signaled,
                  venus, app, live>>
vars == <<appVars, memVars, s2c, gpuVars, ringVars, forgotten, progressVars>>

Blank == [p \in Pixels |-> 0]

PixelData(changes) == [type |-> "PixelData", changes |-> changes]
WordData(n) == [type |-> "WordData", word |-> n]
ReplyData(answers) == [type |-> "ReplyData", answers |-> answers]
RingProgress(h) == [type |-> "RingProgress", head |-> h]

\* Polls issued.
Polls == Cardinality({i \in DOMAIN stream : stream[i] = "poll"})

-----------------------------------------------------------------------------
(* The application: a frame, a fence, a look at the pixels, the next one.  *)

Draw ==
    /\ phase = "draw"
    /\ frame < MaxFrame
    /\ frame' = frame + 1
    /\ stream' = Append(stream, "submit")
    /\ phase' = "poll"
    /\ UNCHANGED <<memVars, s2c, gpuVars, ringVars, forgotten, progressVars>>

\* vkWaitForFences, one vkGetFenceStatus of it.
Poll ==
    /\ phase = "poll"
    /\ Polls < MaxPoll
    /\ stream' = Append(stream, "poll")
    /\ phase' = "wait"
    /\ UNCHANGED <<frame, memVars, s2c, gpuVars, ringVars, forgotten,
                   progressVars>>

\* vn_ring_wait_seqno returns; the answer decides whether to poll again.
Released ==
    /\ phase = "wait"
    /\ chead = Len(stream)
    /\ phase' = IF creplies[Len(creplies)] THEN "read" ELSE "poll"
    /\ UNCHANGED <<frame, stream, memVars, s2c, gpuVars, ringVars, forgotten,
                   progressVars>>

DoneReading ==
    /\ phase = "read"
    /\ phase' = "draw"
    /\ UNCHANGED <<frame, stream, memVars, s2c, gpuVars, ringVars, forgotten,
                   progressVars>>

\* A reply pool all of whose answers were read is given back, and S drops the
\* blob (UnrefResource).
ForgetReplies ==
    /\ phase # "wait"
    /\ forgotten < Len(creplies)
    /\ forgotten' = Len(creplies)
    /\ UNCHANGED <<appVars, memVars, s2c, gpuVars, ringVars, progressVars>>

-----------------------------------------------------------------------------
(* S's engine.                                                             *)

\* The ring thread runs a command: a submission hands the GPU a copy to do, a
\* poll is answered with whether it has done it.
Dispatch ==
    /\ ran = shead
    /\ ran < Len(stream)
    /\ IF stream[ran + 1] = "submit"
       THEN todo' = Pixels /\ UNCHANGED replies
       ELSE replies' = Append(replies, todo = {}) /\ UNCHANGED todo
    /\ ran' = ran + 1
    /\ UNCHANGED <<appVars, memVars, s2c, sres, word, shead, forgotten,
                   progressVars>>

StoreHead ==
    /\ ran = shead + 1
    /\ shead' = ran
    /\ UNCHANGED <<appVars, memVars, s2c, gpuVars, replies, ran, forgotten,
                   progressVars>>

\* The copy lands a pixel at a time, in any order.
GpuWrites ==
    /\ \E p \in todo :
         /\ sres' = [sres EXCEPT ![p] = @ + 1]
         /\ todo' = todo \ {p}
    /\ word' = IF todo' = {} /\ Word THEN word + 1 ELSE word
    /\ UNCHANGED <<appVars, memVars, s2c, ringVars, forgotten, progressVars>>

-----------------------------------------------------------------------------
(* The progress thread; each step is one hold of the applier lock, or one  *)
(* `ship`.                                                                 *)

TakeRingProgress ==
    /\ ppc = "poll"
    /\ shead # reported
    /\ reported' = shead
    /\ ppc' = "scan"
    /\ UNCHANGED <<appVars, memVars, s2c, gpuVars, ringVars, forgotten,
                   resShadow, wordShadow, toldReplies, signaled, venus, app,
                   live>>

\* Mutant: what C was told before this pass is scanned.
SignaledBefore == \E i \in forgotten + 1 .. toldReplies : replies[i]

\* reply_arena_fence_signaled: an answer VK_SUCCESS anywhere in an arena S
\* still has.
FenceSignaled == \E i \in forgotten + 1 .. Len(replies) : replies[i]

\* Mutant: every pass sends the whole arena again.
AllAnswers == replies

\* What C has not been told of the arena.
NewAnswers == SubSeq(replies, toldReplies + 1, Len(replies))

\* take_venus_blob_writes and the scan, under one hold of the lock.
TakeVenusBlobWrites ==
    /\ ppc = "scan"
    /\ venus' = IF NewAnswers = << >> THEN << >> ELSE << ReplyData(NewAnswers) >>
    /\ toldReplies' = Len(replies)
    /\ signaled' = FenceSignaled
    /\ ppc' = IF signaled' THEN "diff" ELSE "ship"
    /\ UNCHANGED <<appVars, memVars, s2c, gpuVars, ringVars, forgotten, reported,
                   resShadow, wordShadow, app, live>>

ChangedPixels == {p \in Pixels : sres[p] # resShadow[p]}

\* Mutant: only a pass that found every pixel changed is folded in.
FoldedIfWhole == IF ChangedPixels = Pixels THEN sres ELSE live

\* LiveFrame::apply_runs copies each run to its offset, whichever blob it is a
\* run of.  The second blob's content is shown negative, to be told from pixels.
Folded ==
    [p \in Pixels |->
        IF p = 0 /\ word # wordShadow THEN - word
        ELSE IF p \in ChangedPixels THEN sres[p] ELSE live[p]]

PixelRuns(changed) ==
    IF changed = {} THEN << >> ELSE << PixelData([p \in changed |-> sres[p]]) >>

\* take_app_blob_writes, largest blob first, teed into the live frame.
TakeAppBlobWrites ==
    /\ ppc = "diff"
    /\ app' = PixelRuns(ChangedPixels)
                \o (IF word = wordShadow THEN << >> ELSE << WordData(word) >>)
    /\ live' = Folded
    /\ resShadow' = sres
    /\ wordShadow' = word
    /\ ppc' = "shipApp"
    /\ UNCHANGED <<appVars, memVars, s2c, gpuVars, ringVars, forgotten, reported,
                   toldReplies, signaled, venus>>

\* The pixels first ...
ShipApp ==
    /\ ppc = "shipApp"
    /\ s2c' = s2c \o app
    /\ app' = << >>
    /\ ppc' = "ship"
    /\ UNCHANGED <<appVars, memVars, gpuVars, ringVars, forgotten, reported,
                   resShadow, wordShadow, toldReplies, signaled, venus, live>>

\* ... then the answers ...
ShipVenus ==
    /\ ppc = "ship"
    /\ s2c' = s2c \o venus
    /\ venus' = << >>
    /\ ppc' = "shipProgress"
    /\ UNCHANGED <<appVars, memVars, gpuVars, ringVars, forgotten, reported,
                   resShadow, wordShadow, toldReplies, signaled, app, live>>

\* ... and the release last.
ShipProgress ==
    /\ ppc = "shipProgress"
    /\ s2c' = Append(s2c, RingProgress(reported))
    /\ ppc' = "poll"
    /\ UNCHANGED <<appVars, memVars, gpuVars, ringVars, forgotten, reported,
                   resShadow, wordShadow, toldReplies, signaled, venus, app,
                   live>>

-----------------------------------------------------------------------------
(* C's reader thread.                                                      *)

Receive ==
    /\ s2c # << >>
    /\ LET m == Head(s2c)
       IN /\ cres' = [p \in Pixels |-> IF m.type = "PixelData" /\ p \in DOMAIN m.changes
                                       THEN m.changes[p] ELSE cres[p]]
          /\ creplies' = IF m.type = "ReplyData" THEN creplies \o m.answers
                         ELSE creplies
          /\ chead' = IF m.type = "RingProgress" THEN m.head ELSE chead
    /\ s2c' = Tail(s2c)
    /\ UNCHANGED <<appVars, gpuVars, ringVars, forgotten, progressVars>>

-----------------------------------------------------------------------------
Init ==
    /\ phase = "draw" /\ frame = 0 /\ stream = << >>
    /\ cres = Blank /\ creplies = << >> /\ chead = 0
    /\ s2c = << >>
    /\ todo = {} /\ sres = Blank /\ word = 0
    /\ replies = << >> /\ forgotten = 0 /\ ran = 0 /\ shead = 0
    /\ ppc = "poll" /\ reported = 0
    /\ resShadow = Blank /\ wordShadow = 0 /\ toldReplies = 0
    /\ signaled = FALSE /\ venus = << >> /\ app = << >>
    /\ live = Blank

Next ==
    \/ Draw \/ Poll \/ Released \/ DoneReading \/ ForgetReplies
    \/ Dispatch \/ StoreHead \/ GpuWrites
    \/ TakeRingProgress \/ TakeVenusBlobWrites \/ TakeAppBlobWrites
    \/ ShipApp \/ ShipVenus \/ ShipProgress
    \/ Receive

Spec == Init /\ [][Next]_vars

-----------------------------------------------------------------------------
(* Properties.                                                             *)

\* The type of every variable; no answer reaches C twice, none is forgotten
\* unread, and when the application is released its answer is there.
TypeOK ==
    /\ phase \in {"draw", "poll", "wait", "read"} /\ frame \in 0 .. MaxFrame
    /\ stream \in Seq({"submit", "poll"})
    /\ {cres, sres, resShadow} \subseteq [Pixels -> 0 .. MaxFrame]
    /\ {word, wordShadow} \subseteq 0 .. MaxFrame
    /\ live \in [Pixels -> - MaxFrame .. MaxFrame]
    /\ todo \subseteq Pixels
    /\ ppc \in {"poll", "scan", "diff", "shipApp", "ship", "shipProgress",
              "ended"}
    /\ chead <= reported /\ reported <= shead /\ shead <= ran /\ ran <= Len(stream)
    /\ forgotten <= Len(creplies) /\ Len(creplies) <= toldReplies
    /\ toldReplies <= Len(replies) /\ Len(replies) <= Polls
    /\ phase = "wait" /\ chead = Len(stream) => Len(creplies) = Polls

\* A frame the application reads is whole and is the one it drew last: neither
\* torn nor stale, whether the progress thread's cue was fresh or an old answer
\* that lingered, and although a diff may have caught the copy half done.
ReadIsWhole == phase = "read" => \A p \in Pixels : cres[p] = frame

\* While the application reads a frame, S's window can show that same frame:
\* the two paths agree at the moments when the application looks.
WindowAgrees == phase = "read" => live = cres

\* "the newest complete frame", "a whole, untorn frame" (present.rs), "known to
\* be a complete frame" (main.rs): the live frame is never part of one frame
\* and part of another.
LiveFrameIsWhole == \A p, q \in Pixels : live[p] = live[q]

\* "as is any run whose blob is not the frame's size" (present.rs): what is not
\* the frame's is not folded into the frame.
OnlyTheFrameIsFolded == \A p \in Pixels : live[p] >= 0
=============================================================================
