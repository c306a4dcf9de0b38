----------------------------- MODULE LinkProofs -----------------------------
(***************************************************************************)
(* Link implements Channel, for streams of any size, batches of any length *)
(* and any number of messages.                                             *)
(*                                                                         *)
(* The invariant has three parts.  Types.  Locks: a thread writes exactly  *)
(* while it has its send mutex, and is within a frame only then, with a    *)
(* batch of its own.  Frames: the cells a reader has taken and those still *)
(* in the stream are two for each message sent, and one more for the frame *)
(* the holder of the mutex is in; so a reader that has taken a length finds*)
(* the body of that message next, whoever wrote it.                        *)
(***************************************************************************)
EXTENDS Link, SequenceTheorems, TLAPS

Cells == [part : {"length", "body"}, msg : C!Message]

Types ==
    /\ up \in BOOLEAN
    /\ stream \in [Ways -> Seq(Cells)]
    /\ sendEnd \in [Ways -> {"open", "failed"}]
    /\ recvEnd \in [Ways -> {"open", "gone"}]
    /\ half \in [Ways -> BOOLEAN]
    /\ tx \in [Ways -> Senders \cup {"none"}]
    /\ pc \in [Threads -> {"idle", "lock", "write", "over", "read", "apply",
                           "route"}]
    /\ todo \in [Senders -> Seq(C!Message)]
    /\ part \in [Senders -> {"length", "body"}]
    /\ handedOver \in [Ways -> Nat]
    /\ sent \in [Ways -> Seq(C!Message)]
    /\ delivered \in [Ways -> Nat]
    /\ handed \in [Ways -> C!Message \cup {C!NoMessage}]

\* `msgs` is what is left of a batch of t's.
RestOfBatch(t, msgs) ==
    \A i \in 1 .. Len(msgs) :
        msgs[i].from = t /\ (msgs[i].more <=> i < Len(msgs))

\* A thread writes exactly while it has the mutex of its way.
Holding ==
    /\ \A t \in Senders : pc[t] = "write" <=> tx[Way(t)] = t
    /\ \A w \in Ways : tx[w] # "none" => Way(tx[w]) = w

\* A thread that waits for the mutex, or has it, has messages to write.
Busy ==
    \A t \in Senders :
        /\ RestOfBatch(t, todo[t])
        /\ pc[t] \in {"lock", "write"} => todo[t] # << >>

MidFrame == \A t \in Senders : part[t] = "body" => pc[t] = "write"

Locks == Holding /\ Busy /\ MidFrame

\* Cells the reader of w has taken.
Taken(w) == 2 * delivered[w] + (IF half[w] THEN 1 ELSE 0)

\* Cells written on w.
Cut(w) == Taken(w) + Len(stream[w])

InFrame(w) == tx[w] # "none" /\ part[tx[w]] = "body"

\* Two cells for each message, and one for a frame that is not finished.
Whole(w) ==
    /\ Cut(w) = 2 * Len(sent[w]) \/ Cut(w) = 2 * Len(sent[w]) + 1
    /\ sendEnd[w] = "open" => (Cut(w) = 2 * Len(sent[w]) + 1 <=> InFrame(w))

\* The bodies in the stream are those of the messages sent and not yet taken.
Bodies(w) ==
    \A j \in 1 .. Len(sent[w]) :
        2 * j > Taken(w) => stream[w][2 * j - Taken(w)].msg = sent[w][j]

\* A batch that is not finished is that of the holder of the mutex.
Unfinished(w) ==
    sendEnd[w] = "open" /\ sent[w] # << >> /\ sent[w][Len(sent[w])].more =>
        tx[w] = sent[w][Len(sent[w])].from

FramesOf(w) == Whole(w) /\ Bodies(w) /\ Unfinished(w)

Frames == \A w \in Ways : FramesOf(w)

Inv == Types /\ Locks /\ Frames

-----------------------------------------------------------------------------
(* What a batch is.                                                        *)

LEMMA WayIs == \A t \in Senders : Way(t) \in Ways /\ t \in Threads /\ t # "none"
  BY DEF Senders, FromC, FromS, Way, Ways, Threads

\* A batch that is handed over is a sequence of its sender's messages.
LEMMA BatchIs ==
    ASSUME NEW t \in Senders, NEW n \in Nat \ {0}, NEW msgs \in Batches(t, n)
    PROVE  msgs \in Seq(C!Message) /\ msgs # << >> /\ RestOfBatch(t, msgs)
  <1>1. PICK large \in SUBSET MayBeLarge(t, n) :
          msgs = [i \in 1 .. n |-> [from |-> t, more |-> i < n, large |-> i \in large]]
    BY DEF Batches
  <1>2. \A i \in 1 .. n :
          [from |-> t, more |-> i < n, large |-> i \in large] \in C!Message
    BY DEF C!Message
  <1>3. msgs \in [1 .. n -> C!Message]
    BY <1>1, <1>2
  <1>4. msgs \in Seq(C!Message) /\ Len(msgs) = n /\ msgs # << >>
    BY <1>3
  <1>5. \A i \in 1 .. n : msgs[i].from = t /\ (msgs[i].more <=> i < n)
    BY <1>1
  <1> QED
    BY <1>4, <1>5 DEF RestOfBatch

\* What is left of a batch once its first message is written.
LEMMA RestIs ==
    ASSUME NEW t \in Senders, NEW msgs \in Seq(C!Message), RestOfBatch(t, msgs),
           msgs # << >>
    PROVE  /\ Len(msgs) \in Nat \ {0}
           /\ Head(msgs) \in C!Message /\ Head(msgs) = msgs[1]
           /\ Head(msgs).from = t
           /\ Head(msgs).more <=> Len(msgs) > 1
           /\ Tail(msgs) \in Seq(C!Message)
           /\ RestOfBatch(t, Tail(msgs))
           /\ Tail(msgs) = << >> <=> Len(msgs) = 1
  <1>1. /\ Head(msgs) \in C!Message /\ Head(msgs) = msgs[1]
        /\ Len(msgs) \in Nat /\ Len(msgs) >= 1
        /\ Tail(msgs) \in Seq(C!Message)
        /\ Len(Tail(msgs)) = Len(msgs) - 1
        /\ \A i \in 1 .. Len(msgs) - 1 : Tail(msgs)[i] = msgs[i + 1]
    OBVIOUS
  <1>2. Tail(msgs) = << >> <=> Len(msgs) = 1
    <2>1. Tail(msgs) = << >> <=> Len(Tail(msgs)) = 0
      BY <1>1, EmptySeq
    <2> QED
      BY <1>1, <2>1
  <1>3. Head(msgs).from = t /\ (Head(msgs).more <=> Len(msgs) > 1)
    BY <1>1 DEF RestOfBatch
  <1>4. ASSUME NEW i \in 1 .. Len(Tail(msgs))
        PROVE  Tail(msgs)[i].from = t /\ (Tail(msgs)[i].more <=> i < Len(Tail(msgs)))
    <2>1. i \in 1 .. Len(msgs) - 1 /\ i + 1 \in 1 .. Len(msgs)
      BY <1>1
    <2>2. msgs[i + 1].from = t /\ (msgs[i + 1].more <=> i + 1 < Len(msgs))
      BY <2>1 DEF RestOfBatch
    <2> QED
      BY <1>1, <2>1, <2>2
  <1> QED
    BY <1>1, <1>2, <1>3, <1>4 DEF RestOfBatch

-----------------------------------------------------------------------------
(* What steps that write and read nothing leave true.                      *)

PcValues == {"idle", "lock", "write", "over", "read", "apply", "route"}

\* Who writes and reads nothing leaves the frames alone.
LEMMA SameFrames ==
    ASSUME Frames, UNCHANGED <<stream, sendEnd, half, tx, part, sent, delivered>>
    PROVE  Frames'
  BY DEF Frames, FramesOf, Whole, Bodies, Unfinished, Cut, Taken, InFrame

\* A thread that neither writes nor waits for the mutex goes elsewhere.
LEMMA Moves ==
    ASSUME Types, Locks, NEW t \in Threads, pc[t] \notin {"lock", "write"},
           NEW p \in PcValues \ {"lock", "write"}, pc' = [pc EXCEPT ![t] = p],
           UNCHANGED <<tx, todo, part>>
    PROVE  Locks' /\ pc' \in [Threads -> PcValues]
  <1>1. pc' \in [Threads -> PcValues]
    BY DEF Types, PcValues
  <1>2. \A u \in Senders : u \in Threads
    BY WayIs
  <1>3. \A u \in Senders : pc'[u] = pc[u] \/ (u = t /\ pc'[u] = p)
    BY <1>2 DEF Types
  <1>4. Holding'
    BY <1>3 DEF Locks, Holding, Way
  <1>5. Busy'
    BY <1>3 DEF Locks, Busy, RestOfBatch
  <1>6. MidFrame'
    BY <1>3 DEF Locks, MidFrame
  <1> QED
    BY <1>1, <1>4, <1>5, <1>6 DEF Locks

\* A thread is handed a batch.
LEMMA Begins ==
    ASSUME Types, Locks, NEW t \in Senders, pc[t] # "write",
           NEW n \in Nat \ {0}, NEW msgs \in Batches(t, n),
           todo' = [todo EXCEPT ![t] = msgs], pc' = [pc EXCEPT ![t] = "lock"],
           UNCHANGED <<tx, part>>
    PROVE  /\ Locks'
           /\ todo' \in [Senders -> Seq(C!Message)]
           /\ pc' \in [Threads -> PcValues]
  <1>1. msgs \in Seq(C!Message) /\ msgs # << >> /\ RestOfBatch(t, msgs)
    BY BatchIs
  <1>2. pc' \in [Threads -> PcValues] /\ todo' \in [Senders -> Seq(C!Message)]
    BY <1>1 DEF Types, PcValues
  <1>3. \A u \in Senders : u # t => pc'[u] = pc[u] /\ todo'[u] = todo[u]
    BY WayIs DEF Types
  <1>4. pc'[t] = "lock" /\ todo'[t] = msgs
    BY WayIs DEF Types
  <1>5. Holding'
    BY <1>3, <1>4 DEF Locks, Holding, Way
  <1>6. Busy'
    <2> SUFFICES ASSUME NEW u \in Senders
                 PROVE  /\ RestOfBatch(u, todo'[u])
                        /\ pc'[u] \in {"lock", "write"} => todo'[u] # << >>
      BY DEF Busy, RestOfBatch
    <2>1. CASE u = t
      BY <1>1, <1>4, <2>1
    <2>2. CASE u # t
      BY <1>3, <2>2 DEF Locks, Busy
    <2> QED
      BY <2>1, <2>2
  <1>7. MidFrame'
    BY <1>3, <1>4 DEF Locks, MidFrame
  <1> QED
    BY <1>2, <1>5, <1>6, <1>7 DEF Locks

\* Handing over a batch keeps the locks and the types.
LEMMA HandOverIs ==
    ASSUME Types, Locks, NEW t \in Senders, pc[t] # "write", NEW n \in Nat \ {0},
           HandOver(t, n), UNCHANGED <<tx, part>>
    PROVE  /\ Locks'
           /\ todo' \in [Senders -> Seq(C!Message)]
           /\ pc' \in [Threads -> PcValues]
           /\ handedOver' \in [Ways -> Nat]
  <1>1. PICK msgs \in Batches(t, n) : todo' = [todo EXCEPT ![t] = msgs]
    BY DEF HandOver
  <1>2. handedOver' \in [Ways -> Nat]
    BY WayIs DEF HandOver, Types
  <1>3. pc' = [pc EXCEPT ![t] = "lock"]
    BY DEF HandOver
  <1> QED
    BY <1>1, <1>2, <1>3, Begins

-----------------------------------------------------------------------------
(* The steps that write and read nothing.                                  *)

LEMMA InitInv == Init => Inv
  <1> SUFFICES ASSUME Init
               PROVE  Inv
    OBVIOUS
  <1>1. Types
    BY WayIs DEF Init, C!Init, Types, Threads
  <1>2. \A t \in Senders : pc[t] # "write" /\ pc[t] # "lock" /\ todo[t] = << >>
                           /\ part[t] = "length" /\ Way(t) \in Ways /\ t # "none"
    BY WayIs DEF Init
  <1>3. \A w \in Ways : /\ tx[w] = "none" /\ stream[w] = << >> /\ sent[w] = << >>
                        /\ delivered[w] = 0 /\ half[w] = FALSE
    BY DEF Init, C!Init
  <1>4. Locks
    BY <1>2, <1>3 DEF Locks, Holding, Busy, MidFrame, RestOfBatch
  <1>5. Frames
    BY <1>3 DEF Frames, FramesOf, Whole, Bodies, Unfinished, Cut, Taken, InFrame
  <1> QED
    BY <1>1, <1>4, <1>5 DEF Inv

\* A thread with something to send keeps the invariant.
LEMMA HasSomethingKeeps ==
    ASSUME Inv, HasSomething
    PROVE  Inv'
  <1> USE DEF Inv
  <1>f. Frames'
    BY SameFrames
       DEF HasSomething, SingleFromC, WatcherHasBatch, ProgressTakes, EventEmitted,
           quicVars, endVars, lockVars, channelVars
  <1>s. {"vtest", "proxy", "watcher", "progress", "events"} \subseteq Senders
    BY DEF Senders, FromC, FromS
  <1>1. ASSUME NEW t \in {"vtest", "proxy"}, SingleFromC(t)
        PROVE  Types' /\ Locks'
    <2>1. /\ Locks'
          /\ todo' \in [Senders -> Seq(C!Message)]
          /\ pc' \in [Threads -> PcValues]
          /\ handedOver' \in [Ways -> Nat]
      BY <1>1, <1>s, HandOverIs DEF SingleFromC, MayHand, lockVars
    <2> QED
      BY <1>1, <2>1 DEF SingleFromC, Types, PcValues, quicVars, endVars, lockVars, channelVars
  <1>3. ASSUME NEW t \in {"watcher", "progress"}, pc[t] # "write",
               \E n \in 1 .. MaxBatch : HandOver(t, n),
               UNCHANGED <<quicVars, endVars, tx, part, channelVars>>
        PROVE  Types' /\ Locks'
    <2>1. PICK n \in 1 .. MaxBatch : HandOver(t, n)
      BY <1>3
    <2>2. n \in Nat \ {0}
      BY LinkAssumption
    <2>3. /\ Locks'
          /\ todo' \in [Senders -> Seq(C!Message)]
          /\ pc' \in [Threads -> PcValues]
          /\ handedOver' \in [Ways -> Nat]
      BY <1>3, <1>s, <2>1, <2>2, HandOverIs
    <2> QED
      BY <1>3, <2>3 DEF Types, PcValues, quicVars, endVars, channelVars
  <1>4. CASE EventEmitted
    <2>1. /\ Locks'
          /\ todo' \in [Senders -> Seq(C!Message)]
          /\ pc' \in [Threads -> PcValues]
          /\ handedOver' \in [Ways -> Nat]
      BY <1>4, <1>s, HandOverIs DEF EventEmitted, MayHand, lockVars
    <2> QED
      BY <1>4, <1>f, <2>1 DEF EventEmitted, Types, PcValues, quicVars, endVars, lockVars, channelVars
  <1>5. CASE WatcherHasBatch
    BY <1>3, <1>5, <1>f DEF WatcherHasBatch, MayHand
  <1>6. CASE ProgressTakes
    BY <1>3, <1>6, <1>f DEF ProgressTakes, MayHand, lockVars
  <1> QED
    BY <1>1, <1>4, <1>5, <1>6, <1>f DEF HasSomething

\* So does S's message thread when it hands over its answers.
LEMMA ServeKeeps ==
    ASSUME Inv, ServeReplays \/ ServeApplies
    PROVE  Inv'
  <1> USE DEF Inv
  <1>f. Frames'
    BY SameFrames DEF ServeReplays, ServeApplies, quicVars, endVars, lockVars, channelVars
  <1>s. "serve" \in Senders /\ "serve" \in Threads
    BY DEF Senders, FromS, Threads
  <1>1. CASE ServeReplays
    <2>1. Locks' /\ pc' \in [Threads -> PcValues]
      BY <1>1, <1>s, Moves DEF ServeReplays, PcValues, lockVars
    <2> QED
      BY <1>1, <1>f, <2>1
         DEF ServeReplays, Types, PcValues, quicVars, endVars, lockVars, channelVars
  <1>2. CASE ServeApplies /\ pc' = [pc EXCEPT !["serve"] = "read"] /\ todo' = todo
    <2>1. Locks' /\ pc' \in [Threads -> PcValues]
      BY <1>2, <1>s, Moves DEF ServeApplies, PcValues
    <2> QED
      BY <1>2, <1>f, <2>1 DEF ServeApplies, Types, PcValues, quicVars, endVars, channelVars
  <1>3. ASSUME ServeApplies, NEW msgs \in Batches("serve", 1),
               todo' = [todo EXCEPT !["serve"] = msgs],
               pc' = [pc EXCEPT !["serve"] = "lock"]
        PROVE  Inv'
    <2>1. /\ Locks'
          /\ todo' \in [Senders -> Seq(C!Message)]
          /\ pc' \in [Threads -> PcValues]
      BY <1>3, <1>s, Begins, 1 \in Nat \ {0} DEF ServeApplies
    <2> QED
      BY <1>3, <1>f, <2>1 DEF ServeApplies, Types, PcValues, quicVars, endVars, channelVars
  <1> QED
    BY <1>1, <1>2, <1>3 DEF ServeApplies

\* Who reads which way.
LEMMA ReaderIs ==
    \A w \in Ways : Reader(w) \in Threads /\ (w # "c2s" => Reader(w) = "reader")
  BY DEF Ways, Reader, Threads, Senders, FromS

\* So does C's reader when it passes a message on.
LEMMA RouteKeeps ==
    ASSUME Inv, Route
    PROVE  Inv'
  <1>1. Frames'
    BY SameFrames DEF Inv, Route, quicVars, endVars, lockVars, channelVars
  <1>2. Locks' /\ pc' \in [Threads -> PcValues]
    BY Moves DEF Inv, Route, PcValues, lockVars, Threads
  <1> QED
    BY <1>1, <1>2 DEF Inv, Route, Types, PcValues, quicVars, endVars, lockVars, channelVars

\* So does a reader that finds its way ended.
LEMMA ReadFailsKeeps ==
    ASSUME Inv, NEW w \in Ways, ReadFails(w)
    PROVE  Inv'
  <1>1. Frames'
    BY SameFrames DEF Inv, ReadFails, quicVars, lockVars, channelVars
  <1>2. Locks' /\ pc' \in [Threads -> PcValues]
    BY ReaderIs, Moves DEF Inv, ReadFails, Reading, PcValues, lockVars
  <1> QED
    BY <1>1, <1>2 DEF Inv, ReadFails, Types, PcValues, quicVars, lockVars, channelVars

\* So does a connection that is lost, with any part of what is in its streams.
LEMMA LossKeeps ==
    ASSUME Inv, ConnectionLost
    PROVE  Inv'
  <1>1. Frames'
    BY SameFrames DEF Inv, ConnectionLost, endVars, lockVars, threadVars, channelVars
  <1>2. Locks'
    BY DEF Inv, ConnectionLost, lockVars, threadVars, Locks, Holding, Busy, MidFrame,
           RestOfBatch
  <1> QED
    BY <1>1, <1>2 DEF Inv, ConnectionLost, Types, endVars, lockVars, threadVars, channelVars

-----------------------------------------------------------------------------
(* The mutex.                                                              *)

LEMMA LockKeeps ==
    ASSUME Inv, NEW t \in Senders, Lock(t)
    PROVE  Inv'
  <1> USE DEF Inv
  <1>t. t \in Threads /\ Way(t) \in Ways /\ t # "none"
    BY WayIs
  <1>u. /\ \A u \in Senders : u # t => pc'[u] = pc[u]
        /\ pc'[t] = "write" /\ pc[t] = "lock"
        /\ \A w \in Ways : w # Way(t) => tx'[w] = tx[w]
        /\ tx'[Way(t)] = t /\ tx[Way(t)] = "none"
        /\ UNCHANGED <<quicVars, endVars, todo, part, channelVars>>
    BY <1>t, WayIs DEF Lock, Types
  <1>1. Types'
    BY <1>t DEF Lock, Types, quicVars, endVars, channelVars
  <1>2. Holding'
    <2>1. \A u \in Senders : pc'[u] = "write" <=> tx'[Way(u)] = u
      BY <1>t, <1>u, WayIs DEF Locks, Holding
    <2>2. \A w \in Ways : tx'[w] # "none" => Way(tx'[w]) = w
      BY <1>t, <1>u DEF Locks, Holding
    <2> QED
      BY <2>1, <2>2 DEF Holding, Way
  <1>3. Busy'
    BY <1>u DEF Locks, Busy, RestOfBatch
  <1>4. MidFrame'
    BY <1>u DEF Locks, MidFrame
  <1>5. part[t] = "length"
    BY <1>u DEF Locks, MidFrame, Types
  <1>6. ASSUME NEW w \in Ways
        PROVE  FramesOf(w)'
    <2>1. InFrame(w)' <=> InFrame(w)
      BY <1>t, <1>u, <1>5 DEF InFrame
    <2>2. Whole(w)'
      BY <1>u, <2>1 DEF Frames, FramesOf, Whole, Cut, Taken, quicVars, endVars, channelVars
    <2>3. Bodies(w)'
      BY <1>u DEF Frames, FramesOf, Bodies, Taken, quicVars, endVars, channelVars
    <2>4. Unfinished(w)'
      <3> SUFFICES ASSUME sendEnd[w] = "open", sent[w] # << >>,
                          sent[w][Len(sent[w])].more
                   PROVE  tx'[w] = sent[w][Len(sent[w])].from
        BY <1>u DEF Unfinished, endVars, channelVars
      <3>1. tx[w] = sent[w][Len(sent[w])].from
        BY DEF Frames, FramesOf, Unfinished
      <3>2. sent[w] \in Seq(C!Message)
        BY DEF Types
      <3>3. Len(sent[w]) \in 1 .. Len(sent[w])
        BY <3>2
      <3>4. sent[w][Len(sent[w])] \in C!Message
        BY <3>2, <3>3
      <3>5. tx[w] # "none"
        BY <3>1, <3>4, WayIs DEF C!Message
      <3> QED
        BY <1>t, <1>u, <3>1, <3>5
    <2> QED
      BY <2>2, <2>3, <2>4 DEF FramesOf
  <1>7. Frames'
    BY <1>6 DEF Frames
  <1> QED
    BY <1>1, <1>2, <1>3, <1>4, <1>7 DEF Locks

-----------------------------------------------------------------------------
(* Writing.                                                                *)

LEMMA AppendIs ==
    ASSUME NEW S, NEW q \in Seq(S), NEW x \in S
    PROVE  /\ Append(q, x) \in Seq(S) /\ Append(q, x) # << >>
           /\ Len(Append(q, x)) = Len(q) + 1
           /\ \A i \in 1 .. Len(q) : Append(q, x)[i] = q[i]
           /\ Append(q, x)[Len(q) + 1] = x
  OBVIOUS

\* Numbers of cells are numbers.
LEMMA CellsCounted ==
    ASSUME Types, NEW w \in Ways
    PROVE  /\ Len(stream[w]) \in Nat /\ Len(sent[w]) \in Nat /\ delivered[w] \in Nat
           /\ Taken(w) \in Nat /\ Cut(w) \in Nat
           /\ Taken(w) = 2 * delivered[w] \/ Taken(w) = 2 * delivered[w] + 1
           /\ half[w] <=> Taken(w) = 2 * delivered[w] + 1
  <1>1. Len(stream[w]) \in Nat /\ Len(sent[w]) \in Nat /\ delivered[w] \in Nat
    BY DEF Types
  <1>2. half[w] \in BOOLEAN
    BY DEF Types
  <1> QED
    BY <1>1, <1>2 DEF Taken, Cut

\* What a thread does on its way leaves the other as it was.
LEMMA OtherWay ==
    ASSUME Inv, NEW t \in Senders, NEW w \in Ways, w # Way(t),
           stream'[w] = stream[w], sendEnd'[w] = sendEnd[w], half'[w] = half[w],
           tx'[w] = tx[w], sent'[w] = sent[w], delivered'[w] = delivered[w],
           \A u \in Senders : u # t => part'[u] = part[u]
    PROVE  FramesOf(w)'
  <1>1. InFrame(w)' <=> InFrame(w)
    <2>1. CASE tx[w] = "none"
      BY <2>1 DEF InFrame
    <2>2. CASE tx[w] # "none"
      <3>1. tx[w] \in Senders /\ Way(tx[w]) = w
        BY <2>2 DEF Inv, Types, Locks, Holding
      <3> QED
        BY <3>1 DEF InFrame
    <2> QED
      BY <2>1, <2>2
  <1> QED
    BY <1>1 DEF Inv, Frames, FramesOf, Whole, Bodies, Unfinished, Cut, Taken

\* The holder of the mutex, and what it has to write.
LEMMA WriterIs ==
    ASSUME Inv, NEW t \in Senders, pc[t] = "write"
    PROVE  /\ t \in Threads /\ Way(t) \in Ways /\ t # "none"
           /\ tx[Way(t)] = t
           /\ todo[t] # << >> /\ todo[t] \in Seq(C!Message)
           /\ RestOfBatch(t, todo[t])
           /\ Cell(t) \in Cells /\ Cell(t).msg = Head(todo[t])
           /\ \A u \in Senders : u # t /\ Way(u) = Way(t) => pc[u] # "write"
  <1>1. t \in Threads /\ Way(t) \in Ways /\ t # "none" /\ tx[Way(t)] = t
    BY WayIs DEF Inv, Locks, Holding
  <1>2. todo[t] # << >> /\ todo[t] \in Seq(C!Message) /\ RestOfBatch(t, todo[t])
    BY DEF Inv, Types, Locks, Busy
  <1>3. Cell(t) \in Cells /\ Cell(t).msg = Head(todo[t])
    BY <1>2, RestIs DEF Cell, Cells, Inv, Types
  <1>4. \A u \in Senders : u # t /\ Way(u) = Way(t) => pc[u] # "write"
    BY <1>1 DEF Inv, Locks, Holding
  <1> QED
    BY <1>1, <1>2, <1>3, <1>4

\* The first write of a frame begins a message of the mutex's holder.
LEMMA WriteLengthKeeps ==
    ASSUME Inv, NEW t \in Senders, WriteLength(t)
    PROVE  Inv'
  <1> USE DEF Inv
  <1>t. /\ t \in Threads /\ Way(t) \in Ways /\ t # "none" /\ tx[Way(t)] = t
        /\ Cell(t) \in Cells
    BY WriterIs DEF WriteLength
  <1> DEFINE v == Way(t)
  <1>u. /\ stream' = [stream EXCEPT ![v] = Append(@, Cell(t))]
        /\ part' = [part EXCEPT ![t] = "body"]
        /\ pc[t] = "write" /\ part[t] = "length" /\ sendEnd[v] = "open"
        /\ UNCHANGED <<up, endVars, lockVars, pc, todo, handedOver, channelVars>>
    BY DEF WriteLength
  <1>c. stream[v] \in Seq(Cells)
    BY <1>t DEF Types
  <1>a. /\ Append(stream[v], Cell(t)) \in Seq(Cells)
        /\ Len(Append(stream[v], Cell(t))) = Len(stream[v]) + 1
        /\ \A i \in 1 .. Len(stream[v]) : Append(stream[v], Cell(t))[i] = stream[v][i]
    BY <1>t, <1>c, AppendIs
  <1>1. Types'
    <2>1. stream' \in [Ways -> Seq(Cells)]
      BY <1>t, <1>u, <1>a DEF Types
    <2> QED
      BY <1>t, <1>u, <2>1 DEF Types, endVars, lockVars, channelVars
  <1>2. Locks'
    <2>1. MidFrame'
      BY <1>u DEF Locks, MidFrame, Types
    <2> QED
      BY <1>u, <2>1 DEF Locks, Holding, Busy, RestOfBatch, lockVars
  <1>3. ASSUME NEW w \in Ways, w # v
        PROVE  FramesOf(w)'
    <2>1. stream'[w] = stream[w] /\ \A x \in Senders : x # t => part'[x] = part[x]
      BY <1>3, <1>u DEF Types
    <2> QED
      BY <1>3, <1>u, <2>1, OtherWay DEF endVars, lockVars, channelVars
  <1>4. FramesOf(v)'
    <2>1. /\ stream'[v] = Append(stream[v], Cell(t)) /\ part'[t] = "body"
          /\ Taken(v)' = Taken(v)
      BY <1>t, <1>u DEF Types, Taken, endVars, channelVars
    <2>2. Cut(v) = 2 * Len(sent[v])
      BY <1>t, <1>u DEF Frames, FramesOf, Whole, InFrame
    <2>3. Cut(v)' = Cut(v) + 1
      BY <1>t, <1>a, <2>1, CellsCounted DEF Cut
    <2>4. Whole(v)'
      BY <1>t, <1>u, <2>1, <2>2, <2>3 DEF Whole, InFrame, endVars, lockVars, channelVars
    <2>5. Bodies(v)'
      <3> SUFFICES ASSUME NEW j \in 1 .. Len(sent[v]), 2 * j > Taken(v)
                   PROVE  stream'[v][2 * j - Taken(v)].msg = sent[v][j]
        BY <1>u, <2>1 DEF Bodies, channelVars
      <3>1. 2 * j - Taken(v) \in 1 .. Len(stream[v])
        BY <1>t, <2>2, CellsCounted DEF Cut
      <3> QED
        BY <1>t, <1>a, <2>1, <3>1 DEF Frames, FramesOf, Bodies
    <2>6. Unfinished(v)'
      BY <1>t, <1>u DEF Frames, FramesOf, Unfinished, endVars, lockVars, channelVars
    <2> QED
      BY <2>4, <2>5, <2>6 DEF FramesOf
  <1>5. Frames'
    BY <1>3, <1>4 DEF Frames
  <1> QED
    BY <1>1, <1>2, <1>5

\* A thread lets go of the mutex of its way.
LEMMA LetsGo ==
    ASSUME Inv, NEW t \in Senders, pc[t] = "write",
           NEW p \in PcValues \ {"lock", "write"}, pc' = [pc EXCEPT ![t] = p],
           tx' = [tx EXCEPT ![Way(t)] = "none"]
    PROVE  /\ Holding'
           /\ pc' \in [Threads -> PcValues]
           /\ tx' \in [Ways -> Senders \cup {"none"}]
           /\ tx'[Way(t)] = "none" /\ pc'[t] = p
           /\ \A u \in Senders : u # t => pc'[u] = pc[u]
           /\ \A w \in Ways : w # Way(t) => tx'[w] = tx[w]
  <1>t. /\ t \in Threads /\ Way(t) \in Ways /\ t # "none" /\ tx[Way(t)] = t
        /\ \A u \in Senders : u # t /\ Way(u) = Way(t) => pc[u] # "write"
    BY WriterIs
  <1>1. /\ pc' \in [Threads -> PcValues]
        /\ tx' \in [Ways -> Senders \cup {"none"}]
    BY <1>t DEF Inv, Types, PcValues
  <1>2. /\ tx'[Way(t)] = "none" /\ pc'[t] = p
        /\ \A u \in Senders : u # t => pc'[u] = pc[u]
        /\ \A w \in Ways : w # Way(t) => tx'[w] = tx[w]
    BY <1>t, WayIs DEF Inv, Types
  <1>3. ASSUME NEW u \in Senders
        PROVE  pc'[u] = "write" <=> tx'[Way(u)] = u
    <2>1. Way(u) \in Ways /\ u # "none" /\ (pc[u] = "write" <=> tx[Way(u)] = u)
      BY WayIs DEF Inv, Locks, Holding
    <2>2. CASE u = t
      BY <1>2, <2>1, <2>2
    <2>3. CASE u # t /\ Way(u) = Way(t)
      BY <1>t, <1>2, <2>1, <2>3
    <2>4. CASE Way(u) # Way(t)
      BY <1>2, <2>1, <2>4
    <2> QED
      BY <2>2, <2>3, <2>4
  <1>4. \A w \in Ways : tx'[w] # "none" => Way(tx'[w]) = w
    BY <1>2 DEF Inv, Locks, Holding
  <1>5. Holding'
    BY <1>3, <1>4 DEF Holding, Way
  <1> QED
    BY <1>1, <1>2, <1>5

\* The second ends it, and the mutex goes with the last of a batch.
LEMMA WriteBodyKeeps ==
    ASSUME Inv, NEW t \in Senders, WriteBody(t)
    PROVE  Inv'
  <1> USE DEF Inv
  <1> DEFINE v == Way(t)
             m == Head(todo[t])
  <1>t. /\ t \in Threads /\ v \in Ways /\ t # "none" /\ tx[v] = t
        /\ Cell(t) \in Cells /\ Cell(t).msg = m
        /\ todo[t] # << >> /\ todo[t] \in Seq(C!Message) /\ RestOfBatch(t, todo[t])
    BY WriterIs DEF WriteBody
  <1>m. /\ Len(todo[t]) \in Nat \ {0} /\ m \in C!Message /\ m.from = t /\ (m.more <=> Len(todo[t]) > 1)
        /\ Tail(todo[t]) \in Seq(C!Message) /\ RestOfBatch(t, Tail(todo[t]))
        /\ Tail(todo[t]) = << >> <=> Len(todo[t]) = 1
    BY <1>t, RestIs
  <1>l. Len(todo[t]) > 1 => Len(todo[t]) # 1
    <2>1. Len(todo[t]) \in Nat
      BY <1>m
    <2>2. \A n \in Nat : n > 1 => n # 1
      OBVIOUS
    <2> QED
      BY <2>1, <2>2, Zenon
  <1>u. /\ stream' = [stream EXCEPT ![v] = Append(@, Cell(t))]
        /\ part' = [part EXCEPT ![t] = "length"]
        /\ todo' = [todo EXCEPT ![t] = Tail(@)]
        /\ sent' = [sent EXCEPT ![v] = Append(@, m)]
        /\ pc[t] = "write" /\ part[t] = "body" /\ sendEnd[v] = "open"
        /\ UNCHANGED <<up, endVars, handedOver, delivered, handed>>
    BY DEF WriteBody
  <1>a. /\ Append(stream[v], Cell(t)) \in Seq(Cells)
        /\ Len(Append(stream[v], Cell(t))) = Len(stream[v]) + 1
        /\ \A i \in 1 .. Len(stream[v]) : Append(stream[v], Cell(t))[i] = stream[v][i]
        /\ Append(stream[v], Cell(t))[Len(stream[v]) + 1] = Cell(t)
    <2>1. stream[v] \in Seq(Cells)
      BY <1>t DEF Types
    <2> QED
      BY <1>t, <2>1, AppendIs
  <1>b. /\ Append(sent[v], m) \in Seq(C!Message)
        /\ Len(Append(sent[v], m)) = Len(sent[v]) + 1
        /\ \A i \in 1 .. Len(sent[v]) : Append(sent[v], m)[i] = sent[v][i]
        /\ Append(sent[v], m)[Len(sent[v]) + 1] = m
    <2>1. sent[v] \in Seq(C!Message)
      BY <1>t DEF Types
    <2> QED
      BY <1>m, <2>1, AppendIs
  <1>w. /\ stream'[v] = Append(stream[v], Cell(t)) /\ sent'[v] = Append(sent[v], m)
        /\ part'[t] = "length" /\ todo'[t] = Tail(todo[t])
        /\ \A w \in Ways : w # v => stream'[w] = stream[w] /\ sent'[w] = sent[w]
        /\ \A u \in Senders : u # t => part'[u] = part[u] /\ todo'[u] = todo[u]
    BY <1>t, <1>u DEF Types
  \* The thread lets go of the mutex with the last message of its batch.
  <1>e. /\ Holding' /\ pc' \in [Threads -> PcValues]
        /\ tx' \in [Ways -> Senders \cup {"none"}]
        /\ \A u \in Senders : u # t => pc'[u] = pc[u]
        /\ \A w \in Ways : w # v => tx'[w] = tx[w]
        /\ \/ tx'[v] = "none" /\ Len(todo[t]) = 1 /\ pc'[t] \notin {"lock", "write"}
           \/ tx'[v] = t /\ Len(todo[t]) > 1
    <2>1. CASE EndsHold(t)
      <3>1. AfterLast(t) \in PcValues \ {"lock", "write"}
        BY DEF AfterLast, PcValues
      <3>2. /\ Len(todo[t]) = 1 /\ pc' = [pc EXCEPT ![t] = AfterLast(t)]
            /\ tx' = [tx EXCEPT ![v] = "none"]
        BY <2>1 DEF WriteBody, EndsHold, Release
      <3> QED
        BY <1>t, <1>u, <3>1, <3>2, LetsGo
    <2>2. CASE ~ EndsHold(t)
      <3>1. UNCHANGED <<tx, pc>>
        BY <2>2 DEF WriteBody, lockVars
      <3>2. Len(todo[t]) > 1
        BY <1>m, <2>2 DEF EndsHold
      <3>3. Holding'
        BY <3>1 DEF Locks, Holding, Way
      <3> QED
        BY <1>t, <3>1, <3>2, <3>3 DEF Types, PcValues
    <2> QED
      BY <2>1, <2>2
  <1>1. Types'
    <2>1. /\ stream' \in [Ways -> Seq(Cells)] /\ sent' \in [Ways -> Seq(C!Message)]
          /\ todo' \in [Senders -> Seq(C!Message)]
          /\ part' \in [Senders -> {"length", "body"}]
      BY <1>t, <1>u, <1>a, <1>b, <1>m DEF Types
    <2> QED
      BY <1>u, <1>e, <2>1 DEF Types, PcValues, endVars
  <1>2. Busy'
    <2> SUFFICES ASSUME NEW u \in Senders
                 PROVE  /\ RestOfBatch(u, todo'[u])
                        /\ pc'[u] \in {"lock", "write"} => todo'[u] # << >>
      BY DEF Busy, RestOfBatch
    <2>1. CASE u = t
      <3>1. RestOfBatch(t, todo'[t])
        BY <1>m, <1>w
      <3>2. pc'[t] \in {"lock", "write"} => todo'[t] # << >>
        <4>1. CASE pc'[t] \notin {"lock", "write"}
          BY <4>1
        <4>2. CASE Len(todo[t]) > 1
          BY <1>m, <1>w, <1>l, <4>2, Zenon
        <4> QED
          BY <1>e, <4>1, <4>2
      <3> QED
        BY <2>1, <3>1, <3>2
    <2>2. CASE u # t
      BY <1>w, <1>e, <2>2 DEF Locks, Busy
    <2> QED
      BY <2>1, <2>2
  <1>3. MidFrame'
    BY <1>w, <1>e DEF Locks, MidFrame
  <1>4. ASSUME NEW w \in Ways, w # v
        PROVE  FramesOf(w)'
    BY <1>4, <1>u, <1>w, <1>e, OtherWay DEF endVars
  <1>5. FramesOf(v)'
    <2>1. Taken(v)' = Taken(v) /\ sendEnd'[v] = "open"
      BY <1>u DEF Taken, endVars
    <2>2. Cut(v) = 2 * Len(sent[v]) + 1
      BY <1>t, <1>u DEF Frames, FramesOf, Whole, InFrame
    <2>3. Cut(v)' = 2 * Len(sent'[v])
      <3>1. Len(stream'[v]) = Len(stream[v]) + 1 /\ Len(sent'[v]) = Len(sent[v]) + 1
        BY <1>a, <1>b, <1>w
      <3>2. Len(stream[v]) \in Nat /\ Len(sent[v]) \in Nat /\ Taken(v) \in Nat
        BY <1>t, CellsCounted
      <3>3. Taken(v) + Len(stream[v]) = 2 * Len(sent[v]) + 1
        BY <2>2 DEF Cut
      <3>4. Cut(v)' = Taken(v) + Len(stream'[v])
        BY <2>1 DEF Cut
      <3>5. Taken(v) + (Len(stream[v]) + 1) = 2 * (Len(sent[v]) + 1)
        BY <3>2, <3>3
      <3> QED
        BY <3>1, <3>4, <3>5, Zenon
    <2>4. ~ InFrame(v)'
      BY <1>t, <1>w, <1>e DEF InFrame
    <2>5. Len(sent'[v]) \in Nat
      BY <1>t, <1>b, <1>w, CellsCounted
    <2>6. Whole(v)'
      BY <2>3, <2>4, <2>5 DEF Whole
    <2>7. Bodies(v)'
      <3> SUFFICES ASSUME NEW j \in 1 .. Len(sent[v]) + 1, 2 * j > Taken(v)
                   PROVE  stream'[v][2 * j - Taken(v)].msg = sent'[v][j]
        BY <1>b, <1>w, <2>1 DEF Bodies
      <3>1. CASE j = Len(sent[v]) + 1
        <4>1. 2 * j - Taken(v) = Len(stream[v]) + 1
          BY <1>t, <2>2, <3>1, CellsCounted DEF Cut
        <4> QED
          BY <1>t, <1>a, <1>b, <1>w, <3>1, <4>1
      <3>2. CASE j # Len(sent[v]) + 1
        <4>1. j \in 1 .. Len(sent[v])
          BY <1>t, <3>2, CellsCounted
        <4>2. 2 * j - Taken(v) \in 1 .. Len(stream[v])
          BY <1>t, <2>2, <4>1, CellsCounted DEF Cut
        <4>3. stream[v][2 * j - Taken(v)].msg = sent[v][j]
          BY <1>t, <4>1 DEF Frames, FramesOf, Bodies
        <4>4. stream'[v][2 * j - Taken(v)] = stream[v][2 * j - Taken(v)]
          BY <1>a, <1>w, <4>2, Zenon
        <4>5. sent'[v][j] = sent[v][j]
          BY <1>b, <1>w, <4>1, Zenon
        <4> QED
          BY <4>3, <4>4, <4>5, Zenon
      <3> QED
        BY <3>1, <3>2
    <2>8. Unfinished(v)'
      <3>1. sent'[v][Len(sent'[v])] = m
        BY <1>b, <1>w
      <3>2. m.more => tx'[v] = m.from
        <4> SUFFICES ASSUME m.more
                     PROVE  tx'[v] = t
          BY <1>m
        <4>1. Len(todo[t]) > 1
          BY <1>m
        <4>2. Len(todo[t]) # 1
          BY <1>l, <4>1
        <4> QED
          BY <1>e, <4>2
      <3> QED
        BY <3>1, <3>2 DEF Unfinished
    <2> QED
      BY <2>6, <2>7, <2>8 DEF FramesOf
  <1>6. Frames'
    BY <1>4, <1>5 DEF Frames
  <1> QED
    BY <1>1, <1>2, <1>3, <1>6, <1>e DEF Locks

\* A write that fails gives the mutex back and drops the batch.
LEMMA WriteFailsKeeps ==
    ASSUME Inv, NEW t \in Senders, WriteFails(t)
    PROVE  Inv'
  <1> USE DEF Inv
  <1> DEFINE v == Way(t)
             p == IF t \in {"watcher", "progress", "serve"} THEN "over" ELSE "idle"
  <1>t. t \in Threads /\ v \in Ways
    BY WriterIs DEF WriteFails
  <1>u. /\ sendEnd' = [sendEnd EXCEPT ![v] = "failed"]
        /\ tx' = [tx EXCEPT ![v] = "none"]
        /\ todo' = [todo EXCEPT ![t] = << >>]
        /\ part' = [part EXCEPT ![t] = "length"]
        /\ pc[t] = "write" /\ pc' = [pc EXCEPT ![t] = p]
        /\ recvEnd' \in {recvEnd, [recvEnd EXCEPT !["c2s"] = "gone"]}
        /\ UNCHANGED <<quicVars, half, handedOver, channelVars>>
    BY DEF WriteFails, Release
  <1>e. /\ Holding' /\ pc' \in [Threads -> PcValues]
        /\ tx' \in [Ways -> Senders \cup {"none"}]
        /\ pc'[t] = p
        /\ \A u \in Senders : u # t => pc'[u] = pc[u]
        /\ \A w \in Ways : w # v => tx'[w] = tx[w]
    <2>1. p \in PcValues \ {"lock", "write"}
      BY DEF PcValues
    <2> QED
      BY <1>u, <2>1, LetsGo
  <1>w. /\ sendEnd'[v] = "failed" /\ todo'[t] = << >> /\ part'[t] = "length"
        /\ \A w \in Ways : w # v => sendEnd'[w] = sendEnd[w]
        /\ \A u \in Senders : u # t => part'[u] = part[u] /\ todo'[u] = todo[u]
    BY <1>t, <1>u DEF Types
  <1>1. Types'
    <2>1. /\ sendEnd' \in [Ways -> {"open", "failed"}]
          /\ recvEnd' \in [Ways -> {"open", "gone"}]
          /\ part' \in [Senders -> {"length", "body"}]
      BY <1>t, <1>u DEF Types
    <2>2. todo' \in [Senders -> Seq(C!Message)]
      BY <1>u DEF Types
    <2> QED
      BY <1>u, <1>e, <2>1, <2>2 DEF Types, PcValues, quicVars, channelVars
  <1>2. Busy'
    <2>1. RestOfBatch(t, << >>)
      BY DEF RestOfBatch
    <2>2. p \notin {"lock", "write"}
      OBVIOUS
    <2>3. \A u \in Senders :
            /\ RestOfBatch(u, todo'[u])
            /\ pc'[u] \in {"lock", "write"} => todo'[u] # << >>
      BY <1>w, <1>e, <2>1, <2>2 DEF Locks, Busy
    <2> QED
      BY <2>3 DEF Busy, RestOfBatch
  <1>3. MidFrame'
    BY <1>w, <1>e DEF Locks, MidFrame
  <1>4. ASSUME NEW w \in Ways, w # v
        PROVE  FramesOf(w)'
    BY <1>4, <1>u, <1>w, <1>e, OtherWay DEF quicVars, channelVars
  <1>5. FramesOf(v)'
    BY <1>t, <1>u, <1>w
       DEF Frames, FramesOf, Whole, Bodies, Unfinished, Cut, Taken, quicVars, channelVars
  <1>6. Frames'
    BY <1>4, <1>5 DEF Frames
  <1> QED
    BY <1>1, <1>2, <1>3, <1>6, <1>e DEF Locks

-----------------------------------------------------------------------------
(* Reading.                                                                *)

\* The reader takes one cell, whichever it is.
LEMMA TakesCell ==
    ASSUME Inv, NEW w \in Ways, stream[w] # << >>,
           stream' = [stream EXCEPT ![w] = Tail(@)], Taken(w)' = Taken(w) + 1,
           \A x \in Ways : x # w => half'[x] = half[x] /\ delivered'[x] = delivered[x],
           UNCHANGED <<sendEnd, tx, part, sent>>
    PROVE  Frames' /\ stream' \in [Ways -> Seq(Cells)]
  <1> USE DEF Inv
  <1>t. stream[w] \in Seq(Cells)
    BY DEF Types
  <1>1. /\ Tail(stream[w]) \in Seq(Cells)
        /\ Len(Tail(stream[w])) = Len(stream[w]) - 1
        /\ \A i \in 1 .. Len(stream[w]) - 1 : Tail(stream[w])[i] = stream[w][i + 1]
    BY <1>t
  <1>2. /\ stream' \in [Ways -> Seq(Cells)] /\ stream'[w] = Tail(stream[w])
        /\ \A x \in Ways : x # w => stream'[x] = stream[x]
    BY <1>1 DEF Types
  <1>3. ASSUME NEW x \in Ways, x # w
        PROVE  FramesOf(x)'
    <2>1. InFrame(x)' <=> InFrame(x)
      BY DEF InFrame
    <2> QED
      BY <1>2, <1>3, <2>1
         DEF Frames, FramesOf, Whole, Bodies, Unfinished, Cut, Taken
  <1>4. FramesOf(w)'
    <2>1. Cut(w)' = Cut(w)
      <3>1. Cut(w)' = (Taken(w) + 1) + (Len(stream[w]) - 1)
        BY <1>1, <1>2 DEF Cut
      <3>2. Taken(w) \in Nat /\ Len(stream[w]) \in Nat
        BY CellsCounted
      <3> QED
        BY <3>1, <3>2 DEF Cut
    <2>2. Whole(w)'
      <3>1. InFrame(w)' <=> InFrame(w)
        BY DEF InFrame
      <3> QED
        BY <2>1, <3>1 DEF Frames, FramesOf, Whole
    <2>3. Bodies(w)'
      <3> SUFFICES ASSUME NEW j \in 1 .. Len(sent[w]), 2 * j > Taken(w) + 1
                   PROVE  stream'[w][2 * j - (Taken(w) + 1)].msg = sent[w][j]
        BY DEF Bodies
      <3>1. /\ Taken(w) \in Nat /\ Len(stream[w]) \in Nat /\ Len(sent[w]) \in Nat
            /\ 2 * Len(sent[w]) <= Taken(w) + Len(stream[w])
        <4>1. Cut(w) = 2 * Len(sent[w]) \/ Cut(w) = 2 * Len(sent[w]) + 1
          BY DEF Frames, FramesOf, Whole
        <4> QED
          BY <4>1, CellsCounted DEF Cut
      <3>2. 2 * j - (Taken(w) + 1) \in 1 .. Len(stream[w]) - 1
        BY <3>1
      <3>3. stream'[w][2 * j - (Taken(w) + 1)] = stream[w][2 * j - Taken(w)]
        <4>1. (2 * j - (Taken(w) + 1)) + 1 = 2 * j - Taken(w)
          BY <3>1
        <4> QED
          BY <1>1, <1>2, <3>2, <4>1
      <3>4. 2 * j > Taken(w)
        BY <3>1
      <3> QED
        BY <3>3, <3>4 DEF Frames, FramesOf, Bodies
    <2>4. Unfinished(w)'
      BY DEF Frames, FramesOf, Unfinished
    <2> QED
      BY <2>2, <2>3, <2>4 DEF FramesOf
  <1> QED
    BY <1>2, <1>3, <1>4 DEF Frames

\* The first read of a frame finds a length.
LEMMA ReadLengthKeeps ==
    ASSUME Inv, NEW w \in Ways, ReadLength(w)
    PROVE  Inv'
  <1> USE DEF Inv
  <1>1. Taken(w)' = Taken(w) + 1
    <2>1. Taken(w) = 2 * delivered[w] /\ Taken(w)' = 2 * delivered[w] + 1
      <3>1. ~ half[w] /\ half'[w] /\ delivered' = delivered
        BY DEF ReadLength, Types, channelVars
      <3>2. delivered[w] \in Nat
        BY DEF Types
      <3> QED
        BY <3>1, <3>2 DEF Taken
    <2> QED
      BY <2>1
  <1>2. \A x \in Ways : x # w => half'[x] = half[x] /\ delivered'[x] = delivered[x]
    BY DEF ReadLength, Types, channelVars
  <1>3. Frames' /\ stream' \in [Ways -> Seq(Cells)]
    BY <1>1, <1>2, TakesCell DEF ReadLength, lockVars, threadVars, channelVars
  <1>4. Types'
    <2>1. half' \in [Ways -> BOOLEAN]
      BY DEF ReadLength, Types
    <2> QED
      BY <1>3, <2>1 DEF ReadLength, Types, lockVars, threadVars, channelVars
  <1>5. Locks'
    BY DEF ReadLength, Locks, Holding, Busy, MidFrame, RestOfBatch, lockVars, threadVars
  <1> QED
    BY <1>3, <1>4, <1>5

\* After a length the reader finds the body of the next message, and of no
\* other.
LEMMA NextBody ==
    ASSUME Inv, NEW w \in Ways, half[w], stream[w] # << >>
    PROVE  /\ delivered[w] < Len(sent[w])
           /\ delivered[w] + 1 \in 1 .. Len(sent[w])
           /\ Head(stream[w]).msg = sent[w][delivered[w] + 1]
  <1>1. Types
    BY DEF Inv
  <1>2. /\ Taken(w) = 2 * delivered[w] + 1 /\ delivered[w] \in Nat
        /\ Len(stream[w]) \in Nat /\ Len(sent[w]) \in Nat
    BY <1>1, CellsCounted
  <1>3. stream[w] \in Seq(Cells)
    BY <1>1 DEF Types
  <1>4. Len(stream[w]) >= 1 /\ Head(stream[w]) = stream[w][1]
    BY <1>3
  <1>5. Taken(w) + Len(stream[w]) <= 2 * Len(sent[w]) + 1
    BY <1>2 DEF Inv, Frames, FramesOf, Whole, Cut
  <1>6. delivered[w] < Len(sent[w]) /\ delivered[w] + 1 \in 1 .. Len(sent[w])
    BY <1>2, <1>4, <1>5
  <1>7. 2 * (delivered[w] + 1) > Taken(w) /\ 2 * (delivered[w] + 1) - Taken(w) = 1
    BY <1>2
  <1>8. stream[w][1].msg = sent[w][delivered[w] + 1]
    BY <1>6, <1>7 DEF Inv, Frames, FramesOf, Bodies
  <1> QED
    BY <1>4, <1>6, <1>8

\* The second finds the body that goes with it.
LEMMA ReadBodyKeeps ==
    ASSUME Inv, NEW w \in Ways, ReadBody(w)
    PROVE  Inv'
  <1> USE DEF Inv
  <1>1. Taken(w)' = Taken(w) + 1
    <2>1. half[w] /\ ~ half'[w] /\ delivered'[w] = delivered[w] + 1
      BY DEF ReadBody, Types
    <2>2. delivered[w] \in Nat
      BY DEF Types
    <2>3. Taken(w) = 2 * delivered[w] + 1 /\ Taken(w)' = 2 * (delivered[w] + 1)
      BY <2>1, <2>2 DEF Taken
    <2> QED
      BY <2>2, <2>3
  <1>2. \A x \in Ways : x # w => half'[x] = half[x] /\ delivered'[x] = delivered[x]
    BY DEF ReadBody, Types
  <1>3. Frames' /\ stream' \in [Ways -> Seq(Cells)]
    BY <1>1, <1>2, TakesCell DEF ReadBody, lockVars
  <1>4. Locks' /\ pc' \in [Threads -> PcValues]
    <2>1. /\ Reader(w) \in Threads /\ pc[Reader(w)] \notin {"lock", "write"}
          /\ UNCHANGED <<tx, todo, part>>
      BY ReaderIs DEF ReadBody, Reading, lockVars
    <2> DEFINE p == IF w = "c2s" THEN "apply" ELSE "route"
    <2>2. p \in PcValues \ {"lock", "write"}
      BY DEF PcValues
    <2>3. pc' = [pc EXCEPT ![Reader(w)] = p]
      BY DEF ReadBody
    <2> QED
      BY <2>1, <2>2, <2>3, Moves
  <1>5. Types'
    <2>1. half' \in [Ways -> BOOLEAN] /\ delivered' \in [Ways -> Nat]
      BY DEF ReadBody, Types
    <2>2. handed' \in [Ways -> C!Message \cup {C!NoMessage}]
      <3>1. sent[w] \in Seq(C!Message)
        BY DEF Types
      <3>2. Head(stream[w]).msg \in C!Message
        BY <3>1, NextBody DEF ReadBody
      <3> QED
        BY <3>2 DEF ReadBody, Types
    <2> QED
      BY <1>3, <1>4, <2>1, <2>2 DEF ReadBody, Types, PcValues, lockVars
  <1> QED
    BY <1>3, <1>4, <1>5

-----------------------------------------------------------------------------
(* The theorems.                                                           *)

LEMMA NextKeeps == Inv /\ [Next]_vars => Inv'
  <1> SUFFICES ASSUME Inv, [Next]_vars
               PROVE  Inv'
    OBVIOUS
  <1>s. "serve" \in Senders /\ OnlySend \subseteq Senders
    BY DEF OnlySend, Senders, FromC, FromS
  <1>w. {"c2s", "s2c"} \subseteq Ways
    BY DEF Ways
  <1>1. ASSUME NEW t \in Senders, Writes(t)
        PROVE  Inv'
    BY <1>1, LockKeeps, WriteLengthKeeps, WriteBodyKeeps, WriteFailsKeeps DEF Writes
  <1>2. ASSUME NEW w \in Ways, Reads(w)
        PROVE  Inv'
    BY <1>2, ReadLengthKeeps, ReadBodyKeeps, ReadFailsKeeps DEF Reads
  <1>3. CASE HasSomething
    BY <1>3, HasSomethingKeeps
  <1>4. CASE ConnectionLost
    BY <1>4, LossKeeps
  <1>6. CASE Serve
    BY <1>6, <1>1, <1>2, <1>s, <1>w, ServeKeeps DEF Serve
  <1>7. CASE ReaderThread
    BY <1>7, <1>2, <1>w, RouteKeeps DEF ReaderThread
  <1>8. CASE UNCHANGED vars
    <2>1. Frames'
      BY <1>8, SameFrames
         DEF Inv, vars, quicVars, endVars, lockVars, threadVars, channelVars
    <2>2. Types' /\ Locks'
      BY <1>8 DEF Inv, Types, Locks, Holding, Busy, MidFrame, RestOfBatch,
                  vars, quicVars, endVars, lockVars, threadVars, channelVars
    <2> QED
      BY <2>1, <2>2 DEF Inv
  <1> QED
    BY <1>1, <1>3, <1>4, <1>6, <1>7, <1>8, <1>s DEF Next

\* The invariant holds of every behaviour: types; who has a send mutex writes
\* and nobody else does; and the cells on each way are those of the messages
\* sent and not yet read, in order, whichever way has ended.
THEOREM LinkInvariant == Spec => []Inv
  BY InitInv, NextKeeps, PTL DEF Spec

\* A step of the threads on both sides is a message sent, a message read, or
\* nothing that Channel sees.
LEMMA ChannelStep == Inv /\ [Next]_vars => [C!Next]_(C!channelVars)
  <1> SUFFICES ASSUME Inv, [Next]_vars
               PROVE  C!Next \/ UNCHANGED channelVars
    BY DEF C!channelVars, channelVars
  <1>s. "serve" \in Senders /\ OnlySend \subseteq Senders
    BY DEF OnlySend, Senders, FromC, FromS
  <1>w. {"c2s", "s2c"} \subseteq Ways
    BY DEF Ways
  <1>1. ASSUME NEW t \in Senders, WriteBody(t)
        PROVE  C!Next
    <2> DEFINE v == Way(t)
               m == Head(todo[t])
    <2>1. /\ v \in Ways /\ tx[v] = t
          /\ todo[t] # << >> /\ todo[t] \in Seq(C!Message) /\ RestOfBatch(t, todo[t])
      BY <1>1, WriterIs DEF WriteBody
    <2>2. m \in C!Message /\ m.from = t
      BY <2>1, RestIs
    <2>3. C!MayFollow(sent[v], m)
      BY <1>1, <2>1, <2>2
         DEF WriteBody, Inv, Frames, FramesOf, Unfinished, C!MayFollow
    <2>4. sent' = [sent EXCEPT ![v] = Append(@, m)] /\ UNCHANGED <<delivered, handed>>
      BY <1>1 DEF WriteBody
    <2>5. C!Send(v)
      BY <2>2, <2>3, <2>4 DEF C!Send
    <2> QED
      BY <2>1, <2>5 DEF C!Next
  <1>2. ASSUME NEW w \in Ways, ReadBody(w)
        PROVE  C!Next
    <2>1. /\ delivered[w] < Len(sent[w])
          /\ Head(stream[w]).msg = sent[w][delivered[w] + 1]
      BY <1>2, NextBody DEF ReadBody, Inv
    <2>2. C!Deliver(w)
      BY <1>2, <2>1 DEF ReadBody, C!Deliver
    <2> QED
      BY <2>2 DEF C!Next
  <1>3. ASSUME NEW t \in Senders, Writes(t)
        PROVE  C!Next \/ UNCHANGED channelVars
    BY <1>1, <1>3 DEF Writes, Lock, WriteLength, WriteFails
  <1>4. ASSUME NEW w \in Ways, Reads(w)
        PROVE  C!Next \/ UNCHANGED channelVars
    BY <1>2, <1>4 DEF Reads, ReadLength, ReadFails
  <1>5. CASE HasSomething \/ ConnectionLost \/ UNCHANGED vars
    BY <1>5 DEF HasSomething, SingleFromC, WatcherHasBatch, ProgressTakes, EventEmitted,
                ConnectionLost, vars
  <1>7. CASE Serve
    BY <1>7, <1>3, <1>4, <1>s, <1>w DEF Serve, ServeReplays, ServeApplies
  <1>8. CASE ReaderThread
    BY <1>8, <1>4, <1>w DEF ReaderThread, Route
  <1> QED
    BY <1>3, <1>5, <1>7, <1>8, <1>s DEF Next

\* However many threads send at once, and however small the streams are,
\* messages arrive whole, once and in order, and batches in one piece.
THEOREM LinkImplements == Spec => ImplementsChannel
  <1>1. Init => C!Init
    BY DEF Init
  <1> QED
    BY <1>1, LinkInvariant, ChannelStep, PTL DEF Spec, ImplementsChannel, C!Spec
=============================================================================
