-------------------------------- MODULE Link --------------------------------
(***************************************************************************)
(* The link, from the threads that send on it to the threads that read it: *)
(* write_msg and read_msg over the two ways of one QUIC stream, under the  *)
(* send mutex of each daemon.                                              *)
(*                                                                         *)
(* A write blocks when the stream is full, and then its thread holds the   *)
(* send mutex, S's message thread the applier as well.  Both ways may be   *)
(* full at once; what keeps the daemons from waiting for each other is     *)
(* that C's reader never wants a lock that a thread holds while it writes. *)
(*                                                                         *)
(* A frame is two cells, its length and its body, each one write_all.      *)
(* What messages mean is left to the other modules: here a message has a   *)
(* sender, is followed by another of its batch or not, and is larger than  *)
(* MAX_FRAME_BYTES or not.  QUIC is external.                              *)
(***************************************************************************)
EXTENDS Naturals, Sequences

CONSTANTS
    Window,         \* cells a stream holds before a write blocks
    MaxFromC,       \* bound: times a thread of C has something to send
    MaxFromS,       \* bound: times a thread of S has, beside its answers
    MaxBatch        \* bound: messages in a batch

ASSUME LinkAssumption ==
    /\ Window \in Nat \ {0}
    /\ MaxFromC \in Nat /\ MaxFromS \in Nat
    /\ MaxBatch \in Nat \ {0}

FromC == {"vtest", "watcher", "proxy"}
FromS == {"serve", "progress", "events"}
Senders == FromC \cup FromS
Ways == {"c2s", "s2c"}

VARIABLES
    \* QUIC
    up,             \* the connection
    stream,         \* for each way, the cells between writer and reader
    \* the ends of each way
    sendEnd,        \* "open", "failed": once a write fails, all do
    recvEnd,        \* "open", "gone"
    half,           \* the reader has a length and waits for its body
    \* locks, each with its holder or "none"
    tx,             \* the send mutex of each way
    blobs,          \* C's BlobTable
    applier,        \* S's Applier
    \* threads
    pc,             \* senders: "idle", "lock", "write", "over", and
                    \* "read" and "apply" for serve; "reader": "read",
                    \* "route", "over"
    todo,           \* messages a sender has still to write
    part,           \* which of the two writes of Head(todo) is next
    handedOver,     \* bound: hand-overs so far, on each side
    \* what Channel sees
    sent, delivered, handed

quicVars == <<up, stream>>
endVars == <<sendEnd, recvEnd, half>>
lockVars == <<tx, blobs, applier>>
threadVars == <<pc, todo, part, handedOver>>
channelVars == <<sent, delivered, handed>>
vars == <<quicVars, endVars, lockVars, threadVars, channelVars>>

C == INSTANCE Channel

Way(t) == IF t \in FromC THEN "c2s" ELSE "s2c"

\* A run of a blob, those of an answer, and a vtest command may be larger than
\* a frame: nothing cuts them.  A ring's delta and a Wayland message are not.
MayBeLarge(t, n) ==
    IF t \in {"proxy", "events"} THEN {}
    ELSE IF t = "watcher" THEN 1 .. n - 1 ELSE 1 .. n

\* The batches of n messages that t may have to send.
Batches(t, n) ==
    {[i \in 1 .. n |-> [from |-> t, more |-> i < n, large |-> i \in large]] :
        large \in SUBSET MayBeLarge(t, n)}

-----------------------------------------------------------------------------
(* What the threads have to send.                                          *)

MayHand(t) ==
    /\ pc[t] = "idle"
    /\ handedOver[Way(t)] < IF t \in FromC THEN MaxFromC ELSE MaxFromS

HandOver(t, n) ==
    /\ \E msgs \in Batches(t, n) : todo' = [todo EXCEPT ![t] = msgs]
    /\ pc' = [pc EXCEPT ![t] = "lock"]
    /\ handedOver' = [handedOver EXCEPT ![Way(t)] = @ + 1]

\* The vtest thread (unref_resource) and the Wayland proxy (resolve_inode) have
\* the blob table for a moment and let go of it before they send; they hold
\* nothing while they wait for it, so that wait is left out.
SingleFromC(t) ==
    /\ MayHand(t)
    /\ HandOver(t, 1)
    /\ UNCHANGED <<quicVars, endVars, lockVars, part, channelVars>>

\* Mutant: the watcher ships with the blob table still locked.
KeepTable == blobs' = "watcher"

\* The table's lock ends with messages_for_delta's block.
ReleaseTable == blobs' = "none"

\* messages_for_delta diffs every blob under the table's lock, and waits for
\* nothing meanwhile; the delta comes last.
WatcherHasBatch ==
    /\ MayHand("watcher")
    /\ blobs = "none"
    /\ ReleaseTable
    /\ \E n \in 1 .. MaxBatch : HandOver("watcher", n)
    /\ UNCHANGED <<quicVars, endVars, tx, applier, part, channelVars>>

\* The progress thread holds the applier while it takes, not while it ships.
ProgressTakes ==
    /\ MayHand("progress")
    /\ applier = "none"
    /\ \E n \in 1 .. MaxBatch : HandOver("progress", n)
    /\ UNCHANGED <<quicVars, endVars, lockVars, part, channelVars>>

\* translate_and_emit: the maps' lock is gone by the time of the emit.
EventEmitted ==
    /\ MayHand("events")
    /\ HandOver("events", 1)
    /\ UNCHANGED <<quicVars, endVars, lockVars, part, channelVars>>

\* serve: a Wayland message goes to the replay, which needs no lock of these;
\* any other is applied with the applier locked, and answered, or not, before
\* that is released.
ServeReplays ==
    /\ pc["serve"] = "apply"
    /\ handed["c2s"].from = "proxy"
    /\ pc' = [pc EXCEPT !["serve"] = "read"]
    /\ UNCHANGED <<quicVars, endVars, lockVars, todo, part, handedOver, channelVars>>

ServeApplies ==
    /\ pc["serve"] = "apply"
    /\ handed["c2s"].from # "proxy"
    /\ applier = "none"
    /\ \/ /\ pc' = [pc EXCEPT !["serve"] = "read"]
          /\ UNCHANGED <<todo, applier>>
       \/ /\ applier' = "serve"
          /\ \E msgs \in Batches("serve", 1) : todo' = [todo EXCEPT !["serve"] = msgs]
          /\ pc' = [pc EXCEPT !["serve"] = "lock"]
    /\ UNCHANGED <<quicVars, endVars, tx, blobs, part, handedOver, channelVars>>

-----------------------------------------------------------------------------
(* Writing: one hold of the mutex for a batch, write_msg for each message. *)

Lock(t) ==
    /\ pc[t] = "lock"
    /\ tx[Way(t)] = "none"
    /\ tx' = [tx EXCEPT ![Way(t)] = t]
    /\ pc' = [pc EXCEPT ![t] = "write"]
    /\ UNCHANGED <<quicVars, endVars, blobs, applier, todo, part, handedOver,
                   channelVars>>

Room(w) == Len(stream[w]) < Window

Freed(lock, t) == IF lock = t THEN "none" ELSE lock

\* The guards a sender has go out of scope.
Release(t) ==
    /\ tx' = [tx EXCEPT ![Way(t)] = "none"]
    /\ applier' = Freed(applier, t)
    /\ blobs' = Freed(blobs, t)

Cell(t) == [part |-> part[t], msg |-> Head(todo[t])]

WriteLength(t) ==
    /\ pc[t] = "write" /\ part[t] = "length"
    /\ sendEnd[Way(t)] = "open" /\ Room(Way(t))
    /\ stream' = [stream EXCEPT ![Way(t)] = Append(@, Cell(t))]
    /\ part' = [part EXCEPT ![t] = "body"]
    /\ UNCHANGED <<up, endVars, lockVars, pc, todo, handedOver, channelVars>>

\* Mutant: the mutex is taken for each message, not for the batch.
LastOfHold(t) == TRUE

\* The batch is written.
EndsHold(t) == Len(todo[t]) = 1

AfterLast(t) == IF t = "serve" THEN "read" ELSE "idle"

WriteBody(t) ==
    /\ pc[t] = "write" /\ part[t] = "body"
    /\ sendEnd[Way(t)] = "open" /\ Room(Way(t))
    /\ stream' = [stream EXCEPT ![Way(t)] = Append(@, Cell(t))]
    /\ part' = [part EXCEPT ![t] = "length"]
    /\ todo' = [todo EXCEPT ![t] = Tail(@)]
    /\ IF EndsHold(t)
       THEN /\ Release(t)
            /\ pc' = [pc EXCEPT ![t] = IF Len(todo[t]) = 1 THEN AfterLast(t) ELSE "lock"]
       ELSE UNCHANGED <<lockVars, pc>>
    /\ sent' = [sent EXCEPT ![Way(t)] = Append(@, Head(todo[t]))]
    /\ UNCHANGED <<up, endVars, handedOver, delivered, handed>>

\* A write fails once the connection is lost or the peer has dropped its end,
\* and so does every write after it.  The watcher, the progress thread and
\* serve return, serve with its end of the way from C; the others report it
\* and go on.
WriteFails(t) ==
    /\ pc[t] = "write"
    /\ \/ ~ up
       \/ recvEnd[Way(t)] = "gone"
       \/ sendEnd[Way(t)] = "failed"
    /\ sendEnd' = [sendEnd EXCEPT ![Way(t)] = "failed"]
    /\ Release(t)
    /\ todo' = [todo EXCEPT ![t] = << >>]
    /\ part' = [part EXCEPT ![t] = "length"]
    /\ pc' = [pc EXCEPT ![t] = IF t \in {"watcher", "progress", "serve"} THEN "over"
                                ELSE "idle"]
    /\ recvEnd' = IF t = "serve" THEN [recvEnd EXCEPT !["c2s"] = "gone"] ELSE recvEnd
    /\ UNCHANGED <<quicVars, half, handedOver, channelVars>>

-----------------------------------------------------------------------------
(* Reading: read_msg, on S's message thread and C's reader thread.         *)

Reader(w) == IF w = "c2s" THEN "serve" ELSE "reader"

Reading(w) == pc[Reader(w)] = "read"

ReadLength(w) ==
    /\ Reading(w) /\ ~ half[w]
    /\ stream[w] # << >>
    /\ ~ Head(stream[w]).msg.large
    /\ half' = [half EXCEPT ![w] = TRUE]
    /\ stream' = [stream EXCEPT ![w] = Tail(@)]
    /\ UNCHANGED <<up, sendEnd, recvEnd, lockVars, threadVars, channelVars>>

ReadBody(w) ==
    /\ Reading(w) /\ half[w]
    /\ stream[w] # << >>
    /\ half' = [half EXCEPT ![w] = FALSE]
    /\ stream' = [stream EXCEPT ![w] = Tail(@)]
    /\ handed' = [handed EXCEPT ![w] = Head(stream[w]).msg]
    /\ delivered' = [delivered EXCEPT ![w] = @ + 1]
    /\ pc' = [pc EXCEPT ![Reader(w)] = IF w = "c2s" THEN "apply" ELSE "route"]
    /\ UNCHANGED <<up, sendEnd, recvEnd, lockVars, todo, part, handedOver, sent>>

\* The length is refused, or the connection is lost, with or without what was
\* on its way: the thread returns, and its end of the stream is dropped.
ReadFails(w) ==
    /\ Reading(w)
    /\ \/ ~ up
       \/ ~ half[w] /\ stream[w] # << >> /\ Head(stream[w]).msg.large
    /\ recvEnd' = [recvEnd EXCEPT ![w] = "gone"]
    /\ pc' = [pc EXCEPT ![Reader(w)] = "over"]
    /\ UNCHANGED <<quicVars, sendEnd, half, lockVars, todo, part, handedOver,
                   channelVars>>

\* C's reader: blob data and a new blob need the table, an event none of the
\* locks here.  Answers and events are queued without a limit.
Route ==
    /\ pc["reader"] = "route"
    /\ handed["s2c"].from # "events" => blobs = "none"
    /\ pc' = [pc EXCEPT !["reader"] = "read"]
    /\ UNCHANGED <<quicVars, endVars, lockVars, todo, part, handedOver, channelVars>>

ConnectionLost ==
    /\ up
    /\ up' = FALSE
    /\ UNCHANGED <<stream, endVars, lockVars, threadVars, channelVars>>

-----------------------------------------------------------------------------
Threads == Senders \cup {"reader"}

Init ==
    /\ up = TRUE
    /\ stream = [w \in Ways |-> << >>]
    /\ sendEnd = [w \in Ways |-> "open"]
    /\ recvEnd = [w \in Ways |-> "open"]
    /\ half = [w \in Ways |-> FALSE]
    /\ tx = [w \in Ways |-> "none"] /\ blobs = "none" /\ applier = "none"
    /\ pc = [t \in Threads |-> IF t \in {"serve", "reader"} THEN "read" ELSE "idle"]
    /\ todo = [t \in Senders |-> << >>]
    /\ part = [t \in Senders |-> "length"]
    /\ handedOver = [w \in Ways |-> 0]
    /\ C!Init

\* A thread may have something to send.
HasSomething ==
    \/ SingleFromC("vtest") \/ SingleFromC("proxy") \/ WatcherHasBatch
    \/ ProgressTakes \/ EventEmitted

\* What a thread that has begun does next.
Writes(t) == Lock(t) \/ WriteLength(t) \/ WriteBody(t) \/ WriteFails(t)

Reads(w) == ReadLength(w) \/ ReadBody(w) \/ ReadFails(w)

Serve == Reads("c2s") \/ ServeReplays \/ ServeApplies \/ Writes("serve")

ReaderThread == Reads("s2c") \/ Route

OnlySend == {"vtest", "watcher", "proxy", "progress", "events"}

Next ==
    \/ HasSomething \/ ConnectionLost
    \/ Serve \/ ReaderThread
    \/ \E t \in OnlySend : Writes(t)

\* Threads that have begun go on; nobody need have anything to send, and the
\* connection need not be lost.
Fairness ==
    /\ WF_vars(Serve) /\ WF_vars(ReaderThread)
    /\ \A t \in OnlySend : WF_vars(Writes(t))

Spec == Init /\ [][Next]_vars /\ Fairness

-----------------------------------------------------------------------------
(* Properties.                                                             *)

\* Messages arrive whole, once, in order, each batch in one piece, whatever the
\* threads of a daemon do at once and wherever a way ends (write_msg under the
\* send mutex, read_msg).
ImplementsChannel == C!Spec

Writing(t) == pc[t] \in {"lock", "write"}

AllRead(w) == delivered[w] = Len(sent[w]) \/ recvEnd[w] = "gone"

\* Nobody waits for ever, although both ways may be full at once: the link
\* comes to rest again and again (there being so much to send and no more).
\* Then whoever had something to send is rid of it or was told that it cannot
\* be sent, and every message written has been read unless its reader has gone.
NobodyWaitsForEver ==
    []<>((\A t \in Senders : ~ Writing(t)) /\ \A w \in Ways : AllRead(w))
=============================================================================
