------------------------------- MODULE Session -------------------------------
(***************************************************************************)
(* A relayed session from Mesa's vtest command to S's engine and back: the *)
(* vtest server on C calls RelayEngine, which sends C2S messages and waits *)
(* on a channel that the reader thread fills; S's message thread holds the *)
(* applier lock while it asks the engine's actor and answers.              *)
(*                                                                         *)
(* An answer names no request.  That the next message in the channel is    *)
(* the answer rests on one request at a time, on links that keep order, on *)
(* S answering every request it owes an answer, also with an error, and on *)
(* the reader queueing nothing else; errors that nobody waits for must     *)
(* therefore say so themselves (`solicited`).  Messages carry, besides     *)
(* what the code sends, the number of the vtest command behind them.       *)
(*                                                                         *)
(* The ring, blob contents and the progress thread are RelayRing's and     *)
(* BlobSync's; of the watcher there is a BlobData on its way to S.  Nothing*)
(* in the daemons calls wait_for_work_retired: the waiters are whoever     *)
(* holds another EngineClient.                                             *)
(***************************************************************************)
EXTENDS VtestServer, EngineActor

CONSTANTS
    Serve,          \* the client that is S's message thread
    MaxTurns,       \* bound: Mesa's commands after its handshake, and the
                    \* waiters' waits, together
    MaxDiff         \* bound: batches the watcher ships

ASSUME SessionAssumption ==
    /\ Serve \in Clients /\ Contexts # {}
    /\ MaxTurns \in Nat /\ MaxDiff \in Nat

VARIABLES
    \* RelayEngine
    asked,          \* the request whose answer it waits for
    pending,        \* the one-slot PendingBlob: the command it was made for
    cblobs,         \* the BlobTable, with the command behind each blob
    ringSlot,       \* the RingSlot
    \* C's reader thread, and the channel to ChannelLink
    reader,         \* "up", "gone"
    replies,
    \* C's watcher
    batch, diffs,
    \* the links
    link, c2s, s2c,
    \* S's message thread and Applier
    spc,            \* "recv", "engine", "undo", "undoing", "send", "over"
    smsg, sout,
    sctx,           \* Applier.ctx_id is Some
    sblobs,         \* Applier.blobs, with the command behind each
    exported,       \* Applier.exported_fds
    internal,       \* Applier.venus_internal
    rings,          \* Applier.rings
    waits           \* bound: waits the waiters have left

cVars == <<asked, pending, cblobs, ringSlot, reader, replies, batch, diffs>>
linkVars == <<link, c2s, s2c>>
applierVars == <<sctx, sblobs, exported, internal, rings>>
sVars == <<spc, smsg, sout, applierVars>>
vars == <<vtestVars, actorVars, cVars, linkVars, sVars, waits>>

Context == CHOOSE x \in Contexts : TRUE

\* A message of either direction, and what each type of message adds to it.
Message(type, number) ==
    [type |-> type, number |-> number, res |-> 0, shape |-> "none",
     solicited |-> FALSE]

None == Message("none", 0)

-----------------------------------------------------------------------------
(* RelayEngine, on C's vtest thread.                                       *)

\* ChannelLink::send, under the send lock it shares with the watcher.
SendC2S(m) == c2s' = Append(c2s, m)

Calls(kind) == vpc = "call" /\ serving.kind = kind /\ asked = None

\* create_venus_context and submit do not wait for S.  (submit's barrier is
\* RelayRing's.)
SendAndReturn(type) ==
    /\ IF link = "up" THEN SendC2S(Message(type, serving.number)) ELSE UNCHANGED c2s
    /\ FinishCall(link = "up", 0)
    /\ UNCHANGED <<actorVars, cVars, link, s2c, sVars, waits>>

CreateVenusContext == Calls("ContextInit") /\ SendAndReturn("CreateContext")
Submit == Calls("SubmitCmd2") /\ SendAndReturn("SubmitCmd")

\* Mutant: the table keeps what Mesa has given back.
KeepBlob(r) == UNCHANGED cblobs

ForgetBlob(r) == cblobs' = Without(cblobs, r)

\* unref_resource: C forgets first, and a send that fails is ignored.
Unref ==
    /\ Calls("ResourceUnref")
    /\ ForgetBlob(serving.res)
    /\ IF link = "up"
       THEN SendC2S([Message("UnrefResource", serving.number) EXCEPT !.res = serving.res])
       ELSE UNCHANGED c2s
    /\ FinishCall(TRUE, 0)
    /\ UNCHANGED <<actorVars, asked, pending, ringSlot, reader, replies, batch,
                   diffs, link, s2c, sVars, waits>>

\* request, up to its recv.
Ask(m) ==
    IF link = "up"
    THEN SendC2S(m) /\ asked' = m /\ UNCHANGED vtestVars
    ELSE FinishCall(FALSE, 0) /\ UNCHANGED <<c2s, asked>>

VenusCapset ==
    /\ Calls("GetCapset")
    /\ Ask(Message("GetCapset", serving.number))
    /\ UNCHANGED <<actorVars, pending, cblobs, ringSlot, reader, replies, batch,
                   diffs, link, s2c, sVars, waits>>

\* create_blob_resource: C's own memory first, into the slot, whatever was in
\* it; then the request.
CreateBlobResource ==
    /\ Calls("ResourceCreateBlob")
    /\ \/ /\ pending' = serving.number
          /\ Ask([Message("CreateBlob", serving.number) EXCEPT !.shape = serving.shape])
       \/ FinishCall(FALSE, 0) /\ UNCHANGED <<pending, c2s, asked>>
    /\ UNCHANGED <<actorVars, cblobs, ringSlot, reader, replies, batch, diffs,
                   link, s2c, sVars, waits>>

Expected == IF asked.type = "GetCapset" THEN "Capset" ELSE "BlobCreated"

\* request, from its recv on: an error, or anything but the kind expected,
\* fails the call.  The first ring-shaped blob is the ring, for good.
ReceiveAnswer ==
    /\ asked # None
    /\ replies # << >>
    /\ LET m == Head(replies)
           ok == m.type = Expected
       IN /\ FinishCall(ok, IF ok /\ m.type = "BlobCreated" THEN m.res ELSE 0)
          /\ ringSlot' = IF ok /\ m.type = "BlobCreated" /\ ringSlot = 0
                              /\ asked.shape = "ring"
                         THEN m.res ELSE ringSlot
    /\ replies' = Tail(replies)
    /\ asked' = None
    /\ UNCHANGED <<actorVars, pending, cblobs, reader, batch, diffs, linkVars,
                   sVars, waits>>

NoAnswer ==
    /\ asked # None
    /\ replies = << >>
    /\ reader = "gone"
    /\ FinishCall(FALSE, 0)
    /\ asked' = None
    /\ UNCHANGED <<actorVars, pending, cblobs, ringSlot, reader, replies, batch,
                   diffs, linkVars, sVars, waits>>

-----------------------------------------------------------------------------
(* C's reader thread.                                                      *)

\* Mutant: an error goes to the caller whether or not it answers it.
IsErrorAnyway(m) == m.type # "BlobData"

\* An error that answers nothing is logged.
IsAnswer(m) == m.type # "Error" \/ m.solicited

\* Mutant: the caller is woken before the blob is in the table.
CommitLate(m) == UNCHANGED <<pending, cblobs>>

\* commit_pending_blob, before the answer is passed on: whatever is in the
\* slot becomes the blob of S's resource.
CommitPendingBlob(m) ==
    IF m.type = "BlobCreated" /\ pending # 0
    THEN pending' = 0 /\ cblobs' = With(cblobs, {m.res}, pending)
    ELSE UNCHANGED <<pending, cblobs>>

Reader ==
    /\ reader = "up"
    /\ s2c # << >>
    /\ LET m == Head(s2c)
       IN /\ CommitPendingBlob(m)
          /\ replies' = IF IsAnswer(m) THEN Append(replies, m) ELSE replies
    /\ s2c' = Tail(s2c)
    /\ UNCHANGED <<vtestVars, actorVars, asked, ringSlot, reader, batch, diffs,
                   link, c2s, sVars, waits>>

ReaderEnds ==
    /\ reader = "up"
    /\ link = "down"
    /\ s2c = << >>
    /\ reader' = "gone"
    /\ UNCHANGED <<vtestVars, actorVars, asked, pending, cblobs, ringSlot,
                   replies, batch, diffs, linkVars, sVars, waits>>

-----------------------------------------------------------------------------
(* C's watcher, between its diff of a blob and its send.                   *)

WatcherDiffs ==
    /\ batch = 0
    /\ diffs < MaxDiff
    /\ batch' \in DOMAIN cblobs
    /\ diffs' = diffs + 1
    /\ UNCHANGED <<vtestVars, actorVars, asked, pending, cblobs, ringSlot, reader,
                   replies, linkVars, sVars, waits>>

WatcherShips ==
    /\ batch # 0
    /\ batch' = 0
    /\ c2s' = IF link = "up" THEN Append(c2s, [Message("BlobData", 0) EXCEPT !.res = batch])
              ELSE c2s
    /\ UNCHANGED <<vtestVars, actorVars, asked, pending, cblobs, ringSlot, reader,
                   replies, diffs, link, s2c, sVars, waits>>

-----------------------------------------------------------------------------
(* S's message thread.                                                     *)

\* Mutant: only a capset is something C waits for.
OnlyCapsetIsSolicited(m) == m.type = "GetCapset"

MessageIsSolicited(m) == m.type \in {"GetCapset", "CreateBlob"}

Error ==
    [Message("Error", smsg.number) EXCEPT !.solicited = MessageIsSolicited(smsg)]

\* try_apply's engine call, if the message has one now.
EngineCall(m) ==
    CASE m.type = "CreateContext" -> [op |-> "context", ctx |-> Context]
      [] m.type = "GetCapset" -> [op |-> "capset", ctx |-> Context]
      [] m.type = "CreateBlob" -> [op |-> "blob", ctx |-> Context]
      [] m.type = "SubmitCmd" -> [op |-> "submit", ctx |-> Context]
      [] m.type = "UnrefResource" -> [op |-> "unref", res |-> m.res]

\* A message is read, and the lock taken until it is answered.  Hello agrees
\* (both daemons are built with one version); bytes for a blob S does not have
\* are refused, and so is a blob before a context.
Receive ==
    /\ spc = "recv"
    /\ Serve \in held
    /\ c2s # << >>
    /\ c2s' = Tail(c2s)
    /\ smsg' = Head(c2s)
    /\ LET refused == \/ smsg'.type = "BlobData" /\ smsg'.res \notin DOMAIN sblobs
                      \/ smsg'.type = "CreateBlob" /\ ~ sctx
       IN IF refused \/ smsg'.type \in {"Hello", "BlobData"}
          THEN /\ sout' = IF refused THEN Error' ELSE None
               /\ spc' = "send"
               /\ UNCHANGED actorVars
          ELSE /\ Request(Serve, EngineCall(smsg'))
               /\ spc' = "engine"
               /\ UNCHANGED sout
    /\ UNCHANGED <<vtestVars, cVars, link, s2c, applierVars, waits>>

\* What try_apply does with the engine's answer.
Registered(res) ==
    /\ sblobs' = With(sblobs, {res}, smsg.number)
    /\ exported' = exported \cup {res}
    /\ internal' = IF smsg.shape = "application" THEN internal ELSE internal \cup {res}
    /\ rings' = IF smsg.shape = "ring" THEN rings \cup {res} ELSE rings
    /\ sout' = [Message("BlobCreated", smsg.number) EXCEPT !.res = res]
    /\ spc' = "send"
    /\ UNCHANGED <<smsg, sctx>>

Forgotten(res) ==
    /\ sblobs' = Without(sblobs, res)
    /\ exported' = exported \ {res}
    /\ internal' = internal \ {res}
    /\ rings' = rings \ {res}
    /\ sout' = None
    /\ spc' = "send"
    /\ UNCHANGED <<smsg, sctx>>

Answering(m) == sout' = m /\ spc' = "send" /\ UNCHANGED <<smsg, applierVars>>

\* Mutant: the resource that could not be mapped is left in the engine.
RefusedAndKept(res) == Answering(Error)

\* No descriptor came with the resource, or it cannot be mapped: the engine is
\* asked to take the resource back, and C is told after that.
MapFailed(res) ==
    /\ smsg' = [smsg EXCEPT !.res = res]
    /\ spc' = "undo"
    /\ UNCHANGED <<sout, applierVars>>

Applied ==
    /\ spc = "engine"
    /\ answers[Serve] # << >>
    /\ Collect(Serve)
    /\ LET answer == Head(answers[Serve])
       IN IF ~ answer.ok THEN Answering(Error)
          ELSE CASE smsg.type = "CreateContext" ->
                      /\ sctx' = TRUE /\ sout' = None /\ spc' = "send"
                      /\ UNCHANGED <<smsg, sblobs, exported, internal, rings>>
                 [] smsg.type = "GetCapset" ->
                      Answering(Message("Capset", smsg.number))
                 [] smsg.type = "CreateBlob" ->
                      Registered(answer.res) \/ MapFailed(answer.res)
                 [] smsg.type = "SubmitCmd" -> Answering(None)
                 [] smsg.type = "UnrefResource" -> Forgotten(smsg.res)
    /\ UNCHANGED <<vtestVars, cVars, linkVars, waits>>

Undo ==
    /\ spc = "undo"
    /\ Request(Serve, [op |-> "unref", res |-> smsg.res])
    /\ spc' = "undoing"
    /\ UNCHANGED <<vtestVars, cVars, linkVars, smsg, sout, applierVars, waits>>

Undone ==
    /\ spc = "undoing"
    /\ Collect(Serve)
    /\ Answering(Error)
    /\ UNCHANGED <<vtestVars, cVars, linkVars, waits>>

\* The answer, still under the lock.  A send that fails ends serve with an
\* error; main drops its EngineClient on the way out.
SendAnswer ==
    /\ spc = "send"
    /\ IF sout # None /\ link = "down"
       THEN spc' = "over" /\ Leave(Serve) /\ UNCHANGED s2c
       ELSE /\ spc' = "recv"
            /\ s2c' = IF sout = None THEN s2c ELSE Append(s2c, sout)
            /\ UNCHANGED actorVars
    /\ smsg' = None /\ sout' = None
    /\ UNCHANGED <<vtestVars, cVars, link, c2s, applierVars, waits>>

\* The link has ended, which ends the session well: the process exits without
\* tearing its engine down.
ServeEnds ==
    /\ spc = "recv"
    /\ link = "down"
    /\ c2s = << >>
    /\ spc' = "over"
    /\ UNCHANGED <<vtestVars, actorVars, cVars, linkVars, smsg, sout, applierVars,
                   waits>>

-----------------------------------------------------------------------------
(* The rest.                                                               *)

\* QUIC loses its connection, or the other process dies: each side still reads
\* some of what was on the way to it.
LinkFails ==
    /\ link = "up"
    /\ link' = "down"
    /\ \E n \in 0 .. Len(c2s) : c2s' = SubSeq(c2s, 1, n)
    /\ \E n \in 0 .. Len(s2c) : s2c' = SubSeq(s2c, 1, n)
    /\ UNCHANGED <<vtestVars, actorVars, cVars, sVars, waits>>

\* C's main returns when its session is over, and the link goes with it.
CExits ==
    /\ vpc = "over"
    /\ LinkFails

\* A process's engine that failed to start is a session that does not.
NoEngine ==
    /\ actor = "gone"
    /\ LinkFails

Engine == RunActor /\ UNCHANGED <<vtestVars, cVars, linkVars, sVars, waits>>

Virgl == Library /\ UNCHANGED <<vtestVars, cVars, linkVars, sVars, waits>>

\* Whoever waits names a context that exists.
WaiterAsks ==
    /\ waits > 0
    /\ Context \in contexts
    /\ waits' = waits - 1
    /\ \E c \in Clients \ {Serve}, r \in Rings :
         Request(c, [op |-> "wait", ctx |-> Context, ring |-> r])
    /\ UNCHANGED <<vtestVars, cVars, linkVars, sVars>>

WaiterIsAnswered ==
    /\ \E c \in Clients \ {Serve} : Collect(c)
    /\ UNCHANGED <<vtestVars, cVars, linkVars, sVars, waits>>

\* Waiters have no use for an engine nobody feeds.
WaiterLeaves ==
    /\ Serve \notin held
    /\ \E c \in Clients \ {Serve} : Leave(c)
    /\ UNCHANGED <<vtestVars, cVars, linkVars, sVars, waits>>

MesaSteps == Mesa /\ UNCHANGED <<actorVars, cVars, linkVars, sVars, waits>>

ServerSteps == Server /\ UNCHANGED <<actorVars, cVars, linkVars, sVars, waits>>

Init ==
    /\ VtestInit /\ ActorInit
    /\ limit \in 0 .. MaxTurns /\ waits = MaxTurns - limit
    /\ asked = None /\ pending = 0 /\ cblobs = NoEntries /\ ringSlot = 0
    /\ reader = "up" /\ replies = << >> /\ batch = 0 /\ diffs = 0
    /\ link = "up" /\ c2s = << Message("Hello", 0) >> /\ s2c = << >>
    /\ spc = "recv" /\ smsg = None /\ sout = None
    /\ sctx = FALSE /\ sblobs = NoEntries
    /\ exported = {} /\ internal = {} /\ rings = {}

VtestThread ==
    \/ ServerSteps \/ CreateVenusContext \/ Submit \/ Unref \/ VenusCapset
    \/ CreateBlobResource \/ ReceiveAnswer \/ NoAnswer

ReaderThread == Reader \/ ReaderEnds

Watcher == WatcherDiffs \/ WatcherShips

MessageThread ==
    Receive \/ Applied \/ Undo \/ Undone \/ SendAnswer \/ ServeEnds

Waiters == WaiterAsks \/ WaiterIsAnswered \/ WaiterLeaves

Next ==
    \/ MesaSteps \/ VtestThread \/ ReaderThread \/ Watcher
    \/ MessageThread \/ Engine \/ Virgl \/ Waiters
    \/ LinkFails \/ CExits \/ NoEngine

\* Each process runs on, whichever of its threads does.  Mesa reads replies; it
\* need not send anything.
Fairness ==
    /\ WF_vars(VtestThread \/ ReaderThread \/ CExits
                 \/ (ReadReply /\ UNCHANGED <<actorVars, cVars, linkVars, sVars, waits>>))
    /\ WF_vars(MessageThread \/ WaiterIsAnswered \/ NoEngine)
    /\ WF_vars(Engine)

Spec == Init /\ [][Next]_vars /\ Fairness

-----------------------------------------------------------------------------
(* Properties.                                                             *)

TypeOK ==
    /\ VtestTypeOK /\ ActorTypeOK
    /\ asked # None => vpc = "call"
    /\ pending \in 0 .. issued
    /\ reader \in {"up", "gone"} /\ link \in {"up", "down"}
    /\ spc \in {"recv", "engine", "undo", "undoing", "send", "over"}
    /\ (spc \in {"engine", "undoing"}) = (calls[Serve] # NoCall)
    /\ internal \subseteq exported /\ rings \subseteq internal
    /\ ringSlot # 0 => ringSlot \in Nat

\* What RelayEngine takes for the answer to its request is S's answer to that
\* request, and what Mesa takes for the reply to a command is the reply to it,
\* although neither says what it answers and S refuses other messages with the
\* same Error meanwhile.
AnswerIsForTheRequest ==
    /\ Len(replies) <= 1
    /\ replies # << >> => asked # None /\ Head(replies).number = asked.number
    /\ \A i \in DOMAIN outbox :
          i \in DOMAIN awaited /\ outbox[i].number = awaited[i]

\* Resources Mesa has been told of and has not given back.
MesaHas ==
    mapped \cup {outbox[i].value : i \in {j \in DOMAIN outbox :
                                            outbox[j].kind = "ResourceCreateBlob"}}

\* When Mesa has a descriptor, C has the blob behind it in its table, and it is
\* the blob that was made for the same command as S's resource of that id.
OneBlobBehindTheDescriptor ==
    \A r \in MesaHas :
        /\ r \in DOMAIN cblobs /\ r \in DOMAIN sblobs
        /\ cblobs[r] = sblobs[r]

\* The tables agree: between messages S's own name the same resources, and
\* those are the engine's, so that a creation refused half way leaves nothing;
\* and when nothing is on its way the two machines hold the same blobs, Mesa's.
TablesAgree ==
    /\ spc \in {"recv", "send"} =>
         /\ DOMAIN sblobs = exported
         /\ Serve \in held => DOMAIN resources = exported
    /\ link = "up" /\ vpc = "read" /\ inbox = << >> /\ c2s = << >> /\ s2c = << >>
         /\ spc = "recv"
         => DOMAIN cblobs = DOMAIN sblobs /\ DOMAIN cblobs = MesaHas

\* Every reply Mesa waits for comes, or the session ends.  The clock has no
\* part in it: a fence that never retires delays nobody but its waiter, whose
\* call the clock ends.
EveryCallEnds ==
    /\ awaited # << >> ~> awaited = << >> \/ vpc = "over" \/ gone
    /\ WF_vars(Deadline /\ UNCHANGED <<vtestVars, cVars, linkVars, sVars, waits>>)
       => (inflight # NoFence ~> inflight = NoFence)
=============================================================================
