----------------------------- MODULE VtestServer -----------------------------
(***************************************************************************)
(* C's half of the vtest protocol (rayland-vtest): Mesa's Venus driver on  *)
(* one end of a Unix socket, and serve_vtest on the other, which answers   *)
(* what it can and calls a RenderEngine for the rest.                      *)
(*                                                                         *)
(* The engine is whoever composes this module: BeginCall is the server's   *)
(* call of it and FinishCall its return.  Commands are whole: framing (two *)
(* header words, a payload length that each command checks) is left out,   *)
(* but a client may die in the middle of one.  Mesa is external.           *)
(***************************************************************************)
EXTENDS Integers, Sequences

CONSTANT
    MaxValue        \* bound: timeline values

ASSUME VtestAssumption == MaxValue \in Nat \ {0}

VARIABLES
    \* Mesa
    limit,          \* bound: commands Mesa sends after its handshake
    issued,         \* commands sent so far: a command's number is its name
    awaited,        \* commands whose replies Mesa has still to read, in order
    mapped,         \* resources whose descriptor Mesa has
    read,           \* the reply Mesa read last
    gone,           \* Mesa has closed the socket
    \* the socket
    inbox,          \* commands
    outbox,         \* replies
    \* serve_vtest
    vpc,            \* "read", "call", "over"
    serving,        \* the command being dispatched
    syncs, nextSync,
    outcome         \* VtestOutcome, and whether the session ended well

mesaVars == <<limit, issued, awaited, mapped, read, gone>>
serverVars == <<vpc, serving, syncs, nextSync, outcome>>
vtestVars == <<mesaVars, inbox, outbox, serverVars>>

\* A command, and what each kind of command adds to it.
Nothing ==
    [kind |-> "none", number |-> 0, res |-> 0, shape |-> "none", batches |-> 0,
     signals |-> {}, sync |-> 0, value |-> 0]

VtestCommand(kind) == [Nothing EXCEPT !.kind = kind, !.number = issued + 1]

\* Tables are partial functions.
NoEntries == [key \in {} |-> 0]

With(table, keys, value) ==
    [k \in DOMAIN table \cup keys |-> IF k \in keys THEN value ELSE table[k]]

Without(table, key) == [k \in DOMAIN table \ {key} |-> table[k]]

\* What Mesa sends before anything else, one command after the reply to the
\* one before.  A server too old to know Ping answers the busy-wait behind it,
\* so those two go out together.
Handshake ==
    << "CreateRenderer", "PingProtocolVersion", "ResourceBusyWait",
       "ProtocolVersion", "GetParam", "GetCapset", "ContextInit" >>

\* Commands that have a reply; the last two are followed by a descriptor.
Replying ==
    {"PingProtocolVersion", "ResourceBusyWait", "ProtocolVersion", "GetParam",
     "GetCapset", "SyncCreate", "SyncRead", "SyncWait", "ResourceCreateBlob"}

\* Commands that call the RenderEngine.
Calling ==
    {"GetCapset", "ContextInit", "ResourceCreateBlob", "ResourceUnref",
     "SubmitCmd2"}

Reply(cmd, ok, value) ==
    [number |-> cmd.number, kind |-> cmd.kind, ok |-> ok, value |-> value]

NoReply == Reply(Nothing, FALSE, 0)

-----------------------------------------------------------------------------
(* Mesa, on its one thread's worth of vtest: it holds a lock from a command*)
(* to its reply.                                                           *)

Say(cmd) ==
    /\ ~ gone
    /\ issued' = issued + 1
    /\ inbox' = Append(inbox, cmd)
    /\ awaited' = IF cmd.kind \in Replying THEN Append(awaited, cmd.number)
                  ELSE awaited

Greet ==
    /\ issued < Len(Handshake)
    /\ LET kind == Handshake[issued + 1]
       IN /\ awaited = << >> \/ kind = "ResourceBusyWait"
          /\ Say(VtestCommand(kind))
    /\ UNCHANGED <<limit, mapped, read, gone, outbox, serverVars>>

Ready ==
    /\ issued >= Len(Handshake)
    /\ issued < Len(Handshake) + limit
    /\ awaited = << >>

\* `shape` says how Mesa means the blob: one of Venus's own shmems (blob_id
\* 0), the one among them that is shaped like the command ring, or memory of
\* the application's.
AskBlob ==
    /\ Ready
    /\ \E shape \in {"ring", "internal", "application"} :
         Say([VtestCommand("ResourceCreateBlob") EXCEPT !.shape = shape])
    /\ UNCHANGED <<limit, mapped, read, gone, outbox, serverVars>>

AskUnref ==
    /\ Ready
    /\ \E r \in mapped :
         /\ Say([VtestCommand("ResourceUnref") EXCEPT !.res = r])
         /\ mapped' = mapped \ {r}
    /\ UNCHANGED <<limit, read, gone, outbox, serverVars>>

\* A submission is one or two batches, and signals a timeline it knows.
AskSubmit ==
    /\ Ready
    /\ \E batches \in 1 .. 2, signals \in SUBSET (DOMAIN syncs) :
         Say([VtestCommand("SubmitCmd2") EXCEPT !.batches = batches,
                                                !.signals = signals])
    /\ UNCHANGED <<limit, mapped, read, gone, outbox, serverVars>>

AskSync ==
    /\ Ready
    /\ \/ DOMAIN syncs = {} /\ Say(VtestCommand("SyncCreate"))
       \/ \E sync \in DOMAIN syncs :
            \/ \E kind \in {"SyncRead", "SyncUnref"} :
                 Say([VtestCommand(kind) EXCEPT !.sync = sync])
            \/ \E kind \in {"SyncWrite", "SyncWait"}, value \in 1 .. MaxValue :
                 Say([VtestCommand(kind) EXCEPT !.sync = sync, !.value = value])
    /\ UNCHANGED <<limit, mapped, read, gone, outbox, serverVars>>

\* Mesa takes what it reads for the reply to the oldest command it awaits.
\* Without a capset it gives up its device.
ReadReply ==
    /\ outbox # << >>
    /\ awaited # << >>
    /\ read' = Head(outbox)
    /\ outbox' = Tail(outbox)
    /\ awaited' = Tail(awaited)
    /\ mapped' = IF read'.kind = "ResourceCreateBlob" THEN mapped \cup {read'.value}
                 ELSE mapped
    /\ gone' = (gone \/ (read'.kind = "GetCapset" /\ ~ read'.ok))
    /\ UNCHANGED <<limit, issued, inbox, serverVars>>

\* The application exits, perhaps in the middle of a command.
Exit ==
    /\ ~ gone
    /\ gone' = TRUE
    /\ inbox' \in {inbox} \cup
                  (IF issued < Len(Handshake) THEN {Append(inbox, VtestCommand("half"))}
                   ELSE {})
    /\ UNCHANGED <<limit, issued, awaited, mapped, read, outbox, serverVars>>

-----------------------------------------------------------------------------
(* serve_vtest.                                                            *)

\* An error of any kind ends the session.
Fail ==
    /\ vpc' = "over"
    /\ outcome' = [outcome EXCEPT !.ended = "error"]

\* write_reply, then send_fd: a client that has gone is an error.
Write(reply) ==
    IF gone
    THEN Fail /\ UNCHANGED outbox
    ELSE vpc' = "read" /\ outbox' = Append(outbox, reply) /\ UNCHANGED outcome

Incoming == Head(inbox)

\* Waits are stubs: the timeline is set to the value waited for, and the
\* descriptor is signalled already.
Waited(cmd) == With(syncs, {cmd.sync}, cmd.value)

\* The timelines after a command that dispatch answers itself.
Synced(cmd) ==
    CASE cmd.kind = "SyncCreate" -> With(syncs, {nextSync}, 0)
      [] cmd.kind = "SyncUnref" -> Without(syncs, cmd.sync)
      [] cmd.kind = "SyncWrite" -> With(syncs, {cmd.sync}, cmd.value)
      [] cmd.kind = "SyncWait" -> Waited(cmd)
      [] OTHER -> syncs

\* A timeline that is not there reads as 0.
ReplyValue(cmd) ==
    CASE cmd.kind = "SyncCreate" -> nextSync
      [] cmd.kind = "SyncRead" /\ cmd.sync \in DOMAIN syncs -> syncs[cmd.sync]
      [] OTHER -> 0

\* read_command at a boundary, and the commands dispatch answers itself.
ServeLocal ==
    /\ vpc = "read"
    /\ inbox # << >>
    /\ Incoming.kind \notin Calling \cup {"half"}
    /\ inbox' = Tail(inbox)
    /\ syncs' = Synced(Incoming)
    /\ nextSync' = IF Incoming.kind = "SyncCreate" THEN nextSync + 1 ELSE nextSync
    /\ IF Incoming.kind \in Replying
       THEN Write(Reply(Incoming, TRUE, ReplyValue(Incoming)))
       ELSE vpc' = "read" /\ UNCHANGED <<outbox, outcome>>
    /\ UNCHANGED <<mesaVars, serving>>

\* The command is handed to the engine; a submission a batch at a time.
BeginCall ==
    /\ vpc = "read"
    /\ inbox # << >>
    /\ Incoming.kind \in Calling
    /\ inbox' = Tail(inbox)
    /\ serving' = Incoming
    /\ vpc' = "call"
    /\ UNCHANGED <<mesaVars, outbox, syncs, nextSync, outcome>>

\* The engine returns.  Only a capset may fail and leave the session alive.
FinishCapset(ok) ==
    /\ serving.kind = "GetCapset"
    /\ Write(Reply(serving, ok, 0))
    /\ serving' = Nothing
    /\ UNCHANGED syncs

FinishContext(ok) ==
    /\ serving.kind = "ContextInit"
    /\ IF ok THEN vpc' = "read" /\ outcome' = [outcome EXCEPT !.context = TRUE]
       ELSE Fail
    /\ serving' = Nothing
    /\ UNCHANGED <<outbox, syncs>>

FinishBlob(ok, res) ==
    /\ serving.kind = "ResourceCreateBlob"
    /\ IF ok THEN Write(Reply(serving, TRUE, res)) ELSE Fail /\ UNCHANGED outbox
    /\ serving' = Nothing
    /\ UNCHANGED syncs

FinishUnref ==
    /\ serving.kind = "ResourceUnref"
    /\ vpc' = "read"
    /\ serving' = Nothing
    /\ UNCHANGED <<outbox, syncs, outcome>>

\* A batch that failed ends the session, whatever batches went before it.
FinishBatch(ok) ==
    /\ serving.kind = "SubmitCmd2"
    /\ IF ok
       THEN /\ syncs' = With(syncs, serving.signals, MaxValue)
            /\ vpc' = IF serving.batches = 1 THEN "read" ELSE "call"
            /\ serving' = IF serving.batches = 1 THEN Nothing
                          ELSE [serving EXCEPT !.batches = 1]
            /\ outcome' = [outcome EXCEPT !.batches = @ + 1]
       ELSE Fail /\ serving' = Nothing /\ UNCHANGED syncs
    /\ UNCHANGED outbox

FinishCall(ok, res) ==
    /\ vpc = "call"
    /\ \/ FinishCapset(ok) \/ FinishContext(ok) \/ FinishBlob(ok, res)
       \/ FinishUnref \/ FinishBatch(ok)
    /\ UNCHANGED <<mesaVars, inbox, nextSync>>

\* The client has closed the socket and everything it sent has been served:
\* a clean end at a boundary, an error inside a command.
EndOfStream ==
    /\ vpc = "read"
    /\ gone
    /\ \/ inbox = << >>
          /\ outcome' = [outcome EXCEPT !.ended = "clean"]
       \/ inbox # << >> /\ Incoming.kind = "half"
          /\ outcome' = [outcome EXCEPT !.ended = "error"]
    /\ vpc' = "over"
    /\ UNCHANGED <<mesaVars, inbox, outbox, serving, syncs, nextSync>>

-----------------------------------------------------------------------------
VtestInit ==
    /\ issued = 0 /\ awaited = << >> /\ mapped = {} /\ read = NoReply
    /\ gone = FALSE
    /\ inbox = << >> /\ outbox = << >>
    /\ vpc = "read" /\ serving = Nothing
    /\ syncs = NoEntries /\ nextSync = 1
    /\ outcome = [context |-> FALSE, batches |-> 0, ended |-> "no"]

Mesa ==
    Greet \/ AskBlob \/ AskUnref \/ AskSubmit \/ AskSync \/ ReadReply \/ Exit

Server == ServeLocal \/ BeginCall \/ EndOfStream

-----------------------------------------------------------------------------
(* Properties.                                                             *)

VtestTypeOK ==
    /\ issued \in 0 .. Len(Handshake) + limit
    /\ awaited \in Seq(1 .. issued)
    /\ vpc \in {"read", "call", "over"}
    /\ (vpc = "call") = (serving # Nothing)
    /\ outcome.ended \in {"no", "clean", "error"}
    /\ (vpc = "over") = (outcome.ended # "no")
=============================================================================
