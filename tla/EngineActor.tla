----------------------------- MODULE EngineActor -----------------------------
(***************************************************************************)
(* S's engine: one thread owns virglrenderer, and everyone else sends it   *)
(* commands and blocks for the answer (actor.rs over virgl.rs and ffi.rs). *)
(*                                                                         *)
(* A wait for the GPU must not block the thread: it becomes the one fence  *)
(* in flight, polled between commands, and its caller is answered when it  *)
(* retires or when its deadline passes.  virglrenderer reports retirement  *)
(* on threads of its own, into a table of the highest fence retired on     *)
(* each ring of each context.                                              *)
(*                                                                         *)
(* virglrenderer itself is external: `hosted` is its table of resources,   *)
(* `unsignalled` the fences its GPU has yet to reach, and what it refuses  *)
(* is chosen freely.  A client is a thread with an EngineClient.           *)
(***************************************************************************)
EXTENDS Integers, Sequences

CONSTANTS
    Clients,        \* threads that hold an EngineClient
    Contexts,       \* context ids
    Rings           \* ring_idx within a context

ASSUME EngineAssumption == "none" \notin Clients

VARIABLES
    actor,          \* "starting", "drain", "poll", "gone"
    active,         \* ENGINE_ACTIVE
    held,           \* clients whose Sender is alive
    commands,       \* the command channel: [client, call]
    calls,          \* what each client is blocked on
    answers,        \* each call's reply channel
    inflight,       \* the InFlightFence
    contexts,       \* VirglEngine.contexts
    resources,      \* VirglEngine.resources, each with its context
    nextResource, nextFence,
    highest,        \* FenceState.highest_retired; 0 where there is no entry
    hosted,         \* virglrenderer: the resources it holds
    unsignalled,    \* virglrenderer: fences created and not yet reached
    signalled       \* virglrenderer: fences reached

channelVars == <<held, commands, calls, answers>>
tableVars == <<contexts, resources, nextResource, hosted>>
fenceVars == <<nextFence, highest, unsignalled, signalled>>
actorVars == <<actor, active, channelVars, inflight, tableVars, fenceVars>>

NoCall == [op |-> "none"]
NoFence == [client |-> "none"]

Call ==
    [op : {"context", "submit", "capset", "blob"}, ctx : Contexts]
        \cup [op : {"unref"}, res : Nat]
        \cup [op : {"wait"}, ctx : Contexts, ring : Rings]

Command == [client : Clients, call : Call]

Answer == [ok : BOOLEAN, res : Nat, fence : Nat]

Queue == Contexts \X Rings

Done == [ok |-> TRUE, res |-> 0, fence |-> 0]
Refused == [ok |-> FALSE, res |-> 0, fence |-> 0]

-----------------------------------------------------------------------------
(* spawn_engine.                                                           *)

\* VirglEngine::new on the actor's thread: it claims the process-wide flag,
\* and gives it back when the render node or the library refuses.  No client
\* exists before it has succeeded.
Construct ==
    /\ actor = "starting"
    /\ ~ active
    /\ \/ actor' = "drain" /\ active' = TRUE /\ held' = Clients
       \/ actor' = "gone" /\ active' = FALSE /\ held' = held
    /\ UNCHANGED <<commands, calls, answers, inflight, tableVars, fenceVars>>

-----------------------------------------------------------------------------
(* A client.                                                               *)

\* EngineClient::request: a reply channel of its own, and a blocking recv.
Request(c, call) ==
    /\ c \in held
    /\ calls[c] = NoCall
    /\ calls' = [calls EXCEPT ![c] = call]
    /\ commands' = Append(commands, [client |-> c, call |-> call])
    /\ UNCHANGED <<actor, active, held, answers, inflight, tableVars, fenceVars>>

Collect(c) ==
    /\ calls[c] # NoCall
    /\ answers[c] # << >>
    /\ calls' = [calls EXCEPT ![c] = NoCall]
    /\ answers' = [answers EXCEPT ![c] = << >>]
    /\ UNCHANGED <<actor, active, held, commands, inflight, tableVars, fenceVars>>

\* An idle client is dropped, and its Sender with it.
Leave(c) ==
    /\ c \in held
    /\ calls[c] = NoCall
    /\ held' = held \ {c}
    /\ UNCHANGED <<actor, active, commands, calls, answers, inflight, tableVars,
                   fenceVars>>

-----------------------------------------------------------------------------
(* handle_command.  Each command is taken while the actor drains its       *)
(* channel, fence in flight or not.                                        *)

Caller == Head(commands).client
Called == Head(commands).call

Taken(op) ==
    /\ actor = "drain"
    /\ commands # << >>
    /\ Called.op = op
    /\ commands' = Tail(commands)

Send(c, answer) == answers' = [answers EXCEPT ![c] = Append(@, answer)]

HandleCreateVenusContext ==
    /\ Taken("context")
    /\ \/ contexts' = contexts \cup {Called.ctx} /\ Send(Caller, Done)
       \/ contexts' = contexts /\ Send(Caller, Refused)
    /\ UNCHANGED <<actor, active, held, calls, inflight, resources, nextResource,
                   hosted, fenceVars>>

\* submit and venus_capset change nothing of the engine's.
HandleSubmit ==
    /\ Taken("submit")
    /\ \/ Called.ctx \in contexts /\ Send(Caller, Done)
       \/ Send(Caller, Refused)
    /\ UNCHANGED <<actor, active, held, calls, inflight, tableVars, fenceVars>>

HandleVenusCapset ==
    /\ Taken("capset")
    /\ \E answer \in {Done, Refused} : Send(Caller, answer)
    /\ UNCHANGED <<actor, active, held, calls, inflight, tableVars, fenceVars>>

\* Mutant: the resource that could not be exported stays in the library.
ExportFailedLeaks(r) == hosted' = hosted \cup {r} /\ UNCHANGED resources

\* export_blob_fd failed: the resource is unref'd in the library, and was
\* never tracked.
ExportFailed(r) == hosted' = (hosted \cup {r}) \ {r} /\ UNCHANGED resources

\* create_blob_resource.  An unknown context, an unsupported blob_mem and an id
\* that does not fit are refused before an id is spent.  From then on the id is
\* never used again, whatever the memfd, the library or the export may refuse:
\* no id names two resources.
HandleCreateBlobResource ==
    /\ Taken("blob")
    /\ \/ Send(Caller, Refused) /\ UNCHANGED <<resources, nextResource, hosted>>
       \/ /\ Called.ctx \in contexts
          /\ nextResource' = nextResource + 1
          /\ \/ /\ resources' = [r \in DOMAIN resources \cup {nextResource} |->
                                    IF r = nextResource THEN Called.ctx
                                    ELSE resources[r]]
                /\ hosted' = hosted \cup {nextResource}
                /\ Send(Caller, [Done EXCEPT !.res = nextResource])
             \/ Send(Caller, Refused) /\ UNCHANGED <<resources, hosted>>
             \/ Send(Caller, Refused) /\ ExportFailed(nextResource)
    /\ UNCHANGED <<actor, active, held, calls, inflight, contexts, fenceVars>>

\* An id that is not tracked is not the library's either.
HandleUnrefResource ==
    /\ Taken("unref")
    /\ resources' = [r \in DOMAIN resources \ {Called.res} |-> resources[r]]
    /\ hosted' = IF Called.res \in DOMAIN resources THEN hosted \ {Called.res}
                 ELSE hosted
    /\ Send(Caller, Done)
    /\ UNCHANGED <<actor, active, held, calls, inflight, contexts, nextResource,
                   fenceVars>>

\* Mutant: a second wait takes the place of the one in flight.
AdmitsAny == TRUE

\* One fence at a time: a second wait is refused.
Admits == inflight = NoFence

\* create_fence spends its id whether or not the library takes the fence.
HandleWaitForWorkRetired ==
    /\ Taken("wait")
    /\ IF ~ Admits
       THEN Send(Caller, Refused) /\ UNCHANGED <<inflight, nextFence, unsignalled>>
       ELSE /\ nextFence' = nextFence + 1
            /\ \/ /\ inflight' = [client |-> Caller, ctx |-> Called.ctx,
                                  ring |-> Called.ring, id |-> nextFence,
                                  late |-> FALSE]
                  /\ unsignalled' = [unsignalled EXCEPT
                         ![<<Called.ctx, Called.ring>>] = @ \cup {nextFence}]
                  /\ UNCHANGED answers
               \/ Send(Caller, Refused) /\ UNCHANGED <<inflight, unsignalled>>
    /\ UNCHANGED <<actor, active, held, calls, tableVars, highest, signalled>>

-----------------------------------------------------------------------------
(* run_actor's loop around the commands.                                   *)

\* The channel is empty and a fence is in flight: look at the fence.
Drained ==
    /\ actor = "drain"
    /\ commands = << >>
    /\ held # {}
    /\ inflight # NoFence
    /\ actor' = "poll"
    /\ UNCHANGED <<active, channelVars, inflight, tableVars, fenceVars>>

\* Mutant: any fence of the ring's counts.
SomeRetired(x, r, id) == highest[<<x, r>>] > 0

IsRetired(x, r, id) == highest[<<x, r>>] >= id

\* poll_fence, and then the deadline: a fence found retired is never late.
PollFence ==
    /\ actor = "poll"
    /\ actor' = "drain"
    /\ LET retired == IsRetired(inflight.ctx, inflight.ring, inflight.id)
       IN IF retired \/ inflight.late
          THEN /\ inflight' = NoFence
               /\ Send(inflight.client,
                       IF retired THEN [Done EXCEPT !.fence = inflight.id]
                       ELSE Refused)
          ELSE UNCHANGED <<inflight, answers>>
    /\ UNCHANGED <<active, held, commands, calls, tableVars, fenceVars>>

\* Every client is gone: the actor returns, and VirglEngine is dropped on its
\* own thread, resources before contexts, the flag last.
Teardown ==
    /\ actor = "drain"
    /\ commands = << >>
    /\ held = {}
    /\ actor' = "gone"
    /\ active' = FALSE
    /\ inflight' = NoFence
    /\ resources' = [r \in {} |-> 0]
    /\ hosted' = hosted \ DOMAIN resources
    /\ contexts' = {}
    /\ UNCHANGED <<channelVars, nextResource, fenceVars>>

-----------------------------------------------------------------------------
(* virglrenderer and the clock.                                            *)

\* Fences of one ring are reached in the order they were created.
Signal(q) ==
    /\ \E id \in unsignalled[q] :
         /\ \A other \in unsignalled[q] : id <= other
         /\ unsignalled' = [unsignalled EXCEPT ![q] = @ \ {id}]
         /\ signalled' = [signalled EXCEPT ![q] = @ \cup {id}]
    /\ UNCHANGED <<actor, active, channelVars, inflight, tableVars, nextFence,
                   highest>>

\* write_context_fence, on a thread of the library's, for a fence that was
\* reached: late, out of order, or twice.  record_retired only raises the mark.
WriteContextFence(q) ==
    /\ \E id \in signalled[q] :
         highest' = [highest EXCEPT ![q] = IF id > @ THEN id ELSE @]
    /\ UNCHANGED <<actor, active, channelVars, inflight, tableVars, nextFence,
                   unsignalled, signalled>>

\* FENCE_WAIT_TIMEOUT passes.
Deadline ==
    /\ inflight # NoFence
    /\ ~ inflight.late
    /\ inflight' = [inflight EXCEPT !.late = TRUE]
    /\ UNCHANGED <<actor, active, channelVars, tableVars, fenceVars>>

-----------------------------------------------------------------------------
ActorInit ==
    /\ actor = "starting" /\ active = FALSE /\ held = {}
    /\ commands = << >>
    /\ calls = [c \in Clients |-> NoCall]
    /\ answers = [c \in Clients |-> << >>]
    /\ inflight = NoFence
    /\ contexts = {} /\ resources = [r \in {} |-> 0] /\ hosted = {}
    /\ nextResource = 1 /\ nextFence = 1
    /\ highest = [q \in Queue |-> 0]
    /\ unsignalled = [q \in Queue |-> {}]
    /\ signalled = [q \in Queue |-> {}]

HandleCommand ==
    \/ HandleCreateVenusContext \/ HandleSubmit \/ HandleVenusCapset
    \/ HandleCreateBlobResource \/ HandleUnrefResource
    \/ HandleWaitForWorkRetired

RunActor == Construct \/ HandleCommand \/ Drained \/ PollFence \/ Teardown

Library == (\E q \in Queue : Signal(q) \/ WriteContextFence(q)) \/ Deadline

ActorNext ==
    \/ RunActor \/ Library
    \/ \E c \in Clients :
         \/ \E call \in Call : Request(c, call)
         \/ Collect(c)
         \/ Leave(c)

ActorSpec == ActorInit /\ [][ActorNext]_actorVars

-----------------------------------------------------------------------------
(* Properties.                                                             *)

\* The type of every variable; the flag is up exactly while an engine lives;
\* the engine and the library agree on the resources there are.
ActorTypeOK ==
    /\ actor \in {"starting", "drain", "poll", "gone"}
    /\ active \in BOOLEAN /\ (active <=> actor \in {"drain", "poll"})
    /\ held \subseteq Clients
    /\ commands \in Seq(Command)
    /\ calls \in [Clients -> Call \cup {NoCall}]
    /\ answers \in [Clients -> Seq(Answer)]
    /\ \/ inflight = NoFence
       \/ inflight \in [client : Clients, ctx : Contexts, ring : Rings, id : Nat,
                        late : BOOLEAN]
    /\ contexts \subseteq Contexts
    /\ DOMAIN resources = hosted
    /\ hosted \subseteq 1 .. nextResource - 1
    /\ nextResource \in Nat \ {0} /\ nextFence \in Nat \ {0}
    /\ highest \in [Queue -> Nat]
    /\ unsignalled \in [Queue -> SUBSET (1 .. nextFence - 1)]
    /\ signalled \in [Queue -> SUBSET (1 .. nextFence - 1)]

Queued(c) == {i \in DOMAIN commands : commands[i].client = c}

\* A blocked client is owed exactly one answer, and only a blocked client is:
\* its command is in the channel, once, or its fence is in flight, or its
\* answer is there.  So no answer is lost, not that of a wait that is refused
\* because another is in flight nor of one that times out, and none comes
\* twice.
AnsweredOnce ==
    \A c \in Clients :
        /\ calls[c] = NoCall => /\ Queued(c) = {}
                                /\ inflight.client # c
                                /\ answers[c] = << >>
        /\ calls[c] # NoCall =>
             \/ /\ \E i \in DOMAIN commands : Queued(c) = {i}
                /\ inflight.client # c /\ answers[c] = << >>
             \/ Queued(c) = {} /\ inflight.client = c /\ answers[c] = << >>
             \/ Queued(c) = {} /\ inflight.client # c /\ Len(answers[c]) = 1

\* A wait that was answered Ok is one whose fence its own ring has reached,
\* although another ring's later fence may be long retired and earlier waits
\* may have timed out.
WaitIsTrue ==
    \A c \in Clients :
        calls[c] # NoCall /\ calls[c].op = "wait" /\ answers[c] # << >> =>
            \A i \in DOMAIN answers[c] :
                answers[c][i].ok =>
                    /\ answers[c][i].fence \in 1 .. nextFence - 1
                    /\ answers[c][i].fence \notin
                           unsignalled[<<calls[c].ctx, calls[c].ring>>]
=============================================================================
