------------------------------- MODULE Wayland -------------------------------
(***************************************************************************)
(* The application's window: C's proxy speaks Wayland to the application   *)
(* (wayland_proxy.rs, proxy_link.rs), S replays each request on its own    *)
(* compositor connection (wayland_client.rs), and the compositor's events  *)
(* come back the same way.                                                 *)
(*                                                                         *)
(* Ids are reused.  The proxy's backend lets the application reuse an      *)
(* object's id as soon as the proxy has seen it destroyed, while S and its *)
(* events may be behind; S's connection reuses ids of its own.  The ghost  *)
(* `k` of an object numbers it over the whole session, so that the         *)
(* properties can say which object was meant.                              *)
(*                                                                         *)
(* The two wayland-backend libraries and the compositor are external: they *)
(* hand out ids, refuse a dead object, and send events on live ones.       *)
(* Payloads, versions and events that create objects are left out.         *)
(***************************************************************************)
EXTENDS Integers, Sequences, FiniteSets

CONSTANTS
    Ids,            \* the application's object ids
    SIds,           \* object ids of S's connection
    Resources,      \* resources in C's blob table
    MaxObjects,     \* bound: objects the application creates
    MaxRequests,    \* bound: messages forwarded to S
    MaxEvents       \* bound: events of the compositor

ASSUME WaylandAssumption ==
    /\ Cardinality(Ids) \in Nat /\ Ids = 1 .. Cardinality(Ids)
    /\ MaxObjects \in Nat

VARIABLES
    proxy,          \* the proxy's loop: "poll" or "drain"
    objects,        \* ProxyState.objects: id -> object
    high,           \* the highest id the application has used
    pending,        \* ProxyState.pending: params id -> resource, or 0
    born,           \* ghost: objects created so far
    c2s, sent,      \* the link, and a count
    linked,         \* WaylandReplay.conn is open
    forward,        \* IdMaps.forward: application id -> index in made
    reverse,        \* IdMaps.reverse: S's id -> application id
    made,           \* S's objects, in order of creation
    inserting,      \* send_request has returned and the maps do not know yet
    events, s2c,    \* a count, and the link back
    posting,        \* post: queued, and not yet woken
    inbox, wake,    \* WaylandEventInbox: the channel and the eventfd
    astray          \* ghost: "request", "event": one reached another object

appVars == <<objects, high, pending, born>>
replayVars == <<linked, forward, reverse, made, inserting>>
returnVars == <<posting, inbox, wake>>
vars == <<appVars, proxy, c2s, sent, replayVars, events, s2c, returnVars, astray>>

Globals == {"factory", "dmabuf"}
Kinds == Globals \cup {"surface", "callback", "params", "buffer"}

NoObject == [id |-> 0, k |-> 0, kind |-> "none"]
Object == [id : Ids, k : 1 .. MaxObjects, kind : Kinds]
NoInsert == [id |-> 0, s |-> 0]

Held(kinds) == {objects[id] : id \in {i \in Ids : objects[i].kind \in kinds}}

-----------------------------------------------------------------------------
(* The proxy's dispatch of one request of the application's.               *)

Dispatching ==
    /\ proxy = "poll"
    /\ UNCHANGED <<proxy, replayVars, events, s2c, returnVars, astray>>

\* Every new id of a request is recorded, forwarded or not.
Records(new) ==
    /\ born < MaxObjects
    /\ high' = IF new.id > high THEN new.id ELSE high
    /\ born' = born + 1
    /\ objects' = [objects EXCEPT ![new.id] = new]

\* libwayland hands out an id that was freed, if there is one, and otherwise
\* the next.
FreeIds ==
    LET freed == {id \in 1 .. high : objects[id] = NoObject}
    IN IF freed # {} THEN freed ELSE {high + 1} \cap Ids

New(id, kind) == [id |-> id, k |-> born + 1, kind |-> kind]

\* LinkSink: one framed send on the link every thread shares.
Forward(op, to, new, arg) ==
    /\ sent < MaxRequests
    /\ sent' = sent + 1
    /\ c2s' = Append(c2s, [op |-> op, to |-> to, new |-> new, arg |-> arg])

\* ProxyGlobal::bind.
Bind(id, kind) ==
    /\ Dispatching
    /\ Forward("bind", NoObject, New(id, kind), NoObject)
    /\ Records(New(id, kind))
    /\ UNCHANGED pending

Creates == [factory |-> "surface", surface |-> "callback"]

Create(o, id) ==
    /\ Dispatching
    /\ Records(New(id, Creates[o.kind]))
    /\ Forward("request", o, New(id, Creates[o.kind]), NoObject)
    /\ UNCHANGED pending

\* A request that may name another object, as attach names a buffer.
Use(o, arg) ==
    /\ Dispatching
    /\ Forward("request", o, NoObject, arg)
    /\ UNCHANGED <<objects, high, pending, born>>

\* try_intercept_buffer: the dmabuf requests never cross as they are.
CreateParams(id) ==
    /\ Dispatching
    /\ Records(New(id, "params"))
    /\ pending' = [p \in DOMAIN pending \cup {id} |-> IF p = id THEN 0 ELSE pending[p]]
    /\ UNCHANGED <<c2s, sent>>

\* The fd's inode is looked up in the blob table; it may be nobody's.
AddPlane(o) ==
    /\ Dispatching
    /\ \E r \in Resources \cup {0} :
         pending' = [p \in DOMAIN pending \cup {o.id} |->
                        IF p = o.id THEN r ELSE pending[p]]
    /\ UNCHANGED <<objects, high, born, c2s, sent>>

Unpend(id) == pending' = [p \in DOMAIN pending \ {id} |-> pending[p]]

CreateImmed(o, id) ==
    /\ Dispatching
    /\ Records(New(id, "buffer"))
    /\ Unpend(o.id)
    /\ IF o.id \in DOMAIN pending /\ pending[o.id] # 0
       THEN Forward("token", o, New(id, "buffer"), NoObject)
       ELSE UNCHANGED <<c2s, sent>>

CreateAsync(o) ==
    /\ Dispatching
    /\ Unpend(o.id)
    /\ UNCHANGED <<objects, high, born, c2s, sent>>

\* Mutant: the params' state outlives the params.
ReleaseObject(id) ==
    /\ objects' = [objects EXCEPT ![id] = NoObject]
    /\ UNCHANGED pending

\* ProxyObjectData::destroyed.
Destroyed(id) ==
    /\ objects' = [objects EXCEPT ![id] = NoObject]
    /\ Unpend(id)

\* A destructor is forwarded like any request; then the id is free.
Destroy(o) ==
    /\ Dispatching
    /\ Forward("destroy", o, NoObject, NoObject)
    /\ Destroyed(o.id)
    /\ UNCHANGED <<high, born>>

-----------------------------------------------------------------------------
(* S's message thread.                                                     *)

Alive(s) == made[s].alive

\* Mutant: the map holds the id, not the object.
ToSById(id) ==
    {s \in DOMAIN made : id \in DOMAIN forward /\ made[s].alive
                            /\ made[s].pid = made[forward[id]].pid}

\* IdMaps::to_s.
ToS(id) == {s \in DOMAIN made : id \in DOMAIN forward /\ forward[id] = s}

\* ensure_connected: tried again by each message until it succeeds.
Handling(op) ==
    /\ inserting = NoInsert
    /\ c2s # << >> /\ Head(c2s).op = op
    /\ c2s' = Tail(c2s)
    /\ UNCHANGED <<appVars, proxy, sent, forward, reverse, events, s2c, returnVars>>

Skipped == UNCHANGED <<made, inserting, astray>>

\* What a request meant, beside what it reached.
Reach(pairs) ==
    astray' = IF \A pair \in pairs : pair[1].k = made[pair[2]].k THEN astray
              ELSE astray \cup {"request"}

NoConnection(op) ==
    /\ Handling(op)
    /\ ~ linked
    /\ Skipped
    /\ UNCHANGED linked

\* S's backend makes the new object: its id is one that no live object has.
Makes(new) ==
    \E pid \in {p \in SIds : \A s \in DOMAIN made : Alive(s) => made[s].pid # p} :
        /\ made' = Append(made, [pid |-> pid, alive |-> TRUE, k |-> new.k,
                                 kind |-> new.kind])
        /\ inserting' = [id |-> new.id, s |-> Len(made) + 1]

\* handle_bind; the compositor may not have the global.
HandleBind ==
    \/ NoConnection("bind")
    \/ /\ Handling("bind")
       /\ linked' = TRUE
       /\ \/ Makes(Head(c2s).new)
          \/ UNCHANGED <<made, inserting>>
       /\ UNCHANGED astray

\* handle_request.  A request on an object the maps do not know is skipped, an
\* argument they do not know is null, and the backend refuses a dead object.
\* A creation may be refused for its interface too.
HandleRequest ==
    \/ NoConnection("request")
    \/ /\ Handling("request")
       /\ linked' = TRUE
       /\ LET m == Head(c2s)
              sender == ToS(m.to.id)
              arg == ToS(m.arg.id)
          IN IF sender # {} /\ \A s \in sender \cup arg : Alive(s)
             THEN /\ Reach({<<m.to, s>> : s \in sender} \cup {<<m.arg, s>> : s \in arg})
                  /\ IF m.new = NoObject THEN UNCHANGED <<made, inserting>>
                     ELSE Makes(m.new) \/ UNCHANGED <<made, inserting>>
             ELSE Skipped

\* A destructor: the object is dead to S's connection at once.
HandleDestroy ==
    \/ NoConnection("destroy")
    \/ /\ Handling("destroy")
       /\ linked' = TRUE
       /\ UNCHANGED inserting
       /\ LET m == Head(c2s)
              sender == ToS(m.to.id)
          IN IF sender # {} /\ \A s \in sender : Alive(s)
             THEN /\ Reach({<<m.to, s>> : s \in sender})
                  /\ made' = [s \in DOMAIN made |->
                                IF s \in sender THEN [made[s] EXCEPT !.alive = FALSE]
                                ELSE made[s]]
             ELSE UNCHANGED <<made, astray>>

\* A buffer token is not resolved yet: the request is skipped.
HandleToken ==
    \/ NoConnection("token")
    \/ Handling("token") /\ linked' = TRUE /\ Skipped

\* Mutant: an id that is known keeps its meaning.
KeepKnown(id, s) ==
    /\ forward' = [i \in DOMAIN forward \cup {id} |-> IF i = id THEN s ELSE forward[i]]
    /\ reverse' = [p \in DOMAIN reverse \cup {made[s].pid} |->
                     IF p \in DOMAIN reverse THEN reverse[p] ELSE id]

\* IdMaps::insert.
Map(id, s) ==
    /\ forward' = [i \in DOMAIN forward \cup {id} |-> IF i = id THEN s ELSE forward[i]]
    /\ reverse' = [p \in DOMAIN reverse \cup {made[s].pid} |->
                     IF p = made[s].pid THEN id ELSE reverse[p]]

\* The lock on the maps is taken after send_request has returned.
Insert ==
    /\ inserting # NoInsert
    /\ Map(inserting.id, inserting.s)
    /\ inserting' = NoInsert
    /\ UNCHANGED <<appVars, proxy, c2s, sent, linked, made, events, s2c,
                   returnVars, astray>>

-----------------------------------------------------------------------------
(* The way back.                                                           *)

\* compositor_reader: the compositor sends an event on a live object, and
\* translate_and_emit names it by the application's id, if the maps have one.
\* A callback's event is its last.
ReadEvent(s) ==
    /\ linked /\ Alive(s)
    /\ events < MaxEvents
    /\ events' = events + 1
    /\ made' = [made EXCEPT ![s].alive = (made[s].kind # "callback")]
    /\ s2c' = IF made[s].pid \in DOMAIN reverse
              THEN Append(s2c, [id |-> reverse[made[s].pid], k |-> made[s].k,
                                kind |-> made[s].kind])
              ELSE s2c
    /\ UNCHANGED <<appVars, proxy, c2s, sent, linked, forward, reverse, inserting,
                   returnVars, astray>>

\* WaylandEventPoster::post, on C's reader thread: queue first, then wake.
PostQueues ==
    /\ s2c # << >> /\ ~ posting
    /\ posting' = TRUE
    /\ inbox' = Append(inbox, Head(s2c))
    /\ s2c' = Tail(s2c)
    /\ UNCHANGED <<appVars, proxy, c2s, sent, replayVars, events, wake, astray>>

PostWakes ==
    /\ posting
    /\ posting' = FALSE
    /\ wake' = TRUE
    /\ UNCHANGED <<appVars, proxy, c2s, sent, replayVars, events, s2c, inbox, astray>>

\* drain_events resets the eventfd before it looks at the channel.
StartDrain ==
    /\ proxy = "poll" /\ wake
    /\ proxy' = "drain"
    /\ wake' = FALSE
    /\ UNCHANGED <<appVars, c2s, sent, replayVars, events, s2c, posting, inbox, astray>>

\* Mutant: one event for each wake-up.
OneEach == "poll"

\* The channel is drained until it is empty.
AfterEvent == "drain"

\* deliver_event: an event for an id that is not held is dropped.  A
\* callback's event destroys it.
DeliverEvent ==
    /\ proxy = "drain" /\ inbox # << >>
    /\ inbox' = Tail(inbox)
    /\ proxy' = AfterEvent
    /\ LET m == Head(inbox)
           o == objects[m.id]
       IN /\ astray' = IF o.k \in {0, m.k} THEN astray ELSE astray \cup {"event"}
          /\ IF o.kind = "callback" /\ m.kind = "callback"
             THEN Destroyed(o.id)
             ELSE UNCHANGED <<objects, pending>>
    /\ UNCHANGED <<high, born, c2s, sent, replayVars, events, s2c, posting, wake>>

EndDrain ==
    /\ proxy = "drain" /\ inbox = << >>
    /\ proxy' = "poll"
    /\ UNCHANGED <<appVars, c2s, sent, replayVars, events, s2c, returnVars, astray>>

-----------------------------------------------------------------------------
Init ==
    /\ proxy = "poll" /\ born = 0 /\ high = 0
    /\ objects = [id \in Ids |-> NoObject]
    /\ pending = [p \in {} |-> 0]
    /\ c2s = << >> /\ sent = 0
    /\ linked = FALSE /\ made = << >> /\ inserting = NoInsert
    /\ forward = [i \in {} |-> 0] /\ reverse = [p \in {} |-> 0]
    /\ events = 0 /\ s2c = << >>
    /\ posting = FALSE /\ inbox = << >> /\ wake = FALSE
    /\ astray = {}

Request ==
    \/ \E id \in FreeIds :
         \/ \E kind \in Globals : Bind(id, kind)
         \/ \E o \in Held({"factory", "surface"}) : Create(o, id)
         \/ Held({"dmabuf"}) # {} /\ CreateParams(id)
         \/ \E o \in Held({"params"}) : CreateImmed(o, id)
    \/ \E o \in Held({"params"}) : AddPlane(o) \/ CreateAsync(o)
    \/ \E o \in Held({"surface"}) :
         \E arg \in Held({"buffer", "surface"}) \cup {NoObject} : Use(o, arg)
    \/ \E o \in Held(Kinds \ {"callback"}) : Destroy(o)

Drain == StartDrain \/ DeliverEvent \/ EndDrain

Replay == HandleBind \/ HandleRequest \/ HandleDestroy \/ HandleToken \/ Insert

CompositorReader == \E s \in DOMAIN made : ReadEvent(s)

Post == PostQueues \/ PostWakes

Next == Request \/ Drain \/ Replay \/ CompositorReader \/ Post

\* The threads run; the application and the compositor may stay silent.
Fairness == WF_vars(Drain) /\ WF_vars(Replay) /\ WF_vars(Post)

Spec == Init /\ [][Next]_vars /\ Fairness

-----------------------------------------------------------------------------
(* Properties.                                                             *)

\* The type of every variable; the buffer state kept for a params object does
\* not outlive it.
TypeOK ==
    /\ high \in Ids \cup {0} /\ astray \subseteq {"request", "event"}
    /\ proxy \in {"poll", "drain"}
    /\ objects \in [Ids -> Object \cup {NoObject}]
    /\ \A id \in DOMAIN pending : objects[id].kind = "params"
    /\ \A id \in DOMAIN pending : pending[id] \in Resources \cup {0}
    /\ \A m \in {c2s[i] : i \in DOMAIN c2s} :
         /\ m.op \in {"bind", "request", "destroy", "token"}
         /\ {m.to, m.new, m.arg} \subseteq Object \cup {NoObject}
    /\ made \in Seq([pid : SIds, alive : BOOLEAN, k : 1 .. MaxObjects, kind : Kinds])
    /\ DOMAIN forward \subseteq Ids /\ DOMAIN reverse \subseteq SIds
    /\ {forward[i] : i \in DOMAIN forward} \subseteq DOMAIN made
    /\ {reverse[p] : p \in DOMAIN reverse} \subseteq Ids
    /\ inserting = NoInsert \/ inserting \in [id : Ids, s : DOMAIN made]
    /\ {linked, posting, wake} \subseteq BOOLEAN

\* A request is replayed on the object the application meant, and names the
\* object it meant, although ids are reused on both sides, some objects are
\* never replayed, and the maps are never pruned.  The exception is an event
\* that went astray before it: one that ends another callback than its own
\* frees, on C, an id that still has a meaning on S.
RequestsReachTheirObject == "event" \in astray \/ "request" \notin astray

\* The two maps do not drift: an application id whose S object is alive is
\* what that object's events are named by.
MapsNeverDrift ==
    \A id \in DOMAIN forward :
        Alive(forward[id]) =>
            /\ made[forward[id]].pid \in DOMAIN reverse
            /\ reverse[made[forward[id]].pid] = id

\* No event sleeps: what reaches C is delivered or dropped, although the
\* proxy sleeps in poll and is woken once for several events.
NoEventSleeps == s2c # << >> \/ inbox # << >> ~> s2c = << >> /\ inbox = << >>

\* An event is delivered to the object the compositor sent it on, or dropped.
EventsReachTheirObject == "event" \notin astray
=============================================================================
