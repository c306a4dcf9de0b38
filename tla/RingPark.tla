------------------------------ MODULE RingPark ------------------------------
(***************************************************************************)
(* The ring's status word on machine C, and the watcher's nap.             *)
(*                                                                         *)
(* The word has two bits in use.  IDLE: the consumer is parked, ring the   *)
(* doorbell.  ALIVE: the consumer has shown that the ring moves; Mesa      *)
(* clears it when it starts a wait and aborts the application when, a      *)
(* warning period later, it is still clear.  The watcher reads, changes    *)
(* and writes the word with plain loads and stores; Mesa's accesses are    *)
(* atomic.                                                                 *)
(*                                                                         *)
(* Publishing IDLE and reading tail again, against Mesa's storing tail and *)
(* reading status, is Dekker's algorithm.  The two cases of `tso` are the  *)
(* two things C's plain store can do: reach memory before the load that    *)
(* follows it, or wait in the processor's store buffer until the blob      *)
(* lock is released (x86-64; the unlock is a locked instruction).          *)
(*                                                                         *)
(* The relay itself is RelayRing.  Here note_relayed and the sending that  *)
(* follows it are one step, and S acknowledges what it likes of what was   *)
(* relayed.                                                                *)
(***************************************************************************)
EXTENDS Integers, Sequences

CONSTANT MaxCmd     \* bound: commands the application rings in

ASSUME ParkAssumption == MaxCmd \in Nat

VARIABLES
    tso,        \* the store of IDLE may be buffered
    \* the ring's shared words
    tail, head, status,
    \* Mesa
    mpc,        \* "run", "check" (tail stored, status not yet loaded), "aborted"
    throttled,  \* a doorbell rang within the last millisecond
    waiting,    \* in vn_relax, waiting for head to reach tail
    rung,       \* a doorbell rang since the watcher last fell asleep
    \* the ring watcher
    wpc,
    lastTail,   \* RingWatcher.last_tail
    relayed,    \* Progress.relayed_tail
    published,  \* published_head
    idle,       \* idle_published
    reg,        \* the status the read-modify-write under way has loaded
    buffer,     \* the store of IDLE, while it is not in memory
    \* Progress, written by the reader thread
    consumed,
    \* ghosts
    sawIdle,    \* Mesa's last look at the status word found IDLE
    moved       \* head advanced since Mesa last cleared ALIVE

words == <<tail, head, status>>
mesaVars == <<mpc, throttled, waiting, rung, sawIdle>>
vars == <<tso, words, mesaVars, wpc, lastTail, relayed, published, idle, reg,
          buffer, consumed, moved>>

Bits == {"IDLE", "ALIVE"}

-----------------------------------------------------------------------------
(* Mesa, as ring.rs quotes it.                                             *)

\* vn_ring_submit_internal: the tail, sequentially consistent ...
StoreTail ==
    /\ mpc = "run" /\ ~waiting
    /\ tail < MaxCmd
    /\ tail' = tail + 1
    /\ mpc' = "check"
    /\ UNCHANGED <<tso, head, status, throttled, waiting, rung, sawIdle, wpc,
                   lastTail, published, idle, reg, buffer, relayed, consumed, moved>>

\* ... then the status: a doorbell if IDLE is set and the last one was more
\* than a millisecond ago.
CheckStatus ==
    /\ mpc = "check"
    /\ sawIdle' = ("IDLE" \in status)
    /\ IF sawIdle' /\ ~throttled
       THEN rung' = TRUE /\ throttled' = TRUE
       ELSE UNCHANGED <<rung, throttled>>
    /\ mpc' = "run"
    /\ UNCHANGED <<tso, words, waiting, wpc, lastTail, published, idle, reg,
                   buffer, relayed, consumed, moved>>

MillisecondPasses ==
    /\ throttled
    /\ throttled' = FALSE
    /\ UNCHANGED <<tso, words, mpc, waiting, rung, sawIdle, wpc, lastTail,
                   published, idle, reg, buffer, relayed, consumed, moved>>

\* ALIVE cleared, atomically: what was moved so far no longer counts.
ClearAlive ==
    /\ status' = status \ {"ALIVE"}
    /\ moved' = FALSE

\* vn_relax_init, at the start of a synchronous call's wait.
WaitBegins ==
    /\ mpc = "run" /\ ~waiting
    /\ head # tail
    /\ waiting' = TRUE
    /\ ClearAlive
    /\ UNCHANGED <<tso, tail, head, mpc, throttled, rung, sawIdle, wpc, lastTail,
                   published, idle, reg, buffer, relayed, consumed>>

WaitEnds ==
    /\ waiting /\ mpc = "run"
    /\ head = tail
    /\ waiting' = FALSE
    /\ UNCHANGED <<tso, words, mpc, throttled, rung, sawIdle, wpc, lastTail,
                   published, idle, reg, buffer, relayed, consumed, moved>>

\* vn_relax's warning threshold: abort, or another period.
Warning ==
    /\ waiting /\ mpc = "run"
    /\ head # tail
    /\ IF "ALIVE" \in status
       THEN ClearAlive /\ UNCHANGED mpc
       ELSE mpc' = "aborted" /\ UNCHANGED <<status, moved>>
    /\ UNCHANGED <<tso, tail, head, throttled, waiting, rung, sawIdle, wpc,
                   lastTail, published, idle, reg, buffer, relayed, consumed>>

-----------------------------------------------------------------------------
(* The reader thread: an acknowledgement of something relayed.             *)

Acknowledge ==
    /\ \E t \in consumed + 1 .. relayed : consumed' = t
    /\ UNCHANGED <<tso, words, mesaVars, wpc, lastTail, relayed, published, idle,
                   reg, buffer, moved>>

-----------------------------------------------------------------------------
(* The ring watcher's loop.  Each update of the status word is two steps:  *)
(* Mesa may clear ALIVE between them.                                      *)

\* The word as the watcher's own loads see it.
Visible == IF buffer = << >> THEN status ELSE buffer[1]

Load(from, to) ==
    /\ wpc = from
    /\ reg' = Visible
    /\ wpc' = to
    /\ UNCHANGED <<tso, words, mesaVars, lastTail, published, idle, buffer,
                   relayed, consumed, moved>>

Store(from, value, to) ==
    /\ wpc = from
    /\ status' = value
    /\ buffer' = << >>
    /\ wpc' = to
    /\ UNCHANGED <<tso, tail, head, mesaVars, lastTail, published, reg, relayed, consumed>>

\* take_delta; if it found something and IDLE stands published, retract it.
Take ==
    /\ wpc = "take"
    /\ IF tail # lastTail
       THEN /\ lastTail' = tail
            /\ wpc' = IF idle THEN "clear" ELSE "ship"
       ELSE wpc' = "publish" /\ UNCHANGED lastTail
    /\ UNCHANGED <<tso, words, mesaVars, published, idle, reg, buffer, relayed, consumed,
                   moved>>

\* clear_idle.
ClearIdle ==
    \/ Load("clear", "clearStore")
    \/ Store("clearStore", reg \ {"IDLE"}, "ship") /\ idle' = FALSE
         /\ UNCHANGED moved

\* note_relayed, and the delta leaves; look again at once.  An acknowledgement
\* may come before the sending ends: here, before the watcher's next step.
Ship ==
    /\ wpc = "ship"
    /\ relayed' = lastTail
    /\ wpc' = "take"
    /\ UNCHANGED <<tso, words, mesaVars, lastTail, published, idle, reg, buffer,
                   consumed, moved>>

\* Mutant: publishes what was drained, acknowledged or not.
PublishDrained ==
    /\ wpc = "publish"
    /\ head' = lastTail /\ published' = lastTail /\ wpc' = "alive"
    /\ moved' = (moved \/ lastTail # published)
    /\ UNCHANGED <<tso, tail, status, mesaVars, lastTail, idle, reg, buffer,
                   relayed, consumed>>

\* advance_head, and set_alive after it, if the acknowledgement moved.
Publish ==
    /\ wpc = "publish"
    /\ IF consumed # published
       THEN /\ head' = consumed /\ published' = consumed /\ moved' = TRUE
            /\ wpc' = "alive"
       ELSE wpc' = "announce" /\ UNCHANGED <<head, published, moved>>
    /\ UNCHANGED <<tso, tail, status, mesaVars, lastTail, idle, reg, buffer,
                   relayed, consumed>>

\* set_alive.
SetAlive ==
    \/ Load("alive", "aliveStore")
    \/ Store("aliveStore", reg \cup {"ALIVE"}, "announce")
         /\ UNCHANGED <<idle, moved>>

\* Mutant: the word is assigned rather than OR'ed into.
Assigned == {"IDLE"}

\* What publish_idle writes.
Announced == reg \cup {"IDLE"}

\* publish_idle.
PublishIdle ==
    \/ Load("announce", "idleStore")
    \/ /\ wpc = "idleStore"
       /\ IF tso THEN buffer' = << Announced >> /\ UNCHANGED status
                 ELSE status' = Announced /\ UNCHANGED buffer
       /\ wpc' = "decide"
       /\ UNCHANGED <<tso, tail, head, mesaVars, lastTail, published, idle, reg,
                      relayed, consumed, moved>>

StoreDrains ==
    /\ buffer # << >>
    /\ status' = buffer[1]
    /\ buffer' = << >>
    /\ UNCHANGED <<tso, tail, head, mesaVars, wpc, lastTail, published, idle, reg,
                   relayed, consumed, moved>>

\* Mutant: compares with the tail as it was when IDLE was published, which is
\* to say that nothing it sees is new.
ParkUnchecked ==
    /\ wpc = "decide"
    /\ wpc' = "park"
    /\ UNCHANGED <<tso, words, mesaVars, lastTail, published, idle, reg, buffer,
                   relayed, consumed, moved>>

\* decide_park reads the tail again.
DecidePark ==
    /\ wpc = "decide"
    /\ wpc' = IF tail = lastTail THEN "park" ELSE "back"
    /\ UNCHANGED <<tso, words, mesaVars, lastTail, published, idle, reg, buffer,
                   relayed, consumed, moved>>

\* ParkDecision::Park: the lock is released, and the nap begins.
FallAsleep ==
    /\ wpc = "park"
    /\ buffer = << >>
    /\ idle' = TRUE
    /\ rung' = FALSE
    /\ wpc' = "sleep"
    /\ UNCHANGED <<tso, words, mpc, throttled, waiting, sawIdle, lastTail,
                   published, reg, buffer, relayed, consumed, moved>>

\* ParkDecision::StayAwake: clear_idle, and round again.
StayAwake ==
    \/ Load("back", "backStore")
    \/ Store("backStore", reg \ {"IDLE"}, "take") /\ idle' = FALSE
         /\ UNCHANGED moved

\* Mutant: an unbounded sleep, ended by the doorbell.
WakeOnDoorbell ==
    /\ wpc = "sleep"
    /\ rung
    /\ wpc' = "take"
    /\ UNCHANGED <<tso, words, mesaVars, lastTail, published, idle, reg, buffer,
                   relayed, consumed, moved>>

\* PARK_SLEEP is over.  The doorbell has no part in it: it is an inline command
\* that goes to S.
Wake ==
    /\ wpc = "sleep"
    /\ wpc' = "take"
    /\ UNCHANGED <<tso, words, mesaVars, lastTail, published, idle, reg, buffer,
                   relayed, consumed, moved>>

-----------------------------------------------------------------------------
Init ==
    /\ tso \in BOOLEAN
    /\ tail = 0 /\ head = 0 /\ status = {}
    /\ mpc = "run" /\ throttled = FALSE /\ waiting = FALSE /\ rung = FALSE
    /\ wpc = "take" /\ lastTail = 0 /\ relayed = 0
    /\ published = 0 /\ idle = FALSE
    /\ reg = {} /\ buffer = << >> /\ consumed = 0
    /\ sawIdle = FALSE /\ moved = FALSE

Mesa ==
    \/ StoreTail \/ CheckStatus \/ MillisecondPasses
    \/ WaitBegins \/ WaitEnds \/ Warning

Watcher ==
    \/ Take \/ ClearIdle \/ Ship \/ Publish \/ SetAlive \/ PublishIdle
    \/ DecidePark \/ FallAsleep \/ StayAwake \/ Wake

Next == Mesa \/ Acknowledge \/ Watcher \/ StoreDrains

Spec == Init /\ [][Next]_vars

\* The watcher is a thread in a loop whose only sleep is timed; a store buffer
\* drains.  Nothing is asked of Mesa, of S, or of the clock.
FairSpec == Spec /\ WF_vars(Watcher) /\ WF_vars(StoreDrains)

-----------------------------------------------------------------------------
(* Properties.                                                             *)

\* The type of every variable.
TypeOK ==
    /\ {tso, throttled, waiting, rung, idle, sawIdle, moved} \subseteq BOOLEAN
    /\ {tail, head, lastTail, relayed, published, consumed} \subseteq 0 .. MaxCmd
    /\ status \subseteq Bits /\ reg \subseteq Bits
    /\ buffer = << >> \/ (Len(buffer) = 1 /\ buffer[1] \subseteq Bits)
    /\ mpc \in {"run", "check", "aborted"}
    /\ wpc \in {"take", "clear", "clearStore", "ship", "publish", "alive",
                "aliveStore", "announce", "idleStore", "decide", "park", "back",
                "backStore", "sleep"}
    /\ head = published /\ head <= consumed
    /\ consumed <= relayed /\ relayed <= lastTail /\ lastTail <= tail

\* "Park is a promise that nothing is pending" (ring.rs): if C's store of IDLE
\* is not reordered with its load of tail, then a command written while the
\* watcher sleeps is one whose writer saw IDLE, or has yet to look.
ParkIsAPromise ==
    ~tso /\ wpc = "sleep" /\ tail # lastTail => mpc = "check" \/ sawIdle

\* Mesa never aborts an application whose ring has moved since the warning
\* period began: no update of the word loses ALIVE, and only the instant
\* between the stores to head and to status is left.
AbortIsDeserved ==
    [][mpc # "aborted" /\ mpc' = "aborted"
         => ~moved \/ wpc \in {"alive", "aliveStore"}]_vars

\* Every command the application writes is drained in the end, with or without
\* a doorbell, and whether or not the store of IDLE was reordered: ring.rs's
\* "Gap 2" costs PARK_SLEEP of latency, and is not a hang.
EveryWriteIsDrained == \A n \in 1 .. MaxCmd : tail >= n ~> lastTail >= n
=============================================================================
