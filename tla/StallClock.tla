----------------------------- MODULE StallClock -----------------------------
(***************************************************************************)
(* What C believes of S's progress, and when it gives up.                  *)
(*                                                                         *)
(* Every cursor is a word of a fixed width that wraps, and is compared by  *)
(* a wrapping difference; beside the words, this module counts the same    *)
(* events with numbers that do not wrap.  S is not trusted here: it may    *)
(* send RingProgress with any word in it, at any time, as often as it      *)
(* likes (a keepalive, a stale value, a value C never relayed).            *)
(*                                                                         *)
(* Time is a count of ticks.  The watcher reads how long S has been silent *)
(* only on a pass that found nothing to relay.                             *)
(***************************************************************************)
EXTENDS Integers

CONSTANTS
    Width,      \* how many values a cursor has (2^32)
    BufSize,    \* commands the ring holds
    Limit,      \* the stall timeout, in ticks
    MaxCmd      \* bound: commands the application rings in

ASSUME ClockAssumption ==
    /\ Width \in Nat /\ BufSize \in Nat \ {0}
    /\ 2 * BufSize <= Width /\ Width % BufSize = 0 /\ Width % 2 = 0
    /\ Limit \in Nat /\ MaxCmd \in Nat

VARIABLES
    tail, head,     \* the ring's words
    wpc,            \* "take", "relay", "ship", "check", "publish"; "gone" once
                    \* the process has exited
    lastTail,       \* RingWatcher.last_tail
    ack,            \* the consumed tail the watcher read
    relayed, shipped, consumed, \* Progress
    since,          \* how old Progress.outstanding_since is, in ticks, or None
    count,          \* ghost: the same cursors, unwrapped
    silence         \* ghost: ticks since S last moved with work outstanding

words == <<tail, head, lastTail, ack, relayed, shipped, consumed>>
vars == <<words, wpc, since, count, silence>>

None == -1
Word == 0 .. Width - 1
Age == 0 .. Limit + 1

\* x - y, as a u32's wrapping_sub.
Diff(x, y) == (x - y) % Width

-----------------------------------------------------------------------------
(* The application and the clock.                                          *)

AppIssue ==
    /\ wpc # "gone"
    /\ count.tail < MaxCmd
    /\ Diff(tail, head) + 1 <= BufSize
    /\ tail' = (tail + 1) % Width
    /\ count' = [count EXCEPT !.tail = @ + 1]
    /\ UNCHANGED <<head, lastTail, ack, relayed, shipped, consumed, wpc, since,
                   silence>>

Older(age) == IF age = Limit + 1 THEN age ELSE age + 1

Tick ==
    /\ wpc # "gone"
    /\ since' = IF since = None THEN None ELSE Older(since)
    /\ silence' = IF count.relayed = count.consumed THEN 0 ELSE Older(silence)
    /\ UNCHANGED <<words, wpc, count>>

-----------------------------------------------------------------------------
(* The reader thread: Progress::note_consumed, on whatever S sends.        *)

\* Mutant: compares the words themselves.
AdvancesUnwrapped(t) == t > consumed /\ t <= relayed

\* Mutant: takes any value that is not a repeat.
AdvancesUnclamped(t) == t # consumed

\* The acknowledgement is of something relayed and not acknowledged yet.
Advances(t) ==
    /\ Diff(t, consumed) # 0
    /\ Diff(t, consumed) <= Diff(relayed, consumed)

\* Mutant: "S is alive" restarts the clock, whatever it said.
KeepaliveRestarts(t) ==
    /\ consumed' = IF Advances(t) THEN t ELSE consumed
    /\ since' = IF consumed' = relayed THEN None ELSE 0

\* Mutant: only a full acknowledgement touches the clock.
ProgressIgnored(t) ==
    /\ consumed' = IF Advances(t) THEN t ELSE consumed
    /\ since' = IF consumed' = relayed THEN None ELSE since

\* Mutant: the clock runs on when nothing is outstanding.
IdleLooksWedged(t) ==
    IF Advances(t)
    THEN consumed' = t /\ since' = 0
    ELSE UNCHANGED <<consumed, since>>

\* Ack::Advanced moves the frontier and restarts the clock; Stale and
\* PastFrontier leave both alone.
NoteConsumed(t) ==
    IF Advances(t)
    THEN /\ consumed' = t
         /\ since' = IF t = relayed THEN None ELSE 0
    ELSE UNCHANGED <<consumed, since>>

\* The unwrapped cursor moves as far as the word did.
Acknowledge ==
    /\ wpc # "gone"
    /\ \E t \in Word : NoteConsumed(t)
    /\ count' = [count EXCEPT !.consumed = @ + Diff(consumed', consumed)]
    /\ silence' = IF consumed' = consumed THEN silence ELSE 0
    /\ UNCHANGED <<tail, head, lastTail, ack, relayed, shipped, wpc>>

-----------------------------------------------------------------------------
(* The ring watcher.                                                       *)

\* take_delta; a pass that finds nothing goes on to look at Progress.
Take ==
    /\ wpc = "take"
    /\ wpc' = IF tail = lastTail THEN "check" ELSE "relay"
    /\ lastTail' = tail
    /\ count' = [count EXCEPT !.drained = count.tail]
    /\ UNCHANGED <<tail, head, ack, relayed, shipped, consumed, since, silence>>

\* note_relayed starts the clock only when nothing was outstanding.
NoteRelayed ==
    /\ wpc = "relay"
    /\ relayed' = lastTail
    /\ since' = IF since = None /\ lastTail # consumed THEN 0 ELSE since
    /\ count' = [count EXCEPT !.relayed = count.drained]
    /\ silence' = IF count.relayed = count.consumed THEN 0 ELSE silence
    /\ wpc' = "ship"
    /\ UNCHANGED <<tail, head, lastTail, ack, shipped, consumed>>

NoteShipped ==
    /\ wpc = "ship"
    /\ shipped' = lastTail
    /\ count' = [count EXCEPT !.shipped = count.drained]
    /\ wpc' = "take"
    /\ UNCHANGED <<tail, head, lastTail, ack, relayed, consumed, since, silence>>

\* The stall check: too long, and the process exits.
CheckStall ==
    /\ wpc = "check"
    /\ ack' = consumed
    /\ wpc' = IF since # None /\ since > Limit THEN "gone" ELSE "publish"
    /\ UNCHANGED <<tail, head, lastTail, relayed, shipped, consumed, since,
                   count, silence>>

\* advance_head.
PublishHead ==
    /\ wpc = "publish"
    /\ head' = ack
    /\ wpc' = "take"
    /\ UNCHANGED <<tail, lastTail, ack, relayed, shipped, consumed, since, count,
                   silence>>

-----------------------------------------------------------------------------
Init ==
    /\ tail = 0 /\ head = 0 /\ wpc = "take" /\ lastTail = 0 /\ ack = 0
    /\ relayed = 0 /\ shipped = 0 /\ consumed = 0 /\ since = None
    /\ count = [tail |-> 0, drained |-> 0, relayed |-> 0, shipped |-> 0,
                consumed |-> 0]
    /\ silence = 0

Watcher == Take \/ NoteRelayed \/ NoteShipped \/ CheckStall \/ PublishHead

Next == AppIssue \/ Tick \/ Acknowledge \/ Watcher

Spec == Init /\ [][Next]_vars

\* Time passes and the watcher's loop runs: its sleep is timed, and its sends
\* end.  S owes nothing.
FairSpec == Spec /\ WF_vars(Tick) /\ WF_vars(Watcher)

-----------------------------------------------------------------------------
(* Properties.                                                             *)

\* The type of every variable, each word its count, wrapped, and a clock that
\* runs exactly while something is outstanding.
TypeOK ==
    /\ {tail, head, lastTail, ack, relayed, shipped, consumed} \subseteq Word
    /\ wpc \in {"take", "relay", "ship", "check", "publish", "gone"}
    /\ since \in Age \cup {None} /\ silence \in Age
    /\ tail = count.tail % Width /\ lastTail = count.drained % Width
    /\ relayed = count.relayed % Width /\ shipped = count.shipped % Width
    /\ consumed = count.consumed % Width
    /\ since = None <=> relayed = consumed

\* The two asserts of ring.rs are unreachable whatever S sends: take_delta's
\* (no more was produced than the ring holds) and advance_head's (head is not
\* past what was drained, nor more than a ring behind it).  A failed assert
\* kills the watcher and poisons the blob table's lock.
AssertsHold ==
    /\ Diff(tail, lastTail) <= BufSize
    /\ wpc = "publish" => Diff(lastTail, ack) <= BufSize

\* Mutant: compares the words themselves.
FlushedUnwrapped(target) == shipped >= target

\* flush_ring's test, on a signed difference.
Flushed(target) == Diff(shipped, target) < Width \div 2

\* Both comparisons of wrapped cursors agree with the unwrapped ones across any
\* number of wraps: the acknowledgements that count are exactly those of
\* something relayed and not acknowledged yet, and the submit barrier ends for
\* every target the application can have published exactly when it is shipped,
\* if the barrier is less than half the range late.
ComparisonsSurviveTheWrap ==
    /\ \A t \in Word :
         Advances(t) <=> \E n \in count.consumed + 1 .. count.relayed : t = n % Width
    /\ \A n \in count.shipped - Width \div 2 + 1 .. count.tail :
         n >= 0 => (Flushed(n % Width) <=> count.shipped >= n)

\* C gives up only on an S that acknowledged nothing new for longer than the
\* limit while there was something to acknowledge.
StallIsReal == [][wpc # "gone" /\ wpc' = "gone" => silence > Limit]_vars

\* And it does give up on an S that is wedged, however many keepalives the
\* wedged S goes on sending: movement counts, not arrival.
Wedged == relayed # consumed
WedgeIsNoticed ==
    <>[]Wedged /\ <>[][consumed' = consumed]_vars => <>(wpc = "gone")
=============================================================================
