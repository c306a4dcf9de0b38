--------------------------- MODULE RingParkProofs ---------------------------
(***************************************************************************)
(* Proofs about RingPark, for every number of commands.                    *)
(*                                                                         *)
(*   ParkTypes          Spec => []TypeOK                                   *)
(*   ParkKeepsPromise   Spec => []ParkIsAPromise                           *)
(*   AbortsAreDeserved  Spec => AbortIsDeserved                            *)
(*                                                                         *)
(* Promise is Dekker's argument: from the store of IDLE until the watcher  *)
(* is awake again, IDLE is in the word, so whoever stores a tail after the *)
(* watcher looked at it will find IDLE.  Evidence follows ALIVE through    *)
(* every copy of the word there is: the word, the store buffer, and the    *)
(* value a read-modify-write has in hand; that is why none of the          *)
(* watcher's plain read-modify-writes loses it, although Mesa writes the   *)
(* word between their two halves.                                          *)
(***************************************************************************)
EXTENDS RingPark, TLAPS

\* The store of IDLE is in the word, and a command that is pending all the same
\* has a writer that saw it there or has yet to look.
Promise ==
    /\ ~tso => buffer = << >>
    /\ ~tso /\ wpc \in {"decide", "park", "sleep"} => "IDLE" \in status
    /\ ~tso /\ wpc \in {"park", "sleep"} /\ tail # lastTail
         => mpc = "check" \/ sawIdle

\* Unless its store is still to come, the evidence that the ring has moved is
\* in every copy of the word.
Evidence ==
    moved /\ wpc \notin {"alive", "aliveStore"} =>
      /\ "ALIVE" \in status
      /\ buffer # << >> => "ALIVE" \in buffer[1]
      /\ wpc \in {"clearStore", "idleStore", "backStore"} => "ALIVE" \in reg

-----------------------------------------------------------------------------
\* Every step keeps every variable in its type and the cursors in order.
LEMMA TypeStep == TypeOK /\ [Next]_vars => TypeOK'
<1> SUFFICES ASSUME TypeOK, [Next]_vars PROVE TypeOK'
  OBVIOUS
<1> USE ParkAssumption DEF TypeOK, words, mesaVars
<1>1. CASE StoreTail
  BY <1>1 DEF StoreTail
<1>2. CASE CheckStatus
  <2>1. sawIdle' \in BOOLEAN
    <3>1. sawIdle' = TRUE \/ sawIdle' = FALSE
      BY <1>2 DEF CheckStatus
    <3>2. QED
      BY <3>1
  <2>2. rung' \in BOOLEAN /\ throttled' \in BOOLEAN
    <3>1. CASE rung' = TRUE /\ throttled' = TRUE
      BY <3>1
    <3>2. CASE rung' = rung /\ throttled' = throttled
      BY <3>2
    <3>3. QED
      BY <1>2, <3>1, <3>2 DEF CheckStatus
  <2>3. mpc' = "run"
    BY <1>2 DEF CheckStatus
  <2>4. UNCHANGED <<tso, words, waiting, wpc, lastTail, published, idle, reg,
                    buffer, relayed, consumed, moved>>
    BY <1>2 DEF CheckStatus
  <2>5. QED
    BY <2>1, <2>2, <2>3, <2>4
<1>3. CASE MillisecondPasses
  BY <1>3 DEF MillisecondPasses
<1>4. CASE WaitBegins
  BY <1>4 DEF WaitBegins, ClearAlive
<1>5. CASE WaitEnds
  BY <1>5 DEF WaitEnds
<1>6. CASE Warning
  BY <1>6 DEF Warning, ClearAlive
<1>7. CASE Acknowledge
  BY <1>7 DEF Acknowledge
<1>8. CASE Take
  BY <1>8 DEF Take
<1>9. CASE ClearIdle
  BY <1>9 DEF ClearIdle, Load, Store, Visible
<1>10. CASE Ship
  BY <1>10 DEF Ship
<1>11. CASE Publish
  <2>1. CASE consumed # published
    BY <1>11, <2>1 DEF Publish
  <2>2. CASE consumed = published
    BY <1>11, <2>2 DEF Publish
  <2>3. QED
    BY <2>1, <2>2
<1>12. CASE SetAlive
  BY <1>12 DEF SetAlive, Load, Store, Visible, Bits
<1>13. CASE PublishIdle
  <2>1. Announced \subseteq Bits
    BY DEF Announced, Bits
  <2>2. Len(<< Announced >>) = 1 /\ << Announced >>[1] = Announced
    OBVIOUS
  <2>3. QED
    BY <1>13, <2>1, <2>2 DEF PublishIdle, Load, Visible
<1>14. CASE StoreDrains
  BY <1>14 DEF StoreDrains
<1>15. CASE DecidePark
  BY <1>15 DEF DecidePark
<1>16. CASE FallAsleep
  BY <1>16 DEF FallAsleep
<1>17. CASE StayAwake
  BY <1>17 DEF StayAwake, Load, Store, Visible
<1>18. CASE Wake
  BY <1>18 DEF Wake
<1>19. CASE UNCHANGED vars
  BY <1>19 DEF vars
<1> QED
  BY <1>1, <1>2, <1>3, <1>4, <1>5, <1>6, <1>7, <1>8, <1>9, <1>10, <1>11, <1>12,
     <1>13, <1>14, <1>15, <1>16, <1>17, <1>18, <1>19
     DEF Next, Mesa, Watcher

\* No step breaks the promise.
LEMMA PromiseStep == TypeOK /\ Promise /\ [Next]_vars => Promise'
<1> SUFFICES ASSUME TypeOK, Promise, [Next]_vars PROVE Promise'
  OBVIOUS
<1> USE DEF Promise, words, mesaVars
<1>1. CASE StoreTail
  BY <1>1 DEF StoreTail
<1>2. CASE CheckStatus
  BY <1>2 DEF CheckStatus
<1>3. CASE MillisecondPasses \/ WaitEnds \/ Acknowledge
  BY <1>3 DEF MillisecondPasses, WaitEnds, Acknowledge
<1>4. CASE WaitBegins
  BY <1>4 DEF WaitBegins, ClearAlive
<1>5. CASE Warning
  BY <1>5 DEF Warning, ClearAlive
<1>6. CASE Take \/ Ship \/ Publish \/ Wake
  BY <1>6 DEF Take, Ship, Publish, Wake
<1>7. CASE ClearIdle \/ SetAlive \/ StayAwake
  BY <1>7 DEF ClearIdle, SetAlive, StayAwake, Load, Store
<1>8. CASE PublishIdle
  BY <1>8 DEF PublishIdle, Load, Announced
<1>9. CASE StoreDrains
  BY <1>9 DEF StoreDrains
<1>10. CASE DecidePark
  BY <1>10 DEF DecidePark
<1>11. CASE FallAsleep
  BY <1>11 DEF FallAsleep
<1>12. CASE UNCHANGED vars
  BY <1>12 DEF vars
<1> QED
  BY <1>1, <1>2, <1>3, <1>4, <1>5, <1>6, <1>7, <1>8, <1>9, <1>10, <1>11, <1>12
     DEF Next, Mesa, Watcher

\* No step loses the evidence.
LEMMA EvidenceStep == TypeOK /\ Evidence /\ [Next]_vars => Evidence'
<1> SUFFICES ASSUME TypeOK, Evidence, [Next]_vars PROVE Evidence'
  OBVIOUS
<1> USE DEF Evidence, words, mesaVars
<1>1. CASE StoreTail \/ CheckStatus \/ MillisecondPasses \/ WaitEnds \/ Acknowledge
  BY <1>1 DEF StoreTail, CheckStatus, MillisecondPasses, WaitEnds, Acknowledge
<1>2. CASE WaitBegins \/ Warning
  BY <1>2 DEF WaitBegins, Warning, ClearAlive
<1>3. CASE Take \/ Ship \/ Publish \/ Wake \/ DecidePark \/ FallAsleep
  BY <1>3 DEF Take, Ship, Publish, Wake, DecidePark, FallAsleep
<1>4. CASE ClearIdle
  BY <1>4 DEF ClearIdle, Load, Store, Visible
<1>5. CASE SetAlive
  BY <1>5 DEF SetAlive, Load, Store
<1>6. CASE StayAwake
  BY <1>6 DEF StayAwake, Load, Store, Visible
<1>7. CASE PublishIdle
  <2>1. << Announced >>[1] = Announced
    OBVIOUS
  <2>2. QED
    BY <1>7, <2>1 DEF PublishIdle, Load, Visible, Announced
<1>8. CASE StoreDrains
  BY <1>8 DEF StoreDrains
<1>9. CASE UNCHANGED vars
  BY <1>9 DEF vars
<1> QED
  BY <1>1, <1>2, <1>3, <1>4, <1>5, <1>6, <1>7, <1>8, <1>9 DEF Next, Mesa, Watcher

-----------------------------------------------------------------------------
\* Every variable has its type; head is what was published, which was
\* acknowledged, which was relayed, drained and written.
THEOREM ParkTypes == Spec => []TypeOK
<1>1. Init => TypeOK
  <2> SUFFICES ASSUME Init PROVE TypeOK
    OBVIOUS
  <2>1. {tso, throttled, waiting, rung, idle, sawIdle, moved} \subseteq BOOLEAN
    BY DEF Init
  <2>2. {tail, head, lastTail, relayed, published, consumed} \subseteq 0 .. MaxCmd
    BY ParkAssumption DEF Init
  <2>3. /\ head = published /\ head <= consumed
        /\ consumed <= relayed /\ relayed <= lastTail /\ lastTail <= tail
    BY DEF Init
  <2>4. QED
    BY <2>1, <2>2, <2>3 DEF Init, TypeOK
<1> QED
  BY <1>1, TypeStep, PTL DEF Spec

\* "Park is a promise that nothing is pending": with the store of IDLE in
\* memory before the load of tail, a command written while the watcher sleeps
\* is one whose writer saw IDLE or has yet to look.
THEOREM ParkKeepsPromise == Spec => []ParkIsAPromise
<1>1. Init => Promise
  BY DEF Init, Promise
<1>2. Promise => ParkIsAPromise
  BY DEF Promise, ParkIsAPromise
<1> QED
  BY <1>1, <1>2, PromiseStep, ParkTypes, PTL DEF Spec

\* Whatever Mesa writes between a load and a store of the watcher's, and
\* wherever the store buffer drains, an application whose ring has moved since
\* its warning period began is not aborted.
THEOREM AbortsAreDeserved == Spec => AbortIsDeserved
<1>1. Init => Evidence
  BY DEF Init, Evidence
<1>2. TypeOK /\ Evidence /\ [Next]_vars
        => [mpc # "aborted" /\ mpc' = "aborted"
              => ~moved \/ wpc \in {"alive", "aliveStore"}]_vars
  <2> SUFFICES ASSUME Evidence, Next, mpc # "aborted", mpc' = "aborted"
               PROVE  ~moved \/ wpc \in {"alive", "aliveStore"}
    OBVIOUS
  <2>1. Warning /\ "ALIVE" \notin status
    BY DEF Next, Mesa, Watcher, StoreTail, CheckStatus, MillisecondPasses,
           WaitBegins, WaitEnds, Warning, Acknowledge, Take, ClearIdle, Ship,
           Publish, SetAlive, PublishIdle, DecidePark, FallAsleep, StayAwake,
           Wake, StoreDrains, Load, Store, mesaVars
  <2>2. QED
    BY <2>1 DEF Evidence
<1> QED
  BY <1>1, <1>2, EvidenceStep, ParkTypes, PTL DEF Spec, AbortIsDeserved
=============================================================================
