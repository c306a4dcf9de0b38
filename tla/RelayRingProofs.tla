-------------------------- MODULE RelayRingProofs --------------------------
(***************************************************************************)
(* Proofs about RelayRing, for every ring size and every history length.   *)
(*                                                                         *)
(*   TypeCorrect        Spec => []TypeOK                                   *)
(*   CursorsInOrder     Spec => []FrontierOrder                            *)
(*   RepliesBeforeHead  Spec => []ReplyBeforeHead                          *)
(*   Accepted           Spec => []NothingRefused                           *)
(*   InlineKeepsOrder   Spec => []InlineInOrder                            *)
(*   Implements         Spec => ServesTheRing                              *)
(*   StreamArrives      Spec => []StreamIntact                             *)
(*   MemoryArrives      Spec => []MemoryBeforeCommand                      *)
(*                                                                         *)
(* FrontierOrder is not inductive: it says nothing of the cursors that are *)
(* in hand or in flight.  Cursors adds those in hand; Acks orders the      *)
(* acknowledgements on the link; Watcher says what a batch holds; Chain    *)
(* that the deltas in flight join end to end; Replies that every           *)
(* acknowledgement in flight travels behind the replies it promises;       *)
(* Inline that every inline command in flight travels behind the deltas it *)
(* depends on.                                                             *)
(*                                                                         *)
(* The links are sequences, and most of the proof is about what one more   *)
(* or one fewer message on a link leaves true: Joined, Behind, Answers and *)
(* Covered are predicates of a link, each with its Push and Pop lemma, and *)
(* the steps of the threads are then short.                                *)
(*                                                                         *)
(* The second part is about what the cursors delimit.  Contents says that  *)
(* every command between the ring thread's cursor and the application's is *)
(* where it should be: in C's ring, in the watcher's hands, in a delta on  *)
(* the link, or in S's ring.  Memory says that the blob memory a command   *)
(* needs is on S or travels ahead of it.  Both are inductive relative to   *)
(* IInv, whose cursors bound every window by one lap; the lemmas about     *)
(* SlotOf turn that bound into "no overwriting".                           *)
(***************************************************************************)
EXTENDS RelayRing, TLAPS

IsDelta(m) == m.type = "RingDelta"
IsReply(m) == m.type = "ReplyData"
IsAck(m) == m.type = "RingProgress"

\* Where a delta begins: the frontier the watcher had before it.
From(m) == m.tail - Len(m.cmds)

\* The cursors in hand, as well as the published ones: those the watcher, the
\* barrier and the ring thread have read or written but not passed on yet.
Cursors ==
    /\ head <= wConsumed /\ wConsumed <= consumed
    /\ consumed <= reported /\ reported <= shead
    /\ shead <= srep /\ srep <= shead + 1 /\ srep <= applied
    /\ applied <= sent /\ shipped <= sent
    /\ sent <= relayed /\ relayed <= lastTail
    /\ lastTail <= tail /\ tail <= head + BufSize

\* The acknowledgements in flight: none stale, none repeated backwards, none
\* past what S has reported.
Acks ==
    /\ \A i \in 1 .. Len(s2c) :
         IsAck(s2c[i]) => consumed <= s2c[i].tail /\ s2c[i].tail <= reported
    /\ \A i, j \in 1 .. Len(s2c) :
         i < j /\ IsAck(s2c[i]) /\ IsAck(s2c[j]) => s2c[i].tail <= s2c[j].tail

\* What the watcher holds between TakeDelta and NoteShipped: the delta, and
\* what is left of the batch that ends with it.
Watcher ==
    /\ wpc \in {"diff", "ship", "shipping", "note"} => relayed = lastTail
    /\ wpc \in {"take", "note", "publish"} => sent = lastTail
    /\ wpc \in {"relay", "diff", "ship", "shipping"} =>
         /\ Len(delta) \in 1 .. BufSize
         /\ lastTail - Len(delta) = sent
    /\ wpc = "ship" =>
         \/ batch = << RingDelta(lastTail, delta) >>
         \/ batch = << BlobData(base), RingDelta(lastTail, delta) >>
    /\ wpc = "shipping" => batch = << RingDelta(lastTail, delta) >>

\* The deltas on a link join end to end: each starts where the one before it
\* ended, the first at `lo`, where S stands, and the last ends at `hi`, what C
\* has sent.
Joined(link, lo, hi) ==
    /\ \A i \in 1 .. Len(link) :
         IsDelta(link[i]) =>
           /\ Len(link[i].cmds) \in 1 .. BufSize
           /\ link[i].tail <= hi
           /\ lo <= From(link[i])
           /\ \/ lo = From(link[i])
              \/ \E j \in 1 .. i - 1 :
                   IsDelta(link[j]) /\ link[j].tail = From(link[i])
    /\ \A i, j \in 1 .. Len(link) :
         i < j /\ IsDelta(link[i]) /\ IsDelta(link[j])
           => link[i].tail <= From(link[j])
    /\ \/ hi = lo
       \/ \E i \in 1 .. Len(link) : IsDelta(link[i]) /\ link[i].tail = hi

Chain ==
    /\ spc = "publish" => c2s # << >> /\ IsDelta(c2s[1])
    /\ Joined(c2s, applied, sent)

\* The replies and acknowledgements on a link: `got` is what C has, `told` the
\* newest arena S has taken.  Replies never go backwards, and whoever reads an
\* acknowledgement has read the replies it promises before it.
Answers(link, got, told) ==
    /\ \A i \in 1 .. Len(link) :
         IsReply(link[i]) => got <= link[i].upto /\ link[i].upto <= told
    /\ \A i, j \in 1 .. Len(link) :
         i < j /\ IsReply(link[i]) /\ IsReply(link[j])
           => link[i].upto <= link[j].upto
    /\ \A i \in 1 .. Len(link) :
         IsAck(link[i]) =>
           \/ link[i].tail <= got
           \/ \E j \in 1 .. i - 1 :
                IsReply(link[j]) /\ link[i].tail <= link[j].upto

\* The arena version `told` is C's, or on its way to C.
Covered(link, got, told) ==
    \/ told = got
    \/ \E i \in 1 .. Len(link) : IsReply(link[i]) /\ link[i].upto = told

Replies ==
    /\ crep <= srepShadow /\ srepShadow <= srep
    /\ consumed <= crep
    /\ ppc \in {"shipVenus", "shipProgress"} => reported <= srepShadow
    /\ Answers(s2c, crep, srepShadow)
    /\ \/ Covered(s2c, crep, srepShadow)
       \/ ppc = "shipVenus" /\ venus = << ReplyData(srepShadow) >>
    /\ ppc = "shipVenus" =>
         venus = << >> \/ venus = << ReplyData(srepShadow) >>

\* Is this an inline command that passed the barrier?
Ordered(m) == m.type = "SubmitCmd" /\ m.ordered

\* Every such command on the link travels behind the deltas it depends on.
Behind(link, lo) ==
    \A i \in 1 .. Len(link) :
        Ordered(link[i]) =>
          \/ link[i].after <= lo
          \/ \E j \in 1 .. i - 1 :
               IsDelta(link[j]) /\ link[i].after <= link[j].tail

\* The inline commands in flight, and the one waiting at the barrier.
Inline ==
    /\ vpc = "wait" => vAfter <= vTarget
    /\ vAfter <= tail
    /\ Behind(c2s, applied)

IInv == TypeOK /\ Cursors /\ Acks /\ Watcher /\ Chain /\ Replies /\ Inline /\ NothingRefused

-----------------------------------------------------------------------------
(* Sequences, as the links use them.                                       *)

\* Taking the first message off a link leaves the others in order.
LEMMA TailIs ==
    ASSUME NEW S, NEW s \in Seq(S), s # << >>
    PROVE  /\ Tail(s) \in Seq(S)
           /\ Len(Tail(s)) = Len(s) - 1
           /\ Len(s) \in Nat \ {0}
           /\ Head(s) = s[1] /\ s[1] \in S
           /\ \A i \in 1 .. Len(s) - 1 : Tail(s)[i] = s[i + 1] /\ s[i + 1] \in S
  OBVIOUS

\* Putting a message on a link keeps those already there.
LEMMA AppendIs ==
    ASSUME NEW S, NEW s \in Seq(S), NEW m \in S
    PROVE  /\ Append(s, m) \in Seq(S)
           /\ Len(Append(s, m)) = Len(s) + 1
           /\ Len(s) \in Nat
           /\ Append(s, m)[Len(s) + 1] = m
           /\ \A i \in 1 .. Len(s) : Append(s, m)[i] = s[i]
  OBVIOUS

-----------------------------------------------------------------------------
\* The initial state has the declared types.
LEMMA TypeInit == Init => TypeOK
<1> SUFFICES ASSUME Init PROVE TypeOK
  OBVIOUS
<1>1. tail \in 0 .. MaxCmd
  BY RingAssumption DEF Init, Slot, Empty
<1>2. cbuf \in [0 .. BufSize - 1 -> Slot] /\ sbuf \in [0 .. BufSize - 1 -> Slot]
  BY RingAssumption DEF Init, Slot, Empty
<1>3. appMem \in 0 .. MaxMem /\ inlines \in 0 .. MaxInline
  BY RingAssumption DEF Init, Slot, Empty
<1>4. delta \in Seq(Slot) /\ Len(delta) <= BufSize /\ batch \in Seq(C2SMessage) /\ venus \in Seq(S2CMessage)
  BY RingAssumption DEF Init, Slot, Empty
<1>5. c2s \in Seq(C2SMessage) /\ s2c \in Seq(S2CMessage)
  BY RingAssumption DEF Init, Slot, Empty
<1> QED
  BY <1>1, <1>2, <1>3, <1>4, <1>5 DEF TypeOK, Init

\* A delta carries a tail and commands.
LEMMA DeltaCarries ==
    ASSUME NEW m \in C2SMessage, IsDelta(m)
    PROVE  m.tail \in Nat /\ m.cmds \in Seq(Slot)
  BY DEF C2SMessage, IsDelta

\* A blob message carries a version.
LEMMA BlobDataCarries ==
    ASSUME NEW m \in C2SMessage, m.type = "BlobData"
    PROVE  m.ver \in Nat
  BY DEF C2SMessage

\* An inline command carries the two ghosts.
LEMMA InlineCarries ==
    ASSUME NEW m \in C2SMessage, m.type = "SubmitCmd"
    PROVE  m.after \in Nat /\ m.ordered \in BOOLEAN
  BY DEF C2SMessage

\* A reply carries an arena version.
LEMMA ReplyCarries ==
    ASSUME NEW m \in S2CMessage, IsReply(m)
    PROVE  m.upto \in Nat
  BY DEF S2CMessage, IsReply

\* An acknowledgement carries a tail.
LEMMA AckCarries ==
    ASSUME NEW m \in S2CMessage, IsAck(m)
    PROVE  m.tail \in Nat
  BY DEF S2CMessage, IsAck

\* What each thread puts on a link is a message of that link.
LEMMA MessageTypes ==
    /\ \A v \in Nat : BlobData(v) \in C2SMessage
    /\ \A t \in Nat, cmds \in Seq(Slot) : RingDelta(t, cmds) \in C2SMessage
    /\ \A r \in Nat : ReplyData(r) \in S2CMessage
    /\ \A h \in Nat : RingProgress(h) \in S2CMessage
  BY DEF C2SMessage, S2CMessage, BlobData, RingDelta, ReplyData,
         RingProgress

\* The commands of a delta are slots of the ring.
LEMMA DrainedType ==
    ASSUME TypeOK, lastTail <= tail
    PROVE  Drained(tail) \in Seq(Slot) /\ Len(Drained(tail)) = tail - lastTail
  BY RingAssumption DEF TypeOK, Drained, SlotOf

\* Writing a delta into S's ring leaves slots in it.
LEMMA WrittenType ==
    ASSUME NEW cmds \in Seq(Slot), sbuf \in [0 .. BufSize - 1 -> Slot], applied \in Nat
    PROVE  Written(cmds) \in [0 .. BufSize - 1 -> Slot]
<1> SUFFICES ASSUME NEW s \in 0 .. BufSize - 1
             PROVE  (IF ((s - applied) % BufSize) + 1 <= Len(cmds)
                       THEN cmds[((s - applied) % BufSize) + 1] ELSE sbuf[s]) \in Slot
  BY DEF Written
<1>1. (s - applied) % BufSize \in 0 .. BufSize - 1
  BY RingAssumption
<1>2. CASE ((s - applied) % BufSize) + 1 <= Len(cmds)
  <2>1. ((s - applied) % BufSize) + 1 \in 1 .. Len(cmds)
    BY <1>1, <1>2, RingAssumption
  <2>2. QED
    BY <1>2, <2>1
<1>3. CASE ~(((s - applied) % BufSize) + 1 <= Len(cmds))
  BY <1>3
<1> QED
  BY <1>2, <1>3

\* A batch of one or two messages, and what is left of it.
LEMMA ShortTails ==
    ASSUME NEW S, NEW x \in S, NEW y \in S
    PROVE  /\ Head(<< y >>) = y /\ Tail(<< y >>) = << >>
           /\ Head(<< x, y >>) = x /\ Tail(<< x, y >>) = << y >>
           /\ << y >> # << >>
  OBVIOUS

\* What one turn of the send loop does: a blob goes out ahead of the delta, or
\* the delta goes out and nothing is left to send.
LEMMA ShipSends ==
    ASSUME TypeOK, Watcher, ShipMessage
    PROVE  \/ /\ wpc = "ship"
              /\ batch = << BlobData(base), RingDelta(lastTail, delta) >>
              /\ c2s' = Append(c2s, BlobData(base))
              /\ batch' = << RingDelta(lastTail, delta) >>
              /\ sent' = sent /\ wpc' = "shipping"
           \/ /\ batch = << RingDelta(lastTail, delta) >>
              /\ c2s' = Append(c2s, RingDelta(lastTail, delta))
              /\ batch' = << >>
              /\ sent' = lastTail /\ wpc' = "note"
<1> DEFINE d == RingDelta(lastTail, delta)
           b == BlobData(base)
<1>1. /\ d \in C2SMessage /\ d.type = "RingDelta" /\ d.tail = lastTail
      /\ b \in C2SMessage /\ b.type # "RingDelta"
  BY MessageTypes DEF TypeOK, RingDelta, BlobData
<1>2. \/ batch = << d >>
      \/ wpc = "ship" /\ batch = << b, d >>
  BY DEF ShipMessage, Watcher
<1> HIDE DEF d, b
<1>3. CASE batch = << d >>
  <2>1. Head(batch) = d /\ Tail(batch) = << >>
    BY <1>1, <1>3, ShortTails
  <2>2. c2s' = Append(c2s, d) /\ batch' = << >> /\ sent' = lastTail /\ wpc' = "note"
    BY <1>1, <2>1 DEF ShipMessage
  <2>3. QED
    BY <1>3, <2>2 DEF d
<1>4. CASE wpc = "ship" /\ batch = << b, d >>
  <2>1. Head(batch) = b /\ Tail(batch) = << d >> /\ << d >> # << >>
    BY <1>1, <1>4, ShortTails
  <2>2. /\ c2s' = Append(c2s, b) /\ batch' = << d >>
        /\ sent' = sent /\ wpc' = "shipping"
    BY <1>1, <2>1 DEF ShipMessage
  <2>3. QED
    BY <1>4, <2>2 DEF b, d
<1> QED
  BY <1>2, <1>3, <1>4

\* Every step keeps every variable in its type.  Two need more: the second half
\* of apply_delta that the message in hand is a delta, and the send loop that
\* there is a message left to send.
LEMMA TypeStep ==
    TypeOK /\ Cursors /\ Watcher /\ Chain /\ [Next]_vars => TypeOK'
<1> SUFFICES ASSUME TypeOK, Cursors, Watcher, Chain, [Next]_vars
             PROVE  TypeOK'
  OBVIOUS
<1> USE RingAssumption
    DEF TypeOK, vars, appVars, watcherVars, vtestVars, progressVars, readerVars,
        messageVars, ringThreadVars, progressThreadVars
<1>1. CASE AppIssue
  BY <1>1 DEF AppIssue, Slot, Command, SlotOf
<1>2. CASE AppWrite
  BY <1>2 DEF AppWrite
<1>3. CASE AppInline
  BY <1>3 DEF AppInline
<1>4. CASE FlushTarget
  BY <1>4 DEF FlushTarget
<1>5. CASE SubmitFlushed
  BY <1>5 DEF SubmitFlushed, SubmitCmd, C2SMessage
<1>6. CASE SubmitTimedOut
  BY <1>6 DEF SubmitTimedOut, SubmitCmd, C2SMessage
<1>7. CASE TakeDelta
  <2>1. Drained(tail) \in Seq(Slot) /\ Len(Drained(tail)) = tail - lastTail
    BY DrainedType DEF Cursors
  <2>2. Len(Drained(tail)) <= BufSize
    <3>1. head <= lastTail /\ tail <= head + BufSize
      BY DEF Cursors
    <3>2. QED
      BY <2>1, <3>1
  <2>3. QED
    BY <1>7, <2>1, <2>2 DEF TakeDelta
<1>8. CASE NoteRelayed
  BY <1>8 DEF NoteRelayed
<1>9. CASE MessagesForDelta
  <2>1. ChangedRuns \in Seq(C2SMessage)
    BY MessageTypes DEF ChangedRuns
  <2>2. batch' \in Seq(C2SMessage)
    BY <1>9, <2>1, MessageTypes, AppendIs DEF MessagesForDelta
  <2>3. QED
    BY <1>9, <2>2 DEF MessagesForDelta
<1>10. CASE ShipMessage \/ NoteShipped
  <2>1. CASE ShipMessage
    <3>1. BlobData(base) \in C2SMessage /\ RingDelta(lastTail, delta) \in C2SMessage
      BY MessageTypes
    <3>2. c2s' \in Seq(C2SMessage)
      <4>1. /\ Append(c2s, BlobData(base)) \in Seq(C2SMessage)
            /\ Append(c2s, RingDelta(lastTail, delta)) \in Seq(C2SMessage)
        BY <3>1, AppendIs
      <4>2. QED
        BY <2>1, <4>1, ShipSends
    <3>3. batch' \in Seq(C2SMessage)
      <4>1. << RingDelta(lastTail, delta) >> \in Seq(C2SMessage)
        BY <3>1
      <4>2. << >> \in Seq(C2SMessage)
        OBVIOUS
      <4>3. batch' = << RingDelta(lastTail, delta) >> \/ batch' = << >>
        BY <2>1, ShipSends
      <4> HIDE DEF TypeOK
      <4>4. QED
        BY <4>1, <4>2, <4>3
    <3>4. /\ sent' \in Nat
          /\ wpc' \in {"shipping", "note"}
      BY <2>1, ShipSends
    <3>5. QED
      BY <2>1, <3>2, <3>3, <3>4 DEF ShipMessage
  <2>2. CASE NoteShipped
    BY <2>2 DEF NoteShipped
  <2>3. QED
    BY <1>10, <2>1, <2>2
<1>11. CASE ReadProgress
  BY <1>11 DEF ReadProgress
<1>12. CASE AdvanceHead
  BY <1>12 DEF AdvanceHead
<1>13. CASE ReadReplyData
  BY <1>13, TailIs, ReplyCarries DEF ReadReplyData, IsReply
<1>14. CASE ReadRingProgress
  BY <1>14, TailIs, AckCarries DEF ReadRingProgress, IsAck
<1>15. CASE ApplyBlobData
  BY <1>15, TailIs, BlobDataCarries DEF ApplyBlobData
<1>16. CASE ReceiveDelta
  <2>1. /\ Tail(c2s) \in Seq(C2SMessage)
        /\ Head(c2s).cmds \in Seq(Slot)
    BY <1>16, TailIs, DeltaCarries DEF ReceiveDelta, IsDelta
  <2>2. Written(Head(c2s).cmds) \in [0 .. BufSize - 1 -> Slot]
    BY <2>1, WrittenType
  <2>3. QED
    BY <1>16, <2>1, <2>2 DEF ReceiveDelta
<1>17. CASE PublishTail
  BY <1>17, TailIs, DeltaCarries DEF PublishTail, Chain
<1>18. CASE ApplySubmitCmd
  BY <1>18, TailIs DEF ApplySubmitCmd
<1>19. CASE Dispatch
  BY <1>19 DEF Dispatch
<1>20. CASE StoreHead
  BY <1>20 DEF StoreHead
<1>21. CASE TakeRingProgress
  BY <1>21 DEF TakeRingProgress
<1>22. CASE TakeVenusBlobWrites
  <2>1. << ReplyData(srep) >> \in Seq(S2CMessage)
    BY MessageTypes
  <2>2. QED
    BY <1>22, <2>1 DEF TakeVenusBlobWrites
<1>23. CASE ShipVenus
  BY <1>23 DEF ShipVenus
<1>24. CASE ShipProgress
  BY <1>24, MessageTypes DEF ShipProgress
<1>25. CASE UNCHANGED vars
  BY <1>25
<1> QED
  BY <1>1, <1>2, <1>3, <1>4, <1>5, <1>6, <1>7, <1>8, <1>9, <1>10, <1>11, <1>12,
     <1>13, <1>14, <1>15, <1>16, <1>17, <1>18, <1>19, <1>20, <1>21, <1>22, <1>23,
     <1>24, <1>25
     DEF Next, Application, VtestThread, WatcherThread, ReaderThread,
         MessageThread, RingThread, ProgressThread

\* What the messages in flight carry.
LEMMA LinkTypes ==
    ASSUME TypeOK
    PROVE  /\ Len(c2s) \in Nat /\ Len(s2c) \in Nat
           /\ \A i \in 1 .. Len(c2s) : IsDelta(c2s[i]) =>
                /\ c2s[i].tail \in Nat
                /\ c2s[i].cmds \in Seq(Slot)
                /\ Len(c2s[i].cmds) \in Nat
                /\ From(c2s[i]) \in Int
                /\ From(c2s[i]) + Len(c2s[i].cmds) = c2s[i].tail
           /\ \A i \in 1 .. Len(c2s) :
                c2s[i].type = "SubmitCmd" => c2s[i].after \in Nat
           /\ \A i \in 1 .. Len(s2c) : IsAck(s2c[i]) => s2c[i].tail \in Nat
           /\ \A i \in 1 .. Len(s2c) : IsReply(s2c[i]) => s2c[i].upto \in Nat
<1>1. /\ c2s \in Seq(C2SMessage) /\ s2c \in Seq(S2CMessage)
      /\ Len(c2s) \in Nat /\ Len(s2c) \in Nat
  BY DEF TypeOK
<1>2. ASSUME NEW i \in 1 .. Len(c2s), IsDelta(c2s[i])
      PROVE  /\ c2s[i].tail \in Nat
             /\ c2s[i].cmds \in Seq(Slot)
             /\ Len(c2s[i].cmds) \in Nat
             /\ From(c2s[i]) \in Int
             /\ From(c2s[i]) + Len(c2s[i].cmds) = c2s[i].tail
  <2>1. c2s[i] \in C2SMessage
    BY <1>1
  <2>2. c2s[i].tail \in Nat /\ c2s[i].cmds \in Seq(Slot)
    BY <2>1, <1>2, DeltaCarries
  <2>3. QED
    BY <2>2 DEF From
<1>3. ASSUME NEW i \in 1 .. Len(c2s), c2s[i].type = "SubmitCmd"
      PROVE  c2s[i].after \in Nat
  <2>1. c2s[i] \in C2SMessage
    BY <1>1
  <2>2. QED
    BY <2>1, <1>3, InlineCarries
<1>4. ASSUME NEW i \in 1 .. Len(s2c)
      PROVE  /\ IsAck(s2c[i]) => s2c[i].tail \in Nat
             /\ IsReply(s2c[i]) => s2c[i].upto \in Nat
  <2>1. s2c[i] \in S2CMessage
    BY <1>1
  <2>2. QED
    BY <2>1, AckCarries, ReplyCarries
<1> QED
  BY <1>1, <1>2, <1>3, <1>4

\* The delta at the front of the link joins what S has applied, and what is
\* behind it starts where it ends.
LEMMA FrontDelta ==
    ASSUME TypeOK, Chain, c2s # << >>, IsDelta(c2s[1])
    PROVE  /\ Head(c2s) = c2s[1]
           /\ Head(c2s).tail \in Nat
           /\ Len(Head(c2s).cmds) \in 1 .. BufSize
           /\ Head(c2s).tail - applied = Len(Head(c2s).cmds)
           /\ applied <= Head(c2s).tail
           /\ Head(c2s).tail <= sent
<1>1. Head(c2s) = c2s[1] /\ 1 \in 1 .. Len(c2s) /\ applied \in Nat
  BY TailIs DEF TypeOK
<1>2. /\ c2s[1].tail \in Nat
      /\ Len(c2s[1].cmds) \in Nat
      /\ From(c2s[1]) \in Int
      /\ From(c2s[1]) + Len(c2s[1].cmds) = c2s[1].tail
  BY <1>1, LinkTypes
<1>3. applied = From(c2s[1])
  BY <1>1 DEF Chain, Joined
<1>4. Len(c2s[1].cmds) \in 1 .. BufSize /\ c2s[1].tail <= sent
  BY <1>1 DEF Chain, Joined
<1>5. c2s[1].tail - applied = Len(c2s[1].cmds) /\ applied <= c2s[1].tail
  BY <1>1, <1>2, <1>3
<1> QED
  BY <1>1, <1>2, <1>4, <1>5

\* No step lets a cursor overtake the one it depends on.
LEMMA CursorsStep ==
    TypeOK /\ TypeOK' /\ Cursors /\ Acks /\ Watcher /\ Chain /\ [Next]_vars => Cursors'
<1> SUFFICES ASSUME TypeOK, TypeOK', Cursors, Acks, Watcher, Chain, [Next]_vars
             PROVE  Cursors'
  OBVIOUS
<1> USE RingAssumption
    DEF TypeOK, Cursors, vars, appVars, watcherVars, vtestVars, progressVars,
        readerVars, messageVars, ringThreadVars, progressThreadVars
<1>1. CASE AppIssue
  BY <1>1 DEF AppIssue
<1>2. CASE AppWrite \/ AppInline
  BY <1>2 DEF AppWrite, AppInline
<1>3. CASE FlushTarget \/ SubmitFlushed \/ SubmitTimedOut
  BY <1>3 DEF FlushTarget, SubmitFlushed, SubmitTimedOut
<1>4. CASE TakeDelta
  BY <1>4 DEF TakeDelta
<1>5. CASE NoteRelayed
  BY <1>5 DEF NoteRelayed
<1>6. CASE MessagesForDelta
  BY <1>6 DEF MessagesForDelta
<1>7. CASE ShipMessage \/ NoteShipped
  <2>1. CASE ShipMessage
    <3>1. /\ sent <= lastTail /\ relayed = lastTail
          /\ sent \in Nat /\ lastTail \in Nat
      BY <2>1 DEF Watcher, ShipMessage
    <3>2. sent <= sent' /\ sent' <= relayed
      <4>1. sent' = sent \/ sent' = lastTail
        BY <2>1, ShipSends
      <4> HIDE DEF TypeOK, Cursors
      <4>2. QED
        BY <3>1, <4>1
    <3>3. /\ UNCHANGED <<head, wConsumed, consumed, reported, shead, srep>>
          /\ UNCHANGED <<applied, shipped, relayed, lastTail, tail>>
      BY <2>1 DEF ShipMessage
    <3>4. applied <= sent' /\ shipped <= sent'
      <4>1. /\ applied \in Nat /\ shipped \in Nat /\ sent \in Nat /\ sent' \in Nat
            /\ applied <= sent /\ shipped <= sent
        OBVIOUS
      <4> HIDE DEF TypeOK, Cursors
      <4>2. QED
        BY <3>2, <4>1
    <3>5. QED
      <4> HIDE DEF TypeOK
      <4>1. QED
        BY <3>2, <3>3, <3>4
  <2>2. CASE NoteShipped
    BY <2>2 DEF NoteShipped, Watcher
  <2>3. QED
    BY <1>7, <2>1, <2>2
<1>8. CASE ReadProgress
  BY <1>8 DEF ReadProgress
<1>9. CASE AdvanceHead
  BY <1>9 DEF AdvanceHead
<1>10. CASE ReadReplyData
  BY <1>10 DEF ReadReplyData
<1>11. CASE ReadRingProgress
  <2>1. IsAck(s2c[1]) /\ Head(s2c) = s2c[1] /\ 1 \in 1 .. Len(s2c)
    BY <1>11, TailIs DEF ReadRingProgress, IsAck
  <2>2. Head(s2c).tail \in Nat /\ Head(s2c).tail <= reported
    BY <2>1, LinkTypes DEF Acks
  <2>3. consumed <= consumed' /\ consumed' <= reported
    BY <1>11, <2>2 DEF ReadRingProgress, Acknowledges
  <2>4. QED
    BY <1>11, <2>3 DEF ReadRingProgress
<1>12. CASE ApplyBlobData \/ ReceiveDelta \/ ApplySubmitCmd
  BY <1>12 DEF ApplyBlobData, ReceiveDelta, ApplySubmitCmd
<1>13. CASE PublishTail
  <2>1. applied <= applied' /\ applied' <= sent
    BY <1>13, FrontDelta DEF PublishTail, Chain
  <2>2. QED
    BY <1>13, <2>1 DEF PublishTail
<1>14. CASE Dispatch
  BY <1>14 DEF Dispatch
<1>15. CASE StoreHead
  BY <1>15 DEF StoreHead
<1>16. CASE TakeRingProgress
  BY <1>16 DEF TakeRingProgress
<1>17. CASE TakeVenusBlobWrites \/ ShipVenus \/ ShipProgress
  BY <1>17 DEF TakeVenusBlobWrites, ShipVenus, ShipProgress
<1>18. CASE UNCHANGED vars
  BY <1>18
<1> QED
  BY <1>1, <1>2, <1>3, <1>4, <1>5, <1>6, <1>7, <1>8, <1>9, <1>10, <1>11, <1>12,
     <1>13, <1>14, <1>15, <1>16, <1>17, <1>18
     DEF Next, Application, VtestThread, WatcherThread, ReaderThread,
         MessageThread, RingThread, ProgressThread

\* Acknowledgements join the link in order, and leave it one at a time.
LEMMA AcksStep ==
    TypeOK /\ TypeOK' /\ Cursors /\ Acks /\ Replies /\ [Next]_vars => Acks'
<1> SUFFICES ASSUME TypeOK, TypeOK', Cursors, Acks, Replies, [Next]_vars
             PROVE  Acks'
  OBVIOUS
<1>t. /\ s2c \in Seq(S2CMessage) /\ consumed \in Nat /\ reported \in Nat
      /\ \A i \in 1 .. Len(s2c) : IsAck(s2c[i]) => s2c[i].tail \in Nat
  BY LinkTypes DEF TypeOK
<1>1. CASE ReadReplyData
  <2>1. s2c # << >> /\ s2c' = Tail(s2c) /\ UNCHANGED <<consumed, reported>>
    BY <1>1 DEF ReadReplyData, progressVars, progressThreadVars
  <2>2. /\ Len(s2c') = Len(s2c) - 1
        /\ \A i \in 1 .. Len(s2c') : s2c'[i] = s2c[i + 1]
    BY <2>1, <1>t, TailIs
  <2>3. ASSUME NEW i \in 1 .. Len(s2c'), IsAck(s2c'[i])
        PROVE  consumed' <= s2c'[i].tail /\ s2c'[i].tail <= reported'
    <3>1. i + 1 \in 1 .. Len(s2c)
      BY <2>2, <1>t
    <3>2. QED
      BY <2>1, <2>2, <2>3, <3>1 DEF Acks
  <2>4. ASSUME NEW i \in 1 .. Len(s2c'), NEW j \in 1 .. Len(s2c'),
               i < j, IsAck(s2c'[i]), IsAck(s2c'[j])
        PROVE  s2c'[i].tail <= s2c'[j].tail
    <3>1. i + 1 \in 1 .. Len(s2c) /\ j + 1 \in 1 .. Len(s2c) /\ i + 1 < j + 1
      BY <2>2, <2>4, <1>t
    <3>2. QED
      BY <2>2, <2>4, <3>1 DEF Acks
  <2>5. QED
    BY <2>3, <2>4 DEF Acks
<1>2. CASE ReadRingProgress
  <2>1. IsAck(s2c[1]) /\ Head(s2c) = s2c[1] /\ 1 \in 1 .. Len(s2c)
    BY <1>2, <1>t, TailIs DEF ReadRingProgress, IsAck
  <2>2. consumed' = consumed \/ consumed' = s2c[1].tail
    BY <1>2, <2>1 DEF ReadRingProgress
  <2>3. \A i \in 1 .. Len(s2c) :
           IsAck(s2c[i]) => consumed' <= s2c[i].tail /\ s2c[i].tail <= reported
    BY <2>1, <2>2, <1>t DEF Acks
  <2>4. reported' = reported /\ s2c' = Tail(s2c)
    BY <1>2 DEF ReadRingProgress, progressThreadVars
  <2>5. \A i \in 1 .. Len(s2c') :
           IsAck(s2c'[i]) => consumed' <= s2c'[i].tail /\ s2c'[i].tail <= reported'
    BY <2>1, <2>3, <2>4, <1>t, TailIs
  <2>6. \A i, j \in 1 .. Len(s2c') :
           i < j /\ IsAck(s2c'[i]) /\ IsAck(s2c'[j]) => s2c'[i].tail <= s2c'[j].tail
    <3>1. /\ Len(s2c') = Len(s2c) - 1
          /\ \A i \in 1 .. Len(s2c') : s2c'[i] = s2c[i + 1]
      BY <1>2, <2>4, <1>t, TailIs DEF ReadRingProgress
    <3>2. TAKE i, j \in 1 .. Len(s2c')
    <3>3. i + 1 \in 1 .. Len(s2c) /\ j + 1 \in 1 .. Len(s2c) /\ (i < j => i + 1 < j + 1)
      BY <3>1, <1>t
    <3>4. QED
      BY <3>1, <3>3, <1>t DEF Acks
  <2>7. QED
    BY <2>5, <2>6 DEF Acks
<1>3. CASE TakeRingProgress
  <2>1. reported <= reported' /\ reported' \in Nat
    BY <1>3 DEF TakeRingProgress, Cursors, TypeOK
  <2>2. s2c' = s2c /\ consumed' = consumed
    BY <1>3 DEF TakeRingProgress, progressVars
  <2>3. QED
    BY <2>1, <2>2, <1>t DEF Acks
<1>4. CASE ShipVenus
  <2>1. venus = << >> \/ venus = << ReplyData(srepShadow) >>
    BY <1>4 DEF ShipVenus, Replies
  <2>2. UNCHANGED <<consumed, reported>>
    BY <1>4 DEF ShipVenus, progressVars
  <2>3. CASE venus = << >>
    <3>1. s2c' = s2c
      BY <1>4, <2>3, <1>t DEF ShipVenus
    <3>2. QED
      BY <3>1, <2>2 DEF Acks
  <2>4. CASE venus = << ReplyData(srepShadow) >>
    <3>1. /\ s2c' = Append(s2c, ReplyData(srepShadow))
          /\ ReplyData(srepShadow) \in S2CMessage
          /\ ~IsAck(ReplyData(srepShadow))
      BY <1>4, <2>4, <1>t, MessageTypes DEF ShipVenus, ReplyData, IsAck, TypeOK
    <3>2. QED
      BY <3>1, <2>2, <1>t, AppendIs DEF Acks
  <2>5. QED
    BY <2>1, <2>3, <2>4
<1>5. CASE ShipProgress
  <2>1. /\ s2c' = Append(s2c, RingProgress(reported))
        /\ RingProgress(reported) \in S2CMessage
        /\ RingProgress(reported).tail = reported
        /\ UNCHANGED <<consumed, reported>>
        /\ consumed <= reported
    BY <1>5, <1>t, MessageTypes
       DEF ShipProgress, RingProgress, progressVars, Cursors
  <2>2. \A i \in 1 .. Len(s2c') :
           IsAck(s2c'[i]) => consumed' <= s2c'[i].tail /\ s2c'[i].tail <= reported'
    BY <2>1, <1>t, AppendIs DEF Acks
  <2>3. \A i, j \in 1 .. Len(s2c') :
           i < j /\ IsAck(s2c'[i]) /\ IsAck(s2c'[j]) => s2c'[i].tail <= s2c'[j].tail
    BY <2>1, <1>t, AppendIs DEF Acks
  <2>4. QED
    BY <2>2, <2>3 DEF Acks
<1>6. CASE UNCHANGED <<s2c, consumed, reported>>
  BY <1>6 DEF Acks
<1> QED
  BY <1>1, <1>2, <1>3, <1>4, <1>5, <1>6
     DEF Next, Application, VtestThread, WatcherThread, ReaderThread,
         MessageThread, RingThread, ProgressThread,
         AppIssue, AppWrite, AppInline, FlushTarget, SubmitFlushed,
         SubmitTimedOut, TakeDelta, NoteRelayed, MessagesForDelta, ShipMessage,
         NoteShipped, ReadProgress, AdvanceHead, ApplyBlobData, ReceiveDelta, PublishTail,
         ApplySubmitCmd, Dispatch, StoreHead, TakeVenusBlobWrites,
         vars, progressVars, progressThreadVars

\* Two links that hold the same messages are the same link.
LEMMA SameMessages ==
    ASSUME NEW S, NEW s \in Seq(S), NEW t \in Seq(S), Len(s) = Len(t),
           \A i \in 1 .. Len(s) : s[i] = t[i]
    PROVE  s = t
  OBVIOUS

\* A batch is the ring's delta, or a blob's and then the ring's.
LEMMA ShortBatches ==
    ASSUME NEW S, NEW x \in S, NEW y \in S
    PROVE  Append(<< >>, y) = << y >> /\ Append(<< x >>, y) = << x, y >>
<1>1. Append(<< >>, y) = << y >>
  OBVIOUS
<1> DEFINE l == Append(<< x >>, y)
           r == << x, y >>
<1>2. l \in Seq(S) /\ Len(l) = 2 /\ l[1] = x /\ l[2] = y
  OBVIOUS
<1>3. r \in Seq(S) /\ Len(r) = 2 /\ r[1] = x /\ r[2] = y
  OBVIOUS
<1> HIDE DEF l, r
<1>4. l = r
  BY <1>2, <1>3, SameMessages
<1> QED
  BY <1>1, <1>4 DEF l, r

\* The watcher's bookkeeping: what it holds is what it has taken and not yet
\* sent, and never more than the ring holds.
LEMMA WatcherStep ==
    TypeOK /\ Cursors /\ Watcher /\ [Next]_vars => Watcher'
<1> SUFFICES ASSUME TypeOK, Cursors, Watcher, [Next]_vars
             PROVE  Watcher'
  OBVIOUS
<1>1. CASE TakeDelta
  <2>1. Len(Drained(tail)) = tail - lastTail /\ tail - lastTail \in 1 .. BufSize
    <3>1. Len(Drained(tail)) = tail - lastTail
      BY DrainedType DEF Cursors
    <3>2. /\ tail \in Nat /\ head \in Nat /\ lastTail \in Nat /\ BufSize \in Nat
          /\ lastTail <= tail /\ tail # lastTail
          /\ head <= lastTail /\ tail <= head + BufSize
      BY <1>1, RingAssumption DEF TakeDelta, Cursors, TypeOK
    <3>3. QED
      BY <3>1, <3>2
  <2>2. /\ sent' = lastTail
        /\ wpc' = "relay" /\ delta' = Drained(tail) /\ lastTail' = tail
    BY <1>1 DEF TakeDelta, Watcher, progressVars
  <2>3. tail - (tail - lastTail) = lastTail
    BY DEF TypeOK
  <2>4. Len(delta') \in 1 .. BufSize /\ lastTail' - Len(delta') = sent'
    BY <2>1, <2>2, <2>3
  <2>5. QED
    BY <2>2, <2>4 DEF Watcher
<1>2. CASE NoteRelayed
  BY <1>2 DEF NoteRelayed, Watcher
<1>3. CASE MessagesForDelta
  <2>1. \/ batch' = << RingDelta(lastTail, delta) >>
        \/ batch' = << BlobData(appMem), RingDelta(lastTail, delta) >>
    <3>1. BlobData(appMem) \in C2SMessage /\ RingDelta(lastTail, delta) \in C2SMessage
      BY MessageTypes DEF TypeOK
    <3>2. QED
      BY <1>3, <3>1, ShortBatches DEF MessagesForDelta, ChangedRuns
  <2>2. QED
    BY <1>3, <2>1 DEF MessagesForDelta, Watcher, progressVars
<1>4. CASE ShipMessage \/ NoteShipped
  <2>1. CASE ShipMessage
    BY <2>1, ShipSends DEF ShipMessage, Watcher
  <2>2. CASE NoteShipped
    BY <2>2 DEF NoteShipped, Watcher
  <2>3. QED
    BY <1>4, <2>1, <2>2
<1>5. CASE ReadProgress
  BY <1>5 DEF ReadProgress, Watcher, progressVars
<1>6. CASE AdvanceHead
  BY <1>6 DEF AdvanceHead, Watcher, progressVars
<1>7. CASE UNCHANGED <<wpc, lastTail, delta, batch, base, relayed, sent>>
  BY <1>7 DEF Watcher
<1> QED
  BY <1>1, <1>2, <1>3, <1>4, <1>5, <1>6, <1>7
     DEF Next, Application, VtestThread, WatcherThread, ReaderThread,
         MessageThread, RingThread, ProgressThread,
         AppIssue, AppWrite, AppInline, FlushTarget, SubmitFlushed,
         SubmitTimedOut, ReadReplyData, ReadRingProgress, ApplyBlobData,
         ReceiveDelta, PublishTail, ApplySubmitCmd, Dispatch, StoreHead,
         TakeRingProgress, TakeVenusBlobWrites, ShipVenus, ShipProgress,
         vars, watcherVars, progressVars

\* A message that is no delta joins the link without disturbing the chain.
LEMMA JoinedPush ==
    ASSUME NEW link \in Seq(C2SMessage), NEW lo \in Nat, NEW hi \in Nat,
           Joined(link, lo, hi),
           NEW m \in C2SMessage, ~IsDelta(m)
    PROVE  Joined(Append(link, m), lo, hi)
<1> DEFINE new == Append(link, m)
<1>1. /\ Len(new) = Len(link) + 1 /\ Len(link) \in Nat
      /\ new[Len(link) + 1] = m
      /\ \A i \in 1 .. Len(link) : new[i] = link[i]
  BY AppendIs
<1> HIDE DEF new
<1>2. ASSUME NEW i \in 1 .. Len(new), IsDelta(new[i])
      PROVE  /\ i \in 1 .. Len(link) /\ new[i] = link[i]
             /\ Len(new[i].cmds) \in 1 .. BufSize /\ new[i].tail <= hi
             /\ lo <= From(new[i])
             /\ \/ lo = From(new[i])
                \/ \E j \in 1 .. i - 1 : IsDelta(new[j]) /\ new[j].tail = From(new[i])
  <2>1. i \in 1 .. Len(link) /\ new[i] = link[i]
    BY <1>1, <1>2
  <2>2. \A j \in 1 .. i - 1 : j \in 1 .. Len(link) /\ new[j] = link[j]
    BY <1>1, <2>1
  <2>3. QED
    BY <1>2, <2>1, <2>2 DEF Joined
<1>3. \A i, j \in 1 .. Len(new) :
        i < j /\ IsDelta(new[i]) /\ IsDelta(new[j]) => new[i].tail <= From(new[j])
  BY <1>2 DEF Joined
<1>4. \/ hi = lo
      \/ \E i \in 1 .. Len(new) : IsDelta(new[i]) /\ new[i].tail = hi
  BY <1>1 DEF Joined
<1>5. Joined(new, lo, hi)
  BY <1>2, <1>3, <1>4 DEF Joined
<1> QED
  BY <1>5 DEF new

\* A delta that starts where the chain ends makes it longer.
LEMMA JoinedPushDelta ==
    ASSUME NEW link \in Seq(C2SMessage), NEW lo \in Nat, NEW hi \in Nat, lo <= hi,
           Joined(link, lo, hi),
           NEW m \in C2SMessage, IsDelta(m), From(m) = hi,
           Len(m.cmds) \in 1 .. BufSize
    PROVE  Joined(Append(link, m), lo, m.tail)
<1> DEFINE new == Append(link, m)
<1>1. /\ Len(new) = Len(link) + 1 /\ Len(link) \in Nat
      /\ new[Len(link) + 1] = m
      /\ \A i \in 1 .. Len(link) : new[i] = link[i]
  BY AppendIs
<1> HIDE DEF new
<1>2. m.tail \in Nat /\ hi <= m.tail
  BY DeltaCarries, RingAssumption DEF From
<1>3. \A i \in 1 .. Len(link) : IsDelta(link[i]) => link[i].tail \in Nat
  <2> SUFFICES ASSUME NEW i \in 1 .. Len(link), IsDelta(link[i])
               PROVE  link[i].tail \in Nat
    OBVIOUS
  <2>1. link[i] \in C2SMessage
    OBVIOUS
  <2> QED
    BY <2>1, DeltaCarries
<1>4. ASSUME NEW i \in 1 .. Len(new), IsDelta(new[i])
      PROVE  /\ Len(new[i].cmds) \in 1 .. BufSize /\ new[i].tail <= m.tail
             /\ lo <= From(new[i])
             /\ \/ lo = From(new[i])
                \/ \E j \in 1 .. i - 1 : IsDelta(new[j]) /\ new[j].tail = From(new[i])
  <2>1. CASE i \in 1 .. Len(link)
    <3>1. new[i] = link[i] /\ \A j \in 1 .. i - 1 : j \in 1 .. Len(link) /\ new[j] = link[j]
      BY <1>1, <2>1
    <3>2. new[i].tail <= hi /\ new[i].tail \in Nat
      BY <1>3, <1>4, <2>1, <3>1 DEF Joined
    <3>3. new[i].tail <= m.tail
      BY <1>2, <3>2
    <3>4. QED
      BY <1>4, <2>1, <3>1, <3>3 DEF Joined
  <2>2. CASE i = Len(link) + 1
    <3>1. new[i] = m
      BY <1>1, <2>2
    <3>2. CASE hi = lo
      BY <1>2, <3>1, <3>2
    <3>3. CASE \E j \in 1 .. Len(link) : IsDelta(link[j]) /\ link[j].tail = hi
      BY <1>1, <1>2, <2>2, <3>1, <3>3
    <3>4. QED
      BY <3>2, <3>3 DEF Joined
  <2>3. QED
    BY <1>1, <2>1, <2>2
<1>5. ASSUME NEW i \in 1 .. Len(new), NEW j \in 1 .. Len(new),
             i < j, IsDelta(new[i]), IsDelta(new[j])
      PROVE  new[i].tail <= From(new[j])
  <2>1. i \in 1 .. Len(link) /\ new[i] = link[i]
    BY <1>1, <1>5
  <2>2. CASE j \in 1 .. Len(link)
    BY <1>1, <1>5, <2>1, <2>2 DEF Joined
  <2>3. CASE j = Len(link) + 1
    BY <1>1, <1>5, <2>1, <2>3 DEF Joined
  <2>4. QED
    BY <1>1, <2>2, <2>3
<1>6. \E i \in 1 .. Len(new) : IsDelta(new[i]) /\ new[i].tail = m.tail
  BY <1>1
<1>7. Joined(new, lo, m.tail)
  BY <1>4, <1>5, <1>6 DEF Joined
<1> QED
  BY <1>7 DEF new

\* Taking a message that is no delta off the link leaves the chain.
LEMMA JoinedPop ==
    ASSUME NEW link \in Seq(C2SMessage), NEW lo \in Nat, NEW hi \in Nat,
           Joined(link, lo, hi), link # << >>, ~IsDelta(link[1])
    PROVE  Joined(Tail(link), lo, hi)
<1> DEFINE new == Tail(link)
<1>1. /\ Len(new) = Len(link) - 1 /\ Len(link) \in Nat
      /\ \A i \in 1 .. Len(new) : new[i] = link[i + 1]
  BY TailIs
<1> HIDE DEF new
<1>2. \A i \in 1 .. Len(new) : i + 1 \in 1 .. Len(link)
  BY <1>1
<1>3. ASSUME NEW i \in 1 .. Len(new), IsDelta(new[i])
      PROVE  /\ Len(new[i].cmds) \in 1 .. BufSize /\ new[i].tail <= hi
             /\ lo <= From(new[i])
             /\ \/ lo = From(new[i])
                \/ \E j \in 1 .. i - 1 : IsDelta(new[j]) /\ new[j].tail = From(new[i])
  <2>1. new[i] = link[i + 1] /\ i + 1 \in 1 .. Len(link)
    BY <1>1, <1>2
  <2>2. ASSUME NEW j \in 1 .. (i + 1) - 1, IsDelta(link[j]), link[j].tail = From(link[i + 1])
        PROVE  \E k \in 1 .. i - 1 : IsDelta(new[k]) /\ new[k].tail = From(new[i])
    <3>1. j # 1
      BY <2>2
    <3>2. j - 1 \in 1 .. i - 1 /\ new[j - 1] = link[j]
      BY <1>1, <3>1
    <3>3. QED
      BY <2>1, <2>2, <3>2
  <2>3. QED
    BY <1>3, <2>1, <2>2 DEF Joined
<1>4. ASSUME NEW i \in 1 .. Len(new), NEW j \in 1 .. Len(new),
             i < j, IsDelta(new[i]), IsDelta(new[j])
      PROVE  new[i].tail <= From(new[j])
  <2>1. i + 1 \in 1 .. Len(link) /\ j + 1 \in 1 .. Len(link) /\ i + 1 < j + 1
    BY <1>2, <1>4
  <2>2. QED
    BY <1>1, <1>4, <2>1 DEF Joined
<1>5. \/ hi = lo
      \/ \E i \in 1 .. Len(new) : IsDelta(new[i]) /\ new[i].tail = hi
  <2>1. ASSUME NEW i \in 1 .. Len(link), IsDelta(link[i]), link[i].tail = hi
        PROVE  \E k \in 1 .. Len(new) : IsDelta(new[k]) /\ new[k].tail = hi
    <3>1. i # 1
      BY <2>1
    <3>2. i - 1 \in 1 .. Len(new) /\ new[i - 1] = link[i]
      BY <1>1, <3>1
    <3>3. QED
      BY <2>1, <3>2
  <2>2. QED
    BY <2>1 DEF Joined
<1>6. Joined(new, lo, hi)
  BY <1>3, <1>4, <1>5 DEF Joined
<1> QED
  BY <1>6 DEF new

\* Taking the first delta off the link moves the chain's start to its end.
LEMMA JoinedPopDelta ==
    ASSUME NEW link \in Seq(C2SMessage), NEW lo \in Nat, NEW hi \in Nat,
           Joined(link, lo, hi), link # << >>, IsDelta(link[1])
    PROVE  Joined(Tail(link), link[1].tail, hi)
<1> DEFINE new == Tail(link)
<1>1. /\ Len(new) = Len(link) - 1 /\ Len(link) \in Nat \ {0}
      /\ \A i \in 1 .. Len(new) : new[i] = link[i + 1]
  BY TailIs
<1> HIDE DEF new
<1>2. \A i \in 1 .. Len(new) : i + 1 \in 1 .. Len(link) /\ 1 < i + 1
  BY <1>1
<1>3. ASSUME NEW i \in 1 .. Len(new), IsDelta(new[i])
      PROVE  /\ Len(new[i].cmds) \in 1 .. BufSize /\ new[i].tail <= hi
             /\ link[1].tail <= From(new[i])
             /\ \/ link[1].tail = From(new[i])
                \/ \E j \in 1 .. i - 1 : IsDelta(new[j]) /\ new[j].tail = From(new[i])
  <2>1. new[i] = link[i + 1] /\ i + 1 \in 1 .. Len(link) /\ 1 < i + 1
    BY <1>1, <1>2
  <2>2. link[1].tail <= From(new[i])
    BY <1>1, <1>3, <2>1 DEF Joined
  <2>3. ASSUME NEW j \in 1 .. (i + 1) - 1, IsDelta(link[j]), link[j].tail = From(link[i + 1])
        PROVE  \/ link[1].tail = From(new[i])
               \/ \E k \in 1 .. i - 1 : IsDelta(new[k]) /\ new[k].tail = From(new[i])
    <3>1. CASE j = 1
      BY <2>1, <2>3, <3>1
    <3>2. CASE j # 1
      <4>1. j - 1 \in 1 .. i - 1 /\ new[j - 1] = link[j]
        BY <1>1, <3>2
      <4>2. QED
        BY <2>1, <2>3, <4>1
    <3>3. QED
      BY <3>1, <3>2
  <2>4. ASSUME lo = From(link[i + 1])
        PROVE  link[1].tail = From(new[i])
    <3>1. /\ lo <= From(link[1])
          /\ From(link[1]) = link[1].tail - Len(link[1].cmds)
          /\ Len(link[1].cmds) \in 1 .. BufSize
      BY <1>1 DEF Joined, From
    <3>2. link[1] \in C2SMessage
      BY <1>1
    <3>3. link[1].tail \in Nat
      BY <3>2, DeltaCarries
    <3>4. QED
      BY <2>1, <2>2, <2>4, <3>1, <3>3, RingAssumption
  <2>5. QED
    BY <1>3, <2>1, <2>2, <2>3, <2>4 DEF Joined
<1>4. ASSUME NEW i \in 1 .. Len(new), NEW j \in 1 .. Len(new),
             i < j, IsDelta(new[i]), IsDelta(new[j])
      PROVE  new[i].tail <= From(new[j])
  <2>1. i + 1 \in 1 .. Len(link) /\ j + 1 \in 1 .. Len(link) /\ i + 1 < j + 1
    BY <1>2, <1>4
  <2>2. QED
    BY <1>1, <1>4, <2>1 DEF Joined
<1>5. \/ hi = link[1].tail
      \/ \E i \in 1 .. Len(new) : IsDelta(new[i]) /\ new[i].tail = hi
  <2>1. ASSUME NEW i \in 1 .. Len(link), IsDelta(link[i]), link[i].tail = hi
        PROVE  \/ hi = link[1].tail
               \/ \E k \in 1 .. Len(new) : IsDelta(new[k]) /\ new[k].tail = hi
    <3>1. CASE i = 1
      BY <2>1, <3>1
    <3>2. CASE i # 1
      <4>1. i - 1 \in 1 .. Len(new) /\ new[i - 1] = link[i]
        BY <1>1, <3>2
      <4>2. QED
        BY <2>1, <4>1
    <3>3. QED
      BY <3>1, <3>2
  <2>2. hi # lo
    <3>1. /\ lo <= From(link[1])
          /\ From(link[1]) = link[1].tail - Len(link[1].cmds)
          /\ Len(link[1].cmds) \in 1 .. BufSize
          /\ link[1].tail <= hi
      BY <1>1 DEF Joined, From
    <3>2. link[1] \in C2SMessage
      BY <1>1
    <3>3. link[1].tail \in Nat
      BY <3>2, DeltaCarries
    <3>4. QED
      BY <3>1, <3>3, RingAssumption
  <2>3. QED
    BY <2>1, <2>2 DEF Joined
<1>6. Joined(new, link[1].tail, hi)
  BY <1>3, <1>4, <1>5 DEF Joined
<1> QED
  BY <1>6 DEF new

\* The link keeps the deltas joined whatever travels between them.
LEMMA ChainStep ==
    TypeOK /\ Cursors /\ Watcher /\ Chain /\ [Next]_vars => Chain'
<1> SUFFICES ASSUME TypeOK, Cursors, Watcher, Chain, [Next]_vars
             PROVE  Chain'
  OBVIOUS
<1>t. /\ c2s \in Seq(C2SMessage) /\ applied \in Nat /\ sent \in Nat
      /\ vAfter \in Nat /\ base \in Nat /\ lastTail \in Nat /\ delta \in Seq(Slot)
      /\ applied <= sent
  BY DEF TypeOK, Cursors
<1>j. Joined(c2s, applied, sent)
  BY DEF Chain
<1>1. CASE SubmitFlushed \/ SubmitTimedOut
  <2>1. PICK m \in C2SMessage : ~IsDelta(m) /\ c2s' = Append(c2s, m)
    <3>1. /\ SubmitCmd(vAfter, TRUE) \in C2SMessage /\ ~IsDelta(SubmitCmd(vAfter, TRUE))
          /\ SubmitCmd(vAfter, FALSE) \in C2SMessage /\ ~IsDelta(SubmitCmd(vAfter, FALSE))
      BY <1>t DEF SubmitCmd, C2SMessage, IsDelta
    <3>2. QED
      BY <1>1, <3>1 DEF SubmitFlushed, SubmitTimedOut
  <2>2. UNCHANGED <<spc, applied, sent>>
    BY <1>1 DEF SubmitFlushed, SubmitTimedOut, messageVars, progressVars
  <2>3. Joined(c2s', applied', sent')
    BY <1>t, <1>j, <2>1, <2>2, JoinedPush
  <2>4. spc' = "publish" => c2s' # << >> /\ IsDelta(c2s'[1])
    BY <1>t, <2>1, <2>2, AppendIs DEF Chain
  <2>5. QED
    BY <2>3, <2>4 DEF Chain
<1>2. CASE ShipMessage
  <2> DEFINE d == RingDelta(lastTail, delta)
             b == BlobData(base)
  <2>1. /\ d \in C2SMessage /\ IsDelta(d) /\ d.tail = lastTail /\ d.cmds = delta
        /\ b \in C2SMessage /\ ~IsDelta(b)
    BY <1>t, MessageTypes DEF RingDelta, BlobData, IsDelta
  <2>2. /\ From(d) = sent /\ Len(d.cmds) \in 1 .. BufSize
        /\ UNCHANGED <<spc, applied>>
    BY <1>2, <2>1 DEF ShipMessage, Watcher, From, messageVars
  <2>3. \/ c2s' = Append(c2s, b) /\ sent' = sent
        \/ c2s' = Append(c2s, d) /\ sent' = d.tail
    BY <1>2, <2>1, ShipSends
  <2> HIDE DEF d, b
  <2>4. Joined(c2s', applied', sent')
    <3>1. CASE c2s' = Append(c2s, b) /\ sent' = sent
      BY <1>t, <1>j, <2>1, <2>2, <3>1, JoinedPush
    <3>2. CASE c2s' = Append(c2s, d) /\ sent' = d.tail
      BY <1>t, <1>j, <2>1, <2>2, <3>2, JoinedPushDelta
    <3>3. QED
      BY <2>3, <3>1, <3>2
  <2>5. spc' = "publish" => c2s' # << >> /\ IsDelta(c2s'[1])
    BY <1>t, <2>1, <2>2, <2>3, AppendIs DEF Chain
  <2>6. QED
    BY <2>4, <2>5 DEF Chain
<1>3. CASE ApplyBlobData \/ ApplySubmitCmd
  <2>1. /\ c2s # << >> /\ Head(c2s) = c2s[1] /\ ~IsDelta(c2s[1])
        /\ c2s' = Tail(c2s) /\ spc' # "publish" /\ UNCHANGED <<applied, sent>>
    BY <1>3, <1>t, TailIs
       DEF ApplyBlobData, ApplySubmitCmd, IsDelta, messageVars, progressVars
  <2>2. QED
    BY <1>t, <1>j, <2>1, JoinedPop DEF Chain
<1>4. CASE ReceiveDelta
  <2>1. c2s # << >> /\ Head(c2s) = c2s[1] /\ IsDelta(c2s[1])
    BY <1>4, <1>t, TailIs DEF ReceiveDelta, IsDelta
  <2>2. DeltaFits(Head(c2s))
    BY <2>1, FrontDelta DEF DeltaFits
  <2>3. c2s' = c2s /\ UNCHANGED <<applied, sent>>
    BY <1>4, <2>2 DEF ReceiveDelta, progressVars
  <2>4. QED
    BY <2>1, <2>3, <1>j DEF Chain
<1>5. CASE PublishTail
  <2>1. /\ c2s # << >> /\ Head(c2s) = c2s[1] /\ IsDelta(c2s[1])
        /\ c2s' = Tail(c2s) /\ spc' = "recv"
        /\ applied' = c2s[1].tail /\ sent' = sent
    BY <1>5, <1>t, TailIs DEF PublishTail, Chain, progressVars
  <2>2. QED
    BY <1>t, <1>j, <2>1, JoinedPopDelta DEF Chain
<1>6. CASE UNCHANGED <<c2s, spc, applied, sent>>
  BY <1>6 DEF Chain
<1> QED
  BY <1>1, <1>2, <1>3, <1>4, <1>5, <1>6
     DEF Next, Application, VtestThread, WatcherThread, ReaderThread,
         MessageThread, RingThread, ProgressThread,
         AppIssue, AppWrite, AppInline, FlushTarget, TakeDelta, NoteRelayed,
         MessagesForDelta, NoteShipped, ReadProgress, AdvanceHead, ReadReplyData,
         ReadRingProgress, Dispatch, StoreHead, TakeRingProgress,
         TakeVenusBlobWrites, ShipVenus, ShipProgress,
         vars, messageVars, progressVars

\* An inline command may join the link once the deltas it depends on are on it.
LEMMA BehindPush ==
    ASSUME NEW link \in Seq(C2SMessage), NEW lo \in Nat, Behind(link, lo),
           NEW m \in C2SMessage,
           Ordered(m) =>
             \/ m.after <= lo
             \/ \E j \in 1 .. Len(link) : IsDelta(link[j]) /\ m.after <= link[j].tail
    PROVE  Behind(Append(link, m), lo)
<1> DEFINE new == Append(link, m)
<1>1. /\ Len(new) = Len(link) + 1 /\ Len(link) \in Nat
      /\ new[Len(link) + 1] = m
      /\ \A i \in 1 .. Len(link) : new[i] = link[i]
  BY AppendIs
<1> HIDE DEF new
<1>2. ASSUME NEW i \in 1 .. Len(new), Ordered(new[i])
      PROVE  \/ new[i].after <= lo
             \/ \E j \in 1 .. i - 1 : IsDelta(new[j]) /\ new[i].after <= new[j].tail
  <2>1. \A j \in 1 .. i - 1 : j \in 1 .. Len(link) /\ new[j] = link[j]
    BY <1>1
  <2>2. CASE i \in 1 .. Len(link)
    BY <1>1, <1>2, <2>1, <2>2 DEF Behind
  <2>3. CASE i = Len(link) + 1
    <3>1. new[i] = m /\ i - 1 = Len(link)
      BY <1>1, <2>3
    <3>2. QED
      BY <1>1, <1>2, <3>1
  <2>4. QED
    BY <1>1, <2>2, <2>3
<1>3. Behind(new, lo)
  BY <1>2 DEF Behind
<1> QED
  BY <1>3 DEF new

\* Taking a message off the link leaves the others behind what they depend on.
LEMMA BehindPop ==
    ASSUME NEW link \in Seq(C2SMessage), NEW lo \in Nat, NEW new_lo \in Nat,
           Behind(link, lo), link # << >>, lo <= new_lo,
           IsDelta(link[1]) => link[1].tail <= new_lo
    PROVE  Behind(Tail(link), new_lo)
<1> DEFINE new == Tail(link)
<1>1. /\ Len(new) = Len(link) - 1 /\ Len(link) \in Nat \ {0}
      /\ \A i \in 1 .. Len(new) : new[i] = link[i + 1]
  BY TailIs
<1> HIDE DEF new
<1>2. ASSUME NEW i \in 1 .. Len(new), Ordered(new[i])
      PROVE  \/ new[i].after <= new_lo
             \/ \E j \in 1 .. i - 1 : IsDelta(new[j]) /\ new[i].after <= new[j].tail
  <2>1. new[i] = link[i + 1] /\ i + 1 \in 1 .. Len(link)
    BY <1>1
  <2>2. link[i + 1] \in C2SMessage
    BY <2>1
  <2>3. link[i + 1].after \in Nat
    BY <1>2, <2>1, <2>2, InlineCarries DEF Ordered
  <2>4. ASSUME NEW j \in 1 .. (i + 1) - 1, IsDelta(link[j]), link[i + 1].after <= link[j].tail
        PROVE  \/ new[i].after <= new_lo
               \/ \E k \in 1 .. i - 1 : IsDelta(new[k]) /\ new[i].after <= new[k].tail
    <3>1. CASE j = 1
      <4>1. link[1] \in C2SMessage
        BY <1>1
      <4>2. link[1].tail \in Nat
        BY <2>4, <3>1, <4>1, DeltaCarries
      <4>3. QED
        BY <2>1, <2>3, <2>4, <3>1, <4>2
    <3>2. CASE j # 1
      <4>1. j - 1 \in 1 .. i - 1 /\ new[j - 1] = link[j]
        BY <1>1, <3>2
      <4>2. QED
        BY <2>1, <2>4, <4>1
    <3>3. QED
      BY <3>1, <3>2
  <2>5. ASSUME link[i + 1].after <= lo
        PROVE  new[i].after <= new_lo
    BY <2>1, <2>3, <2>5
  <2>6. QED
    BY <1>2, <2>1, <2>4, <2>5 DEF Behind
<1>3. Behind(new, new_lo)
  BY <1>2 DEF Behind
<1> QED
  BY <1>3 DEF new

\* Inline commands stay behind the deltas they depend on.
LEMMA InlineStep ==
    TypeOK /\ Cursors /\ Watcher /\ Chain /\ Inline /\ [Next]_vars => Inline'
<1> SUFFICES ASSUME TypeOK, Cursors, Watcher, Chain, Inline, [Next]_vars
             PROVE  Inline'
  OBVIOUS
<1>t. /\ c2s \in Seq(C2SMessage) /\ applied \in Nat /\ sent \in Nat
      /\ vAfter \in Nat /\ vTarget \in Nat /\ tail \in Nat /\ base \in Nat
      /\ lastTail \in Nat /\ delta \in Seq(Slot) /\ applied <= sent
      /\ shipped \in Nat /\ shipped <= sent
  BY RingAssumption DEF TypeOK, Cursors
<1>b. Behind(c2s, applied) /\ vAfter <= tail /\ (vpc = "wait" => vAfter <= vTarget)
  BY DEF Inline
<1>1. CASE AppIssue
  <2>1. tail' = tail + 1 /\ UNCHANGED <<c2s, applied, vpc, vAfter, vTarget>>
    BY <1>1 DEF AppIssue, vtestVars, messageVars
  <2>2. QED
    BY <1>t, <1>b, <2>1 DEF Inline
<1>2. CASE AppInline
  BY <1>2, <1>t, <1>b DEF AppInline, Inline, messageVars
<1>3. CASE FlushTarget
  BY <1>3, <1>t, <1>b DEF FlushTarget, Inline, appVars, messageVars
<1>4. CASE SubmitFlushed
  <2> DEFINE m == SubmitCmd(vAfter, TRUE)
  <2>1. m \in C2SMessage /\ m.after = vAfter
    BY <1>t DEF SubmitCmd, C2SMessage
  <2>2. /\ c2s' = Append(c2s, m) /\ vpc' = "idle"
        /\ vAfter <= sent /\ UNCHANGED <<applied, vAfter, tail>>
    BY <1>4, <1>t, <1>b DEF SubmitFlushed, Flushed, messageVars, appVars
  <2> HIDE DEF m
  <2>3. \/ m.after <= applied
        \/ \E j \in 1 .. Len(c2s) : IsDelta(c2s[j]) /\ m.after <= c2s[j].tail
    BY <1>t, <2>1, <2>2 DEF Chain, Joined
  <2>4. Behind(c2s', applied')
    BY <1>t, <1>b, <2>1, <2>2, <2>3, BehindPush
  <2>5. QED
    BY <1>b, <2>2, <2>4 DEF Inline
<1>5. CASE SubmitTimedOut
  <2> DEFINE m == SubmitCmd(vAfter, FALSE)
  <2>1. m \in C2SMessage /\ ~Ordered(m)
    BY <1>t DEF SubmitCmd, C2SMessage, Ordered
  <2>2. /\ c2s' = Append(c2s, m) /\ vpc' = "idle"
        /\ UNCHANGED <<applied, vAfter, tail>>
    BY <1>5 DEF SubmitTimedOut, messageVars, appVars
  <2> HIDE DEF m
  <2>3. Behind(c2s', applied')
    BY <1>t, <1>b, <2>1, <2>2, BehindPush
  <2>4. QED
    BY <1>b, <2>2, <2>3 DEF Inline
<1>6. CASE ShipMessage
  <2>1. PICK m \in C2SMessage : ~Ordered(m) /\ c2s' = Append(c2s, m)
    <3>1. /\ RingDelta(lastTail, delta) \in C2SMessage /\ BlobData(base) \in C2SMessage
          /\ ~Ordered(RingDelta(lastTail, delta)) /\ ~Ordered(BlobData(base))
      BY <1>t, MessageTypes DEF RingDelta, BlobData, Ordered
    <3>2. QED
      BY <1>6, <3>1, ShipSends
  <2>2. UNCHANGED <<applied, tail, vpc, vAfter, vTarget>>
    BY <1>6 DEF ShipMessage, messageVars, appVars, vtestVars
  <2>3. Behind(c2s', applied')
    BY <1>t, <1>b, <2>1, <2>2, BehindPush
  <2>4. QED
    BY <1>b, <2>2, <2>3 DEF Inline
<1>7. CASE ApplyBlobData \/ ApplySubmitCmd
  <2>1. /\ c2s # << >> /\ ~IsDelta(c2s[1]) /\ c2s' = Tail(c2s)
        /\ UNCHANGED <<applied, tail, vpc, vAfter, vTarget>>
    BY <1>7, <1>t, TailIs
       DEF ApplyBlobData, ApplySubmitCmd, IsDelta, appVars, vtestVars
  <2>2. Behind(c2s', applied')
    BY <1>t, <1>b, <2>1, BehindPop
  <2>3. QED
    BY <1>b, <2>1, <2>2 DEF Inline
<1>8. CASE ReceiveDelta
  <2>1. c2s # << >> /\ IsDelta(c2s[1])
    BY <1>8, <1>t, TailIs DEF ReceiveDelta, IsDelta
  <2>2. DeltaFits(Head(c2s))
    BY <2>1, FrontDelta DEF DeltaFits
  <2>3. UNCHANGED <<c2s, applied, tail, vpc, vAfter, vTarget>>
    BY <1>8, <2>2 DEF ReceiveDelta, appVars, vtestVars
  <2>4. QED
    BY <2>3 DEF Inline
<1>9. CASE PublishTail
  <2>1. /\ c2s # << >> /\ IsDelta(c2s[1]) /\ Head(c2s) = c2s[1]
        /\ c2s' = Tail(c2s) /\ applied' = Head(c2s).tail
        /\ UNCHANGED <<tail, vpc, vAfter, vTarget>>
    BY <1>9, <1>t, TailIs DEF PublishTail, Chain, appVars, vtestVars
  <2>2. applied' \in Nat /\ applied <= applied'
    BY <2>1, FrontDelta
  <2>3. Behind(c2s', applied')
    BY <1>t, <1>b, <2>1, <2>2, BehindPop
  <2>4. QED
    BY <1>b, <2>1, <2>3 DEF Inline
<1>10. CASE UNCHANGED <<c2s, applied, tail, vpc, vAfter, vTarget>>
  BY <1>10 DEF Inline
<1> QED
  BY <1>1, <1>2, <1>3, <1>4, <1>5, <1>6, <1>7, <1>8, <1>9, <1>10
     DEF Next, Application, VtestThread, WatcherThread, ReaderThread,
         MessageThread, RingThread, ProgressThread,
         AppWrite, TakeDelta, NoteRelayed,
         MessagesForDelta, NoteShipped, ReadProgress, AdvanceHead, ReadReplyData,
         ReadRingProgress, Dispatch, StoreHead, TakeRingProgress,
         TakeVenusBlobWrites, ShipVenus, ShipProgress,
         vars, appVars, vtestVars, messageVars

\* Neither side refuses a cursor: deltas join, acknowledgements are in range.
LEMMA AcceptedStep ==
    /\ TypeOK /\ Cursors /\ Acks /\ Chain /\ NothingRefused /\ [Next]_vars
    => NothingRefused'
<1> SUFFICES ASSUME TypeOK, Cursors, Acks, Chain, NothingRefused, [Next]_vars
             PROVE  NothingRefused'
  OBVIOUS
<1>1. CASE ReadRingProgress
  <2>1. s2c # << >> /\ IsAck(s2c[1]) /\ Head(s2c) = s2c[1] /\ 1 \in 1 .. Len(s2c)
    BY <1>1, TailIs DEF ReadRingProgress, IsAck, TypeOK
  <2>2. /\ s2c[1].tail \in Nat /\ consumed \in Nat /\ reported \in Nat /\ relayed \in Nat
        /\ shead \in Nat /\ srep \in Nat /\ applied \in Nat /\ sent \in Nat
    BY <2>1, LinkTypes DEF TypeOK
  <2>3. consumed <= s2c[1].tail /\ s2c[1].tail <= reported
    BY <2>1 DEF Acks
  <2>4. reported <= relayed
    BY <2>2 DEF Cursors
  <2>5. s2c[1].tail = consumed \/ Acknowledges(s2c[1].tail)
    BY <2>2, <2>3, <2>4 DEF Acknowledges
  <2>6. QED
    BY <1>1, <2>1, <2>5 DEF ReadRingProgress, NothingRefused, messageVars
<1>2. CASE ReceiveDelta
  <2>1. c2s # << >> /\ IsDelta(c2s[1])
    BY <1>2, TailIs DEF ReceiveDelta, IsDelta, TypeOK
  <2>2. DeltaFits(Head(c2s))
    BY <2>1, FrontDelta DEF DeltaFits
  <2>3. QED
    BY <1>2, <2>2 DEF ReceiveDelta, NothingRefused, readerVars
<1>3. CASE UNCHANGED <<refused, pastFrontier>>
  BY <1>3 DEF NothingRefused
<1> QED
  BY <1>1, <1>2, <1>3
     DEF Next, Application, VtestThread, WatcherThread, ReaderThread,
         MessageThread, RingThread, ProgressThread,
         AppIssue, AppWrite, AppInline, FlushTarget, SubmitFlushed,
         SubmitTimedOut, TakeDelta, NoteRelayed, MessagesForDelta, ShipMessage,
         NoteShipped, ReadProgress, AdvanceHead, ReadReplyData, ApplyBlobData, PublishTail,
         ApplySubmitCmd, Dispatch, StoreHead, TakeRingProgress,
         TakeVenusBlobWrites, ShipVenus, ShipProgress,
         vars, readerVars, messageVars

\* A message joins the link from S: a reply no older than those before it, or
\* an acknowledgement whose reply C has or will read first.
LEMMA AnswersPush ==
    ASSUME NEW link \in Seq(S2CMessage), NEW got \in Nat, NEW told \in Nat,
           got <= told, Answers(link, got, told), NEW m \in S2CMessage,
           IsReply(m) => m.upto = told,
           IsAck(m) =>
             \/ m.tail <= got
             \/ \E j \in 1 .. Len(link) : IsReply(link[j]) /\ m.tail <= link[j].upto
    PROVE  Answers(Append(link, m), got, told)
<1> DEFINE new == Append(link, m)
<1>1. /\ Len(new) = Len(link) + 1 /\ Len(link) \in Nat
      /\ new[Len(link) + 1] = m
      /\ \A i \in 1 .. Len(link) : new[i] = link[i]
  BY AppendIs
<1> HIDE DEF new
<1>2. ASSUME NEW i \in 1 .. Len(new), IsReply(new[i])
      PROVE  got <= new[i].upto /\ new[i].upto <= told
  BY <1>1, <1>2 DEF Answers
<1>3. ASSUME NEW i \in 1 .. Len(new), NEW j \in 1 .. Len(new),
             i < j, IsReply(new[i]), IsReply(new[j])
      PROVE  new[i].upto <= new[j].upto
  <2>1. i \in 1 .. Len(link) /\ new[i] = link[i]
    BY <1>1, <1>3
  <2>2. CASE j \in 1 .. Len(link)
    BY <1>1, <1>3, <2>1, <2>2 DEF Answers
  <2>3. CASE j = Len(link) + 1
    BY <1>1, <1>2, <1>3, <2>3
  <2>4. QED
    BY <1>1, <2>2, <2>3
<1>4. ASSUME NEW i \in 1 .. Len(new), IsAck(new[i])
      PROVE  \/ new[i].tail <= got
             \/ \E j \in 1 .. i - 1 : IsReply(new[j]) /\ new[i].tail <= new[j].upto
  <2>1. \A j \in 1 .. i - 1 : j \in 1 .. Len(link) /\ new[j] = link[j]
    BY <1>1
  <2>2. CASE i \in 1 .. Len(link)
    BY <1>1, <1>4, <2>1, <2>2 DEF Answers
  <2>3. CASE i = Len(link) + 1
    <3>1. new[i] = m /\ i - 1 = Len(link)
      BY <1>1, <2>3
    <3>2. QED
      BY <1>1, <1>4, <3>1
  <2>4. QED
    BY <1>1, <2>2, <2>3
<1>5. Answers(new, got, told)
  BY <1>2, <1>3, <1>4 DEF Answers
<1> QED
  BY <1>5 DEF new

\* The reader takes a message off the link: what C has grows to the reply just
\* read, or stays when it was an acknowledgement.
LEMMA AnswersPop ==
    ASSUME NEW link \in Seq(S2CMessage), NEW got \in Nat, NEW told \in Nat,
           Answers(link, got, told), link # << >>, NEW new_got \in Nat,
           got <= new_got, IsReply(link[1]) => new_got = link[1].upto,
           ~IsReply(link[1]) => new_got = got
    PROVE  Answers(Tail(link), new_got, told)
<1> DEFINE new == Tail(link)
<1>1. /\ Len(new) = Len(link) - 1 /\ Len(link) \in Nat \ {0}
      /\ \A i \in 1 .. Len(new) : new[i] = link[i + 1]
  BY TailIs
<1> HIDE DEF new
<1>2. \A i \in 1 .. Len(new) : i + 1 \in 1 .. Len(link) /\ 1 < i + 1
  BY <1>1
<1>3. ASSUME NEW i \in 1 .. Len(new), IsReply(new[i])
      PROVE  new_got <= new[i].upto /\ new[i].upto <= told
  <2>1. i + 1 \in 1 .. Len(link) /\ 1 < i + 1 /\ new[i] = link[i + 1] /\ 1 \in 1 .. Len(link)
    BY <1>1, <1>2
  <2>2. QED
    BY <1>3, <2>1 DEF Answers
<1>4. ASSUME NEW i \in 1 .. Len(new), NEW j \in 1 .. Len(new),
             i < j, IsReply(new[i]), IsReply(new[j])
      PROVE  new[i].upto <= new[j].upto
  <2>1. i + 1 \in 1 .. Len(link) /\ j + 1 \in 1 .. Len(link) /\ i + 1 < j + 1
    BY <1>2, <1>4
  <2>2. QED
    BY <1>1, <1>4, <2>1 DEF Answers
<1>5. ASSUME NEW i \in 1 .. Len(new), IsAck(new[i])
      PROVE  \/ new[i].tail <= new_got
             \/ \E j \in 1 .. i - 1 : IsReply(new[j]) /\ new[i].tail <= new[j].upto
  <2>1. new[i] = link[i + 1] /\ i + 1 \in 1 .. Len(link)
    BY <1>1, <1>2
  <2>2. link[i + 1] \in S2CMessage
    BY <2>1
  <2>3. link[i + 1].tail \in Nat
    BY <1>5, <2>1, <2>2, AckCarries
  <2>4. ASSUME NEW j \in 1 .. (i + 1) - 1, IsReply(link[j]), link[i + 1].tail <= link[j].upto
        PROVE  \/ new[i].tail <= new_got
               \/ \E k \in 1 .. i - 1 : IsReply(new[k]) /\ new[i].tail <= new[k].upto
    <3>1. CASE j = 1
      BY <2>1, <2>4, <3>1
    <3>2. CASE j # 1
      <4>1. j - 1 \in 1 .. i - 1 /\ new[j - 1] = link[j]
        BY <1>1, <3>2
      <4>2. QED
        BY <2>1, <2>4, <4>1
    <3>3. QED
      BY <3>1, <3>2
  <2>5. ASSUME link[i + 1].tail <= got
        PROVE  new[i].tail <= new_got
    BY <2>1, <2>3, <2>5
  <2>6. QED
    BY <1>5, <2>1, <2>4, <2>5 DEF Answers
<1>6. Answers(new, new_got, told)
  BY <1>3, <1>4, <1>5 DEF Answers
<1> QED
  BY <1>6 DEF new

\* The newest arena stays C's, or on its way to C, as the reader reads.
LEMMA CoveredPop ==
    ASSUME NEW link \in Seq(S2CMessage), NEW got \in Nat, NEW told \in Nat,
           Covered(link, got, told), Answers(link, got, told), link # << >>,
           NEW new_got \in Nat,
           IsReply(link[1]) => new_got = link[1].upto,
           ~IsReply(link[1]) => new_got = got
    PROVE  Covered(Tail(link), new_got, told)
<1> DEFINE new == Tail(link)
<1>1. /\ Len(new) = Len(link) - 1 /\ Len(link) \in Nat \ {0}
      /\ \A i \in 1 .. Len(new) : new[i] = link[i + 1]
  BY TailIs
<1> HIDE DEF new
<1>2. ASSUME told = got
      PROVE  told = new_got
  <2>1. CASE IsReply(link[1])
    <3>1. got <= link[1].upto /\ link[1].upto <= told
      BY <1>1, <2>1 DEF Answers
    <3>2. QED
      BY <1>2, <2>1, <3>1
  <2>2. QED
    BY <1>2, <2>1
<1>3. ASSUME NEW i \in 1 .. Len(link), IsReply(link[i]), link[i].upto = told
      PROVE  Covered(new, new_got, told)
  <2>1. CASE i = 1
    BY <1>3, <2>1 DEF Covered
  <2>2. CASE i # 1
    <3>1. i - 1 \in 1 .. Len(new) /\ new[i - 1] = link[i]
      BY <1>1, <2>2
    <3>2. QED
      BY <1>3, <3>1 DEF Covered
  <2>3. QED
    BY <2>1, <2>2
<1>4. Covered(new, new_got, told)
  BY <1>2, <1>3 DEF Covered
<1> QED
  BY <1>4 DEF new

\* A message that joins the link hides no reply already on it.
LEMMA CoveredPush ==
    ASSUME NEW link \in Seq(S2CMessage), NEW got \in Nat, NEW told \in Nat,
           NEW m \in S2CMessage,
           Covered(link, got, told) \/ (IsReply(m) /\ m.upto = told)
    PROVE  Covered(Append(link, m), got, told)
<1> DEFINE new == Append(link, m)
<1>1. /\ Len(new) = Len(link) + 1 /\ Len(link) \in Nat
      /\ new[Len(link) + 1] = m
      /\ \A i \in 1 .. Len(link) : new[i] = link[i]
  BY AppendIs
<1> HIDE DEF new
<1>2. Covered(new, got, told)
  BY <1>1 DEF Covered
<1> QED
  BY <1>2 DEF new

\* Replies are ahead of the acknowledgements that promise them, at every step
\* of the ring thread, the progress thread, the link and the reader.
LEMMA RepliesStep ==
    TypeOK /\ TypeOK' /\ Cursors /\ Acks /\ Replies /\ [Next]_vars => Replies'
<1> SUFFICES ASSUME TypeOK, TypeOK', Cursors, Acks, Replies, [Next]_vars
             PROVE  Replies'
  OBVIOUS
<1>t. /\ s2c \in Seq(S2CMessage) /\ consumed \in Nat /\ reported \in Nat
      /\ crep \in Nat /\ srepShadow \in Nat /\ srep \in Nat /\ shead \in Nat
      /\ reported <= shead /\ shead <= srep /\ srep <= shead + 1
  BY DEF TypeOK, Cursors
<1>r. /\ crep <= srepShadow /\ srepShadow <= srep /\ consumed <= crep
      /\ ppc \in {"shipVenus", "shipProgress"} => reported <= srepShadow
      /\ Answers(s2c, crep, srepShadow)
      /\ \/ Covered(s2c, crep, srepShadow)
         \/ ppc = "shipVenus" /\ venus = << ReplyData(srepShadow) >>
      /\ ppc = "shipVenus" =>
           venus = << >> \/ venus = << ReplyData(srepShadow) >>
  BY DEF Replies
<1>1. CASE ReadReplyData
  <2>1. /\ s2c # << >> /\ IsReply(s2c[1]) /\ ~IsAck(s2c[1]) /\ 1 \in 1 .. Len(s2c)
        /\ s2c' = Tail(s2c) /\ crep' = s2c[1].upto
        /\ UNCHANGED <<consumed, reported, srepShadow, srep, ppc, venus>>
    BY <1>1, <1>t, TailIs
       DEF ReadReplyData, IsReply, IsAck, progressVars, progressThreadVars, ringThreadVars
  <2>2. crep <= crep' /\ crep' <= srepShadow /\ crep' \in Nat
    BY <1>r, <2>1, LinkTypes DEF Answers
  <2>3. Answers(s2c', crep', srepShadow)
    BY <1>t, <1>r, <2>1, <2>2, AnswersPop
  <2>4. ASSUME Covered(s2c, crep, srepShadow)
        PROVE  Covered(s2c', crep', srepShadow)
    BY <1>t, <1>r, <2>1, <2>2, <2>4, CoveredPop
  <2>5. consumed' <= crep'
    BY <1>t, <1>r, <2>1, <2>2
  <2>6. QED
    BY <1>r, <2>1, <2>2, <2>3, <2>4, <2>5 DEF Replies
<1>2. CASE ReadRingProgress
  <2>1. /\ s2c # << >> /\ IsAck(s2c[1]) /\ ~IsReply(s2c[1]) /\ 1 \in 1 .. Len(s2c)
        /\ s2c' = Tail(s2c)
        /\ consumed' = consumed \/ consumed' = s2c[1].tail
        /\ UNCHANGED <<crep, reported, srepShadow, srep, ppc, venus>>
    BY <1>2, <1>t, TailIs
       DEF ReadRingProgress, IsReply, IsAck, progressThreadVars, ringThreadVars
  <2>2. s2c[1].tail <= crep
    BY <1>t, <1>r, <2>1 DEF Answers
  <2>3. Answers(s2c', crep, srepShadow)
    BY <1>t, <1>r, <2>1, AnswersPop
  <2>4. ASSUME Covered(s2c, crep, srepShadow)
        PROVE  Covered(s2c', crep, srepShadow)
    BY <1>t, <1>r, <2>1, <2>4, CoveredPop
  <2>5. consumed' <= crep
    BY <1>r, <2>1, <2>2
  <2>6. QED
    BY <1>r, <2>1, <2>3, <2>4, <2>5 DEF Replies
<1>3. CASE Dispatch
  <2>1. /\ srep' = srep + 1
        /\ UNCHANGED <<s2c, consumed, crep, reported, srepShadow, ppc, venus>>
    BY <1>3 DEF Dispatch, progressVars, readerVars, progressThreadVars
  <2>2. srepShadow <= srep'
    BY <1>t, <1>r, <2>1
  <2>3. QED
    BY <1>r, <2>1, <2>2 DEF Replies
<1>4. CASE TakeRingProgress
  <2>1. /\ ppc = "poll" /\ ppc' = "scan"
        /\ UNCHANGED <<s2c, consumed, crep, srepShadow, srep, venus>>
    BY <1>4 DEF TakeRingProgress, progressVars, readerVars, ringThreadVars
  <2>2. QED
    BY <1>r, <2>1 DEF Replies
<1>5. CASE TakeVenusBlobWrites
  <2>1. /\ ppc = "scan" /\ ppc' = "shipVenus" /\ srepShadow' = srep
        /\ venus' = IF srep = srepShadow THEN << >> ELSE << ReplyData(srep) >>
        /\ UNCHANGED <<s2c, consumed, crep, reported, srep>>
    BY <1>5 DEF TakeVenusBlobWrites, progressVars, readerVars, ringThreadVars
  <2>2. /\ crep' <= srepShadow' /\ srepShadow' <= srep' /\ consumed' <= crep'
        /\ reported' <= srepShadow'
    BY <1>t, <1>r, <2>1
  <2>3. Answers(s2c, crep, srep)
    <3>1. ASSUME NEW i \in 1 .. Len(s2c), IsReply(s2c[i])
          PROVE  crep <= s2c[i].upto /\ s2c[i].upto <= srep
      <4>1. s2c[i].upto \in Nat
        BY <3>1, LinkTypes
      <4>2. crep <= s2c[i].upto /\ s2c[i].upto <= srepShadow
        BY <1>r, <3>1 DEF Answers
      <4>3. QED
        BY <1>t, <1>r, <4>1, <4>2
    <3>2. QED
      BY <1>r, <3>1 DEF Answers
  <2>4. \/ Covered(s2c', crep', srepShadow')
        \/ ppc' = "shipVenus" /\ venus' = << ReplyData(srepShadow') >>
    BY <1>r, <2>1
  <2>5. venus' = << >> \/ venus' = << ReplyData(srepShadow') >>
    BY <2>1
  <2>6. QED
    BY <2>1, <2>2, <2>3, <2>4, <2>5 DEF Replies
<1>6. CASE ShipVenus
  <2>1. /\ ppc = "shipVenus" /\ ppc' = "shipProgress" /\ s2c' = s2c \o venus
        /\ UNCHANGED <<consumed, crep, reported, srepShadow, srep>>
    BY <1>6 DEF ShipVenus, progressVars, readerVars, ringThreadVars
  <2>2. CASE venus = << >>
    <3>1. s2c' = s2c
      BY <1>t, <2>1, <2>2
    <3>2. Covered(s2c, crep, srepShadow)
      <4>1. << ReplyData(srepShadow) >> # << >>
        OBVIOUS
      <4>2. QED
        BY <1>r, <2>2, <4>1
    <3>3. QED
      BY <1>r, <2>1, <3>1, <3>2 DEF Replies
  <2>3. CASE venus = << ReplyData(srepShadow) >>
    <3> DEFINE m == ReplyData(srepShadow)
    <3>1. m \in S2CMessage /\ IsReply(m) /\ ~IsAck(m) /\ m.upto = srepShadow
      BY <1>t, MessageTypes DEF ReplyData, IsReply, IsAck
    <3>2. s2c' = Append(s2c, m)
      BY <1>t, <2>1, <2>3, <3>1
    <3> HIDE DEF m
    <3>3. Answers(s2c', crep, srepShadow)
      BY <1>t, <1>r, <3>1, <3>2, AnswersPush
    <3>4. Covered(s2c', crep, srepShadow)
      BY <1>t, <3>1, <3>2, CoveredPush
    <3>5. QED
      BY <1>r, <2>1, <3>3, <3>4 DEF Replies
  <2>4. QED
    BY <1>r, <2>1, <2>2, <2>3
<1>7. CASE ShipProgress
  <2> DEFINE m == RingProgress(reported)
  <2>1. m \in S2CMessage /\ IsAck(m) /\ ~IsReply(m) /\ m.tail = reported
    BY <1>t, MessageTypes DEF RingProgress, IsReply, IsAck
  <2>2. /\ ppc = "shipProgress" /\ ppc' = "poll" /\ s2c' = Append(s2c, m)
        /\ UNCHANGED <<consumed, crep, reported, srepShadow, srep, venus>>
    BY <1>7 DEF ShipProgress, progressVars, readerVars, ringThreadVars
  <2> HIDE DEF m
  <2>3. Covered(s2c, crep, srepShadow) /\ reported <= srepShadow
    BY <1>r, <2>2
  <2>4. \/ m.tail <= crep
        \/ \E j \in 1 .. Len(s2c) : IsReply(s2c[j]) /\ m.tail <= s2c[j].upto
    BY <2>1, <2>3 DEF Covered
  <2>5. Answers(s2c', crep, srepShadow)
    BY <1>t, <1>r, <2>1, <2>2, <2>4, AnswersPush
  <2>6. Covered(s2c', crep, srepShadow)
    BY <1>t, <2>1, <2>2, <2>3, CoveredPush
  <2>7. QED
    BY <1>r, <2>2, <2>5, <2>6 DEF Replies
<1>8. CASE UNCHANGED <<s2c, consumed, crep, reported, srepShadow, srep, ppc, venus>>
  BY <1>8 DEF Replies
<1> QED
  BY <1>1, <1>2, <1>3, <1>4, <1>5, <1>6, <1>7, <1>8
     DEF Next, Application, VtestThread, WatcherThread, ReaderThread,
         MessageThread, RingThread, ProgressThread,
         AppIssue, AppWrite, AppInline, FlushTarget, SubmitFlushed,
         SubmitTimedOut, TakeDelta, NoteRelayed, MessagesForDelta, ShipMessage,
         NoteShipped, ReadProgress, AdvanceHead, ApplyBlobData, ReceiveDelta, PublishTail,
         ApplySubmitCmd, StoreHead,
         vars, progressVars, readerVars, ringThreadVars, progressThreadVars

-----------------------------------------------------------------------------
(* The theorems.                                                           *)

\* The initial state satisfies the inductive invariant.
LEMMA InvInit == Init => IInv
<1> SUFFICES ASSUME Init PROVE IInv
  OBVIOUS
<1>1. TypeOK
  BY TypeInit
<1>2. Len(c2s) = 0 /\ Len(s2c) = 0
  BY DEF Init
<1>3. Cursors
  BY RingAssumption DEF Init, Cursors
<1>4. Acks /\ Chain /\ Watcher /\ NothingRefused
  BY <1>2 DEF Init, Acks, Chain, Joined, Watcher, NothingRefused
<1>5. Replies /\ Inline
  BY <1>2 DEF Init, Replies, Answers, Covered, Inline, Behind
<1> QED
  BY <1>1, <1>3, <1>4, <1>5 DEF IInv

\* Every step of every thread preserves it.
LEMMA InvStep == IInv /\ [Next]_vars => IInv'
<1> SUFFICES ASSUME IInv, [Next]_vars PROVE IInv'
  OBVIOUS
<1>1. TypeOK'
  BY TypeStep DEF IInv
<1>2. Cursors' /\ Acks'
  BY <1>1, CursorsStep, AcksStep DEF IInv
<1>3. Watcher' /\ Chain'
  BY WatcherStep, ChainStep DEF IInv
<1>4. Replies' /\ Inline'
  BY <1>1, RepliesStep, InlineStep DEF IInv
<1>5. NothingRefused'
  BY AcceptedStep DEF IInv
<1> QED
  BY <1>1, <1>2, <1>3, <1>4, <1>5 DEF IInv

\* The inductive invariant holds in every reachable state.
THEOREM Inductive == Spec => []IInv
  BY InvInit, InvStep, PTL DEF Spec

\* Every variable keeps its type, whatever the ring's size and history.
THEOREM TypeCorrect == Spec => []TypeOK
<1>1. IInv => TypeOK
  BY DEF IInv
<1> QED
  BY <1>1, Inductive, PTL

\* No cursor of either machine overtakes the one it depends on, from the head
\* the application may reuse up to to the tail it has written.
THEOREM CursorsInOrder == Spec => []FrontierOrder
<1>1. IInv => FrontierOrder
  <2> SUFFICES ASSUME IInv PROVE FrontierOrder
    OBVIOUS
  <2>1. Cursors /\ head \in Nat /\ wConsumed \in Nat /\ consumed \in Nat
    BY DEF IInv, TypeOK
  <2>2. QED
    BY <2>1 DEF Cursors, FrontierOrder
<1> QED
  BY <1>1, Inductive, PTL

\* The head C publishes never promises a reply C does not have.
THEOREM RepliesBeforeHead == Spec => []ReplyBeforeHead
<1>1. IInv => ReplyBeforeHead
  <2> SUFFICES ASSUME IInv PROVE ReplyBeforeHead
    OBVIOUS
  <2>1. /\ head \in Nat /\ wConsumed \in Nat /\ consumed \in Nat /\ crep \in Nat
        /\ head <= wConsumed /\ wConsumed <= consumed /\ consumed <= crep
    BY DEF IInv, TypeOK, Cursors, Replies
  <2>2. QED
    BY <2>1 DEF ReplyBeforeHead
<1> QED
  BY <1>1, Inductive, PTL

\* Neither machine ever refuses a cursor the other sent.
THEOREM Accepted == Spec => []NothingRefused
<1>1. IInv => NothingRefused
  BY DEF IInv
<1> QED
  BY <1>1, Inductive, PTL

\* An inline command that passed the barrier meets every ring command it
\* follows already in S's ring.
THEOREM InlineKeepsOrder == Spec => []InlineInOrder
<1>1. IInv => InlineInOrder
  <2> SUFFICES ASSUME IInv, 1 \in DOMAIN c2s, Ordered(c2s[1])
               PROVE  c2s[1].after <= applied
    BY DEF InlineInOrder, Ordered
  <2>1. 1 \in 1 .. Len(c2s)
    BY DEF IInv, TypeOK
  <2>2. Behind(c2s, applied)
    BY DEF IInv, Inline
  <2>3. QED
    BY <2>1, <2>2 DEF Behind
<1> QED
  BY <1>1, Inductive, PTL

\* Each step of the relay is a step of RingService, or none at all.
LEMMA ServiceStep == IInv /\ [Next]_vars => [Service!Next]_(Service!svars)
<1> SUFFICES ASSUME IInv, [Next]_vars
             PROVE  Service!Next \/ UNCHANGED <<tail, srep, crep, head>>
  BY DEF Service!svars
<1>t. /\ tail \in Nat /\ head \in Nat /\ srep \in Nat /\ shead \in Nat /\ crep \in Nat
      /\ wConsumed \in Nat /\ consumed \in Nat /\ srepShadow \in Nat /\ applied \in Nat
      /\ sent \in Nat /\ relayed \in Nat /\ lastTail \in Nat /\ BufSize \in Nat
  BY RingAssumption DEF IInv, TypeOK
<1>1. CASE AppIssue
  <2>1. tail - head < BufSize /\ tail' = tail + 1 /\ UNCHANGED <<srep, crep, head>>
    BY <1>1, <1>t DEF AppIssue, ringThreadVars, readerVars, watcherVars
  <2>2. QED
    BY <2>1 DEF Service!Next, Service!Issue
<1>2. CASE Dispatch
  <2>1. applied <= tail
    BY <1>t DEF IInv, Cursors
  <2>2. srep < tail /\ srep' = srep + 1 /\ UNCHANGED <<tail, crep, head>>
    BY <1>2, <1>t, <2>1 DEF Dispatch, appVars, readerVars, watcherVars
  <2>3. QED
    BY <2>2 DEF Service!Next, Service!Execute
<1>3. CASE ReadReplyData
  <2>1. /\ s2c # << >> /\ IsReply(s2c[1]) /\ 1 \in 1 .. Len(s2c)
        /\ crep' = s2c[1].upto /\ UNCHANGED <<tail, srep, head>>
    BY <1>3, TailIs
       DEF ReadReplyData, IsReply, IInv, TypeOK, appVars, ringThreadVars, watcherVars
  <2>2. crep <= crep' /\ crep' <= srepShadow /\ crep' \in Nat /\ srepShadow <= srep
    BY <2>1, LinkTypes DEF IInv, Replies, Answers
  <2>3. crep' = crep \/ crep' \in crep + 1 .. srep
    BY <1>t, <2>2
  <2>4. QED
    BY <2>1, <2>3 DEF Service!Next, Service!Answer
<1>4. CASE AdvanceHead
  <2>1. head' = wConsumed /\ UNCHANGED <<tail, srep, crep>>
    BY <1>4 DEF AdvanceHead, appVars, ringThreadVars, readerVars
  <2>2. head <= wConsumed /\ wConsumed <= crep
    <3>1. head <= wConsumed /\ wConsumed <= consumed /\ consumed <= crep
      BY DEF IInv, Cursors, Replies
    <3>2. QED
      BY <1>t, <3>1
  <2>3. head' = head \/ head' \in head + 1 .. crep
    BY <1>t, <2>1, <2>2
  <2>4. QED
    BY <2>1, <2>3 DEF Service!Next, Service!Release
<1>5. CASE UNCHANGED <<tail, srep, crep, head>>
  BY <1>5
<1> QED
  BY <1>1, <1>2, <1>3, <1>4, <1>5
     DEF Next, Application, VtestThread, WatcherThread, ReaderThread,
         MessageThread, RingThread, ProgressThread,
         AppWrite, AppInline, FlushTarget, SubmitFlushed,
         SubmitTimedOut, TakeDelta, NoteRelayed, MessagesForDelta, ShipMessage,
         NoteShipped, ReadProgress, ReadRingProgress, ApplyBlobData, ReceiveDelta,
         PublishTail, ApplySubmitCmd, StoreHead, TakeRingProgress,
         TakeVenusBlobWrites, ShipVenus, ShipProgress,
         vars, appVars, watcherVars, readerVars, ringThreadVars

\* The two daemons and their links implement the service a local renderer
\* gives the application: refinement for every ring size.
THEOREM Implements == Spec => ServesTheRing
<1>1. Init => Service!Init
  BY DEF Init, Service!Init
<1> QED
  BY <1>1, Inductive, ServiceStep, PTL DEF Spec, ServesTheRing, Service!Spec

-----------------------------------------------------------------------------
(* The commands and the memory that the cursors delimit.                   *)

\* Less than one lap is no lap.
LEMMA NoLap ==
    ASSUME NEW n \in Nat \ {0}, NEW k \in Int, n * k < n, 0 - n < n * k
    PROVE  k = 0
<1>1. ASSUME k >= 1 PROVE FALSE
  <2>1. n * k >= n
    BY <1>1
  <2> QED
    BY <2>1
<1>2. ASSUME k <= -1 PROVE FALSE
  <2>1. n * k <= 0 - n
    BY <1>2
  <2> QED
    BY <2>1
<1> QED
  BY <1>1, <1>2

\* Every position is so many laps of the buffer and a slot ...
LEMMA Position ==
    ASSUME NEW x \in Int
    PROVE  /\ x % BufSize \in 0 .. BufSize - 1
           /\ \E k \in Int : BufSize * k \in Int /\ x = (BufSize * k) + (x % BufSize)
<1> DEFINE k == x \div BufSize
<1>1. /\ k \in Int /\ x % BufSize \in 0 .. BufSize - 1
      /\ x = (BufSize * k) + (x % BufSize)
  BY RingAssumption
<1>2. BufSize * k \in Int
  BY <1>1, RingAssumption
<1> QED
  BY <1>1, <1>2

\* ... and that in one way only.
LEMMA OneWay ==
    ASSUME NEW k \in Int, NEW d \in 0 .. BufSize - 1, NEW x \in Int, x = (BufSize * k) + d
    PROVE  x % BufSize = d
<1>1. PICK l \in Int : BufSize * l \in Int /\ x = (BufSize * l) + (x % BufSize)
  BY Position
<1> DEFINE r == x % BufSize
           u == BufSize * k
           v == BufSize * l
<1>2. r \in 0 .. BufSize - 1 /\ BufSize \in Nat \ {0}
  BY Position, RingAssumption
<1>3. u \in Int /\ v \in Int /\ u + d = v + r
  BY <1>1, <1>2
<1>4. BufSize * (k - l) = u - v /\ k - l \in Int
  BY <1>2
<1> HIDE DEF r, u, v
<1>5. u - v < BufSize /\ 0 - BufSize < u - v
  BY <1>2, <1>3
<1>6. k - l = 0
  BY <1>2, <1>4, <1>5, NoLap
<1>7. u = v
  BY <1>6 DEF u, v
<1>8. r = d
  BY <1>2, <1>3, <1>7
<1> QED
  BY <1>8 DEF r

\* A slot is one of the buffer's.
LEMMA SlotRange ==
    ASSUME NEW p \in Nat
    PROVE  SlotOf(p) \in 0 .. BufSize - 1
  BY Position DEF SlotOf

\* No two positions less than a buffer apart share a slot.
LEMMA SlotsApart ==
    ASSUME NEW p \in Nat, NEW q \in Nat, p < q, q < p + BufSize
    PROVE  SlotOf(p) # SlotOf(q)
<1> SUFFICES ASSUME SlotOf(p) = SlotOf(q) PROVE FALSE
  OBVIOUS
<1> DEFINE r == SlotOf(p)
<1>1. PICK k \in Int : BufSize * k \in Int /\ p = (BufSize * k) + r
  BY Position DEF SlotOf
<1>2. PICK l \in Int : BufSize * l \in Int /\ q = (BufSize * l) + r
  BY Position DEF SlotOf
<1> DEFINE u == BufSize * k
           v == BufSize * l
<1>3. u \in Int /\ v \in Int /\ p = u + r /\ q = v + r /\ r \in Int /\ BufSize \in Nat \ {0}
  BY <1>1, <1>2, SlotRange, RingAssumption
<1>4. BufSize * (l - k) = v - u /\ l - k \in Int
  BY <1>3
<1> HIDE DEF r, u, v
<1>5. v - u < BufSize /\ 0 < v - u
  BY <1>3
<1>6. l - k = 0
  BY <1>3, <1>4, <1>5, NoLap
<1>7. u = v
  BY <1>6 DEF u, v
<1> QED
  BY <1>3, <1>5, <1>7

\* A slot is used again a buffer later.
LEMMA SlotRepeats ==
    ASSUME NEW p \in Nat
    PROVE  SlotOf(p + BufSize) = SlotOf(p)
<1> DEFINE r == SlotOf(p)
<1>1. PICK k \in Int : BufSize * k \in Int /\ p = (BufSize * k) + r
  BY Position DEF SlotOf
<1>2. BufSize \in Nat \ {0} /\ r \in 0 .. BufSize - 1
  BY SlotRange, RingAssumption
<1>3. BufSize * (k + 1) = (BufSize * k) + BufSize
  BY <1>2
<1> HIDE DEF r
<1>4. p + BufSize = (BufSize * (k + 1)) + r /\ k + 1 \in Int /\ p + BufSize \in Int
  <2> DEFINE u == BufSize * k
  <2>1. u \in Int /\ p = u + r /\ BufSize * (k + 1) = u + BufSize
    BY <1>1, <1>3
  <2> HIDE DEF u
  <2>2. p + BufSize = (u + BufSize) + r
    BY <1>2, <2>1
  <2> QED
    BY <1>2, <2>1, <2>2
<1> QED
  BY <1>2, <1>4, OneWay DEF SlotOf, r

\* Counted from a, the slot of a position is as far as the position itself:
\* Written puts every command of a delta where the ring thread looks for it.
LEMMA SlotIndex ==
    ASSUME NEW a \in Nat, NEW p \in Nat, a <= p, p < a + BufSize
    PROVE  (SlotOf(p) - a) % BufSize = p - a
<1> DEFINE r == SlotOf(p)
<1>1. PICK k \in Int : BufSize * k \in Int /\ p = (BufSize * k) + r
  BY Position DEF SlotOf
<1>2. /\ BufSize \in Nat \ {0} /\ r \in Int /\ p - a \in 0 .. BufSize - 1
      /\ 0 - k \in Int
  BY SlotRange, RingAssumption
<1>3. BufSize * (0 - k) = 0 - (BufSize * k)
  BY <1>2
<1> HIDE DEF r
<1>4. r - a = (BufSize * (0 - k)) + (p - a)
  <2> DEFINE u == BufSize * k
  <2>1. u \in Int /\ p = u + r /\ BufSize * (0 - k) = 0 - u
    BY <1>1, <1>3
  <2> HIDE DEF u
  <2>2. r - a = (0 - u) + (p - a)
    BY <1>2, <2>1
  <2> QED
    BY <2>1, <2>2
<1>5. r - a \in Int
  BY <1>2
<1>6. (r - a) % BufSize = p - a
  BY <1>2, <1>4, <1>5, OneWay, Zenon
<1> QED
  BY <1>6 DEF r

-----------------------------------------------------------------------------
(* The stream.                                                             *)

\* The commands are those the application wrote from position `from` on.
Numbered(cmds, from) == \A k \in 1 .. Len(cmds) : cmds[k].pos = from + k - 1

\* A ring's slots hold the commands of the positions from lo up to hi.
Window(buf, lo, hi) == \A p \in lo .. hi - 1 : buf[SlotOf(p)].pos = p

\* The deltas on a link carry what the application wrote where they belong.
Carries(link) ==
    \A i \in 1 .. Len(link) :
        IsDelta(link[i]) => Numbered(link[i].cmds, From(link[i]))

\* What has been issued and not run yet is, in order, in C's ring, in the
\* watcher's hands, on the link, or in S's ring.
Contents ==
    /\ Window(cbuf, lastTail, tail)
    /\ wpc \in {"relay", "diff", "ship", "shipping"} => Numbered(delta, sent)
    /\ Carries(c2s)
    /\ Window(sbuf, srep, applied)
    /\ spc = "publish" => Window(sbuf, applied, c2s[1].tail)

\* A message joins a link that carries what it should.
LEMMA CarriesPush ==
    ASSUME NEW link \in Seq(C2SMessage), NEW m \in C2SMessage, Carries(link),
           IsDelta(m) => Numbered(m.cmds, From(m))
    PROVE  Carries(Append(link, m))
  BY AppendIs DEF Carries

\* A message leaves it.
LEMMA CarriesPop ==
    ASSUME NEW link \in Seq(C2SMessage), link # << >>, Carries(link)
    PROVE  Carries(Tail(link))
  BY TailIs DEF Carries

\* Issuing a command overwrites none that the watcher has not taken.
LEMMA IssueKeeps ==
    ASSUME IInv, Contents, AppIssue
    PROVE  Window(cbuf', lastTail', tail')
<1>1. /\ tail \in Nat /\ lastTail \in Nat /\ BufSize \in Nat \ {0}
      /\ cbuf \in [0 .. BufSize - 1 -> Slot] /\ appMem \in Nat
      /\ lastTail <= tail /\ tail + 1 <= lastTail + BufSize
      /\ SlotOf(tail) \in 0 .. BufSize - 1
  <2>1. head \in Nat /\ head <= lastTail /\ tail + 1 - head <= BufSize
    BY DEF IInv, TypeOK, Cursors, AppIssue
  <2>2. SlotOf(tail) \in 0 .. BufSize - 1
    <3>1. tail \in Nat
      BY RingAssumption DEF IInv, TypeOK
    <3>2. QED
      BY <3>1, SlotRange
  <2>3. QED
    BY <2>1, <2>2, RingAssumption DEF IInv, TypeOK, Cursors
<1>2. /\ cbuf' = [cbuf EXCEPT ![SlotOf(tail)] = [pos |-> tail, need |-> appMem]]
      /\ tail' = tail + 1 /\ lastTail' = lastTail
  BY DEF AppIssue, watcherVars
<1>3. ASSUME NEW p \in lastTail .. tail
      PROVE  cbuf'[SlotOf(p)].pos = p
  <2>1. SlotOf(p) \in 0 .. BufSize - 1
    <3>1. p \in Nat
      BY <1>1
    <3>2. QED
      BY <3>1, SlotRange
  <2>2. CASE p = tail
    BY <1>1, <1>2, <2>2
  <2>3. CASE p # tail
    <3>1. p \in Nat /\ p < tail /\ tail < p + BufSize
      BY <1>1, <2>3
    <3>2. SlotOf(p) # SlotOf(tail)
      BY <1>1, <3>1, SlotsApart
    <3>3. cbuf'[SlotOf(p)] = cbuf[SlotOf(p)]
      BY <1>1, <1>2, <2>1, <3>2
    <3>4. cbuf[SlotOf(p)].pos = p
      BY <1>1, <3>1 DEF Contents, Window
    <3>5. QED
      BY <3>3, <3>4
  <2>4. QED
    BY <2>2, <2>3
<1>4. tail' - 1 = tail
  BY <1>1, <1>2
<1> QED
  BY <1>2, <1>3, <1>4 DEF Window

\* The watcher takes the commands its frontier had not reached.
LEMMA TakeNumbers ==
    ASSUME IInv, Contents, TakeDelta
    PROVE  Numbered(delta', sent')
<1>1. /\ tail \in Nat /\ lastTail \in Nat /\ lastTail <= tail
      /\ sent' = lastTail /\ delta' = Drained(tail)
  BY RingAssumption DEF IInv, TypeOK, Cursors, Watcher, TakeDelta, progressVars
<1>2. Len(Drained(tail)) = tail - lastTail
  BY <1>1, DrainedType DEF IInv
<1>3. ASSUME NEW k \in 1 .. tail - lastTail
      PROVE  Drained(tail)[k].pos = lastTail + k - 1
  <2>1. Drained(tail)[k] = cbuf[SlotOf(lastTail + k - 1)]
    BY DEF Drained
  <2>2. lastTail + k - 1 \in lastTail .. tail - 1
    BY <1>1
  <2>3. QED
    BY <2>1, <2>2 DEF Contents, Window
<1> QED
  BY <1>1, <1>2, <1>3 DEF Numbered

\* What the batch puts on the link is what the watcher holds.
LEMMA ShipCarries ==
    ASSUME IInv, Contents, ShipMessage
    PROVE  Carries(c2s') /\ (wpc' = "shipping" => Numbered(delta, sent'))
<1> DEFINE d == RingDelta(lastTail, delta)
           b == BlobData(base)
<1>1. /\ d \in C2SMessage /\ d.tail = lastTail /\ d.cmds = delta
      /\ b \in C2SMessage /\ ~IsDelta(b)
      /\ c2s \in Seq(C2SMessage)
  BY MessageTypes DEF IInv, TypeOK, RingDelta, BlobData, IsDelta
<1>2. From(d) = sent /\ Numbered(d.cmds, sent)
  BY <1>1 DEF IInv, ShipMessage, Watcher, From, Contents
<1>3. \/ c2s' = Append(c2s, b) /\ sent' = sent
      \/ c2s' = Append(c2s, d) /\ wpc' = "note"
  BY ShipSends DEF IInv
<1> HIDE DEF d, b
<1>4. Carries(c2s')
  BY <1>1, <1>2, <1>3, CarriesPush DEF Contents
<1>5. wpc' = "shipping" => Numbered(delta, sent')
  BY <1>1, <1>2, <1>3
<1> QED
  BY <1>4, <1>5

\* Writing a delta puts its commands behind those S has not run yet, and
\* overwrites none of them.
LEMMA ReceiveWrites ==
    ASSUME IInv, Contents, ReceiveDelta
    PROVE  /\ Window(sbuf', srep, applied)
           /\ Window(sbuf', applied, c2s[1].tail)
<1> DEFINE m == c2s[1]
           cmds == m.cmds
<1>1. /\ c2s # << >> /\ Head(c2s) = m /\ IsDelta(m) /\ 1 \in 1 .. Len(c2s)
      /\ c2s \in Seq(C2SMessage)
  BY TailIs DEF IInv, TypeOK, ReceiveDelta, IsDelta
<1>2. /\ m.tail \in Nat /\ Len(cmds) \in 1 .. BufSize
      /\ m.tail - applied = Len(cmds) /\ m.tail <= sent
  BY <1>1, FrontDelta DEF IInv
<1>3. sbuf' = Written(cmds)
  BY <1>1, <1>2 DEF ReceiveDelta, DeltaFits
<1>4. Numbered(cmds, applied)
  <2>1. From(m) = applied
    <3>1. applied \in Nat /\ BufSize \in Nat
      BY RingAssumption DEF IInv, TypeOK
    <3>2. Len(cmds) \in Nat
      BY <1>2, <3>1
    <3>3. QED
      BY <1>2, <3>1, <3>2 DEF From
  <2>2. QED
    BY <1>1, <2>1 DEF Contents, Carries
<1>5. /\ BufSize \in Nat \ {0} /\ applied \in Nat /\ srep \in Nat
      /\ srep <= applied /\ m.tail <= srep + BufSize
  <2>1. /\ head \in Nat /\ sent \in Nat /\ tail \in Nat
        /\ sent <= tail /\ tail <= head + BufSize /\ head <= srep
    BY RingAssumption DEF IInv, TypeOK, Cursors
  <2>2. QED
    BY <1>2, <2>1, RingAssumption DEF IInv, TypeOK, Cursors
<1> HIDE DEF m, cmds
<1>6. ASSUME NEW p \in applied .. m.tail - 1
      PROVE  sbuf'[SlotOf(p)].pos = p
  <2>1. /\ p \in Nat /\ applied <= p /\ p < applied + BufSize
        /\ (p - applied) + 1 \in 1 .. Len(cmds)
        /\ SlotOf(p) \in 0 .. BufSize - 1
    <3>1. /\ p \in Nat /\ applied <= p /\ p < applied + BufSize
          /\ (p - applied) + 1 \in 1 .. Len(cmds)
      BY <1>2, <1>5
    <3>2. QED
      BY <3>1, SlotRange
  <2>2. (SlotOf(p) - applied) % BufSize = p - applied
    BY <1>5, <2>1, SlotIndex
  <2>3. sbuf'[SlotOf(p)] = cmds[(p - applied) + 1]
    BY <1>3, <2>1, <2>2 DEF Written
  <2>4. cmds[(p - applied) + 1].pos = applied + ((p - applied) + 1) - 1
    BY <1>4, <2>1 DEF Numbered
  <2>5. QED
    BY <1>5, <2>1, <2>3, <2>4
<1>7. ASSUME NEW p \in srep .. applied - 1
      PROVE  sbuf'[SlotOf(p)].pos = p
  <2>1. /\ p \in Nat /\ p < applied /\ SlotOf(p) \in 0 .. BufSize - 1
        /\ sbuf[SlotOf(p)].pos = p
    <3>1. p \in Nat /\ p < applied
      BY <1>5
    <3>2. QED
      BY <3>1, SlotRange DEF Contents, Window
  <2>2. SlotOf(p + BufSize) = SlotOf(p)
    BY <1>5, <2>1, SlotRepeats
  <2>3. CASE p + BufSize < applied
    BY <1>2, <1>5, <2>1, <2>3
  <2>4. CASE applied <= p + BufSize
    <3>1. (SlotOf(p) - applied) % BufSize = (p + BufSize) - applied
      <4>1. p + BufSize \in Nat /\ p + BufSize < applied + BufSize
        BY <1>5, <2>1
      <4>2. (SlotOf(p + BufSize) - applied) % BufSize = (p + BufSize) - applied
        BY <1>5, <2>4, <4>1, SlotIndex
      <4>3. QED
        BY <2>2, <4>2
    <3>2. ~(((SlotOf(p) - applied) % BufSize) + 1 <= Len(cmds))
      BY <1>2, <1>5, <2>1, <3>1
    <3>3. sbuf'[SlotOf(p)] = sbuf[SlotOf(p)]
      BY <1>3, <2>1, <3>2 DEF Written
    <3>4. QED
      BY <2>1, <3>3
  <2>5. QED
    BY <1>5, <2>1, <2>3, <2>4
<1> QED
  BY <1>6, <1>7 DEF Window, m

\* Nothing has been issued in the initial state.
LEMMA ContentsInit == Init => Contents
<1> SUFFICES ASSUME Init PROVE Contents
  OBVIOUS
<1>1. Window(cbuf, lastTail, tail) /\ Window(sbuf, srep, applied)
  BY DEF Init, Window
<1>2. Carries(c2s)
  BY DEF Init, Carries
<1> QED
  BY <1>1, <1>2 DEF Init, Contents

\* Every step moves commands along the stream and changes none.
LEMMA ContentsStep ==
    IInv /\ Contents /\ [Next]_vars => Contents'
<1> SUFFICES ASSUME IInv, Contents, [Next]_vars
             PROVE  Contents'
  OBVIOUS
<1>t. /\ c2s \in Seq(C2SMessage) /\ tail \in Nat /\ lastTail \in Nat
      /\ srep \in Nat /\ applied \in Nat /\ srep <= applied /\ vAfter \in Nat
  BY RingAssumption DEF IInv, TypeOK, Cursors
<1>1. CASE AppIssue
  BY <1>1, IssueKeeps
     DEF AppIssue, Contents, watcherVars, progressVars, messageVars, ringThreadVars
<1>2. CASE TakeDelta
  <2>1. /\ Numbered(delta', sent') /\ lastTail' = tail
        /\ UNCHANGED <<cbuf, tail, c2s, sbuf, srep, applied, spc>>
    BY <1>2, TakeNumbers DEF TakeDelta, appVars, messageVars, ringThreadVars
  <2>2. Window(cbuf', lastTail', tail')
    BY <1>t, <2>1 DEF Window
  <2>3. QED
    BY <2>1, <2>2 DEF Contents
<1>3. CASE NoteRelayed \/ MessagesForDelta
  BY <1>3
     DEF NoteRelayed, MessagesForDelta, Contents, appVars, progressVars,
         messageVars, ringThreadVars
<1>4. CASE ShipMessage
  <2>1. /\ Carries(c2s') /\ (wpc' = "shipping" => Numbered(delta', sent'))
        /\ wpc' \in {"shipping", "note"}
        /\ UNCHANGED <<cbuf, tail, lastTail, sbuf, srep, applied, spc>>
    BY <1>4, ShipCarries DEF ShipMessage, appVars, messageVars, ringThreadVars
  <2>2. spc = "publish" => c2s'[1] = c2s[1]
    <3>1. PICK m \in C2SMessage : c2s' = Append(c2s, m)
      <4>1. RingDelta(lastTail, delta) \in C2SMessage /\ BlobData(base) \in C2SMessage
        BY MessageTypes DEF IInv, TypeOK
      <4>2. QED
        BY <1>4, <4>1, ShipSends DEF IInv
    <3>2. ASSUME spc = "publish" PROVE 1 \in 1 .. Len(c2s)
      BY <1>t, <3>2 DEF IInv, Chain
    <3>3. QED
      BY <1>t, <3>1, <3>2, AppendIs
  <2>3. QED
    BY <2>1, <2>2 DEF Contents
<1>5. CASE NoteShipped \/ ReadProgress \/ AdvanceHead
  BY <1>5
     DEF NoteShipped, ReadProgress, AdvanceHead, Contents, appVars, messageVars, ringThreadVars
<1>6. CASE SubmitFlushed \/ SubmitTimedOut
  <2>1. PICK m \in C2SMessage : ~IsDelta(m) /\ c2s' = Append(c2s, m)
    <3>1. /\ SubmitCmd(vAfter, TRUE) \in C2SMessage /\ ~IsDelta(SubmitCmd(vAfter, TRUE))
          /\ SubmitCmd(vAfter, FALSE) \in C2SMessage /\ ~IsDelta(SubmitCmd(vAfter, FALSE))
      BY <1>t DEF SubmitCmd, C2SMessage, IsDelta
    <3>2. QED
      BY <1>6, <3>1 DEF SubmitFlushed, SubmitTimedOut
  <2>2. UNCHANGED <<cbuf, tail, lastTail, wpc, delta, sent, sbuf, srep, applied, spc>>
    BY <1>6
       DEF SubmitFlushed, SubmitTimedOut, appVars, watcherVars, progressVars,
           messageVars, ringThreadVars
  <2>3. Carries(c2s')
    BY <1>t, <2>1, CarriesPush DEF Contents
  <2>4. spc = "publish" => c2s'[1] = c2s[1]
    <3>1. ASSUME spc = "publish" PROVE 1 \in 1 .. Len(c2s)
      BY <1>t, <3>1 DEF IInv, Chain
    <3>2. QED
      BY <1>t, <2>1, <3>1, AppendIs
  <2>5. QED
    BY <2>2, <2>3, <2>4 DEF Contents
<1>7. CASE ApplyBlobData \/ ApplySubmitCmd
  <2>1. /\ c2s # << >> /\ c2s' = Tail(c2s) /\ spc' = "recv"
        /\ UNCHANGED <<cbuf, tail, lastTail, wpc, delta, sent, sbuf, srep, applied>>
    BY <1>7
       DEF ApplyBlobData, ApplySubmitCmd, appVars, watcherVars, progressVars,
           ringThreadVars
  <2>2. Carries(c2s')
    BY <1>t, <2>1, CarriesPop DEF Contents
  <2>3. QED
    BY <2>1, <2>2 DEF Contents
<1>8. CASE ReceiveDelta
  <2>1. /\ c2s # << >> /\ IsDelta(c2s[1]) /\ Head(c2s) = c2s[1]
    BY <1>8, <1>t, TailIs DEF ReceiveDelta, IsDelta
  <2>2. DeltaFits(Head(c2s))
    BY <2>1, FrontDelta DEF IInv, DeltaFits
  <2>3. UNCHANGED <<c2s, cbuf, tail, lastTail, wpc, delta, sent, srep, applied>>
    BY <1>8, <2>2
       DEF ReceiveDelta, appVars, watcherVars, progressVars, ringThreadVars
  <2>4. QED
    BY <1>8, <2>3, ReceiveWrites DEF Contents
<1>9. CASE PublishTail
  <2>1. /\ c2s # << >> /\ c2s' = Tail(c2s) /\ spc = "publish" /\ spc' = "recv"
        /\ applied' = c2s[1].tail
        /\ UNCHANGED <<cbuf, tail, lastTail, wpc, delta, sent, sbuf, srep>>
    BY <1>9, <1>t, TailIs
       DEF PublishTail, IInv, Chain, appVars, watcherVars, progressVars,
           ringThreadVars
  <2>2. Carries(c2s')
    BY <1>t, <2>1, CarriesPop DEF Contents
  <2>3. c2s[1].tail \in Nat
    BY <1>9, <2>1, FrontDelta DEF IInv, Chain
  <2>4. \A p \in srep .. c2s[1].tail - 1 : p \in srep .. applied - 1 \/ p \in applied .. c2s[1].tail - 1
    BY <1>t, <2>3
  <2>5. Window(sbuf', srep', applied')
    BY <2>1, <2>4 DEF Contents, Window
  <2>6. QED
    BY <2>1, <2>2, <2>5 DEF Contents
<1>10. CASE Dispatch
  <2>1. /\ srep' \in Nat /\ srep <= srep'
        /\ UNCHANGED <<cbuf, tail, lastTail, wpc, delta, sent, c2s, sbuf, applied, spc>>
    BY <1>10, <1>t
       DEF Dispatch, appVars, watcherVars, progressVars, messageVars
  <2>2. \A p \in srep' .. applied - 1 : p \in srep .. applied - 1
    BY <1>t, <2>1
  <2>3. QED
    BY <2>1, <2>2 DEF Contents, Window
<1>11. CASE UNCHANGED <<cbuf, tail, lastTail, wpc, delta, sent, c2s, sbuf,
                        srep, applied, spc>>
  BY <1>11 DEF Contents
<1> QED
  BY <1>1, <1>2, <1>3, <1>4, <1>5, <1>6, <1>7, <1>8, <1>9, <1>10, <1>11
     DEF Next, Application, VtestThread, WatcherThread, ReaderThread,
         MessageThread, RingThread, ProgressThread,
         AppWrite, AppInline, FlushTarget, ReadReplyData, ReadRingProgress,
         StoreHead, TakeRingProgress, TakeVenusBlobWrites, ShipVenus,
         ShipProgress, vars, appVars, watcherVars, progressVars, messageVars,
         ringThreadVars

\* In every behaviour, what has been issued and not run yet is where it
\* should be, in order: in C's ring, in hand, on the link, in S's ring.
THEOREM StreamInvariant == Spec => []Contents
<1>1. IInv /\ Contents /\ [Next]_vars => Contents'
  BY ContentsStep
<1> QED
  BY <1>1, ContentsInit, Inductive, PTL DEF Spec

\* The slot the ring thread reads next holds the command the application
\* wrote at that place in the stream, for every size of the ring: the two
\* rings are reused a lap apart and neither overwrites what is still to run.
THEOREM StreamArrives == Spec => []StreamIntact
<1>1. IInv /\ Contents => StreamIntact
  <2> SUFFICES ASSUME IInv, Contents, srep < applied
               PROVE  sbuf[SlotOf(srep)].pos = srep
    BY DEF StreamIntact
  <2>1. srep \in srep .. applied - 1
    BY DEF IInv, TypeOK
  <2>2. QED
    BY <2>1 DEF Contents, Window
<1> QED
  BY <1>1, StreamInvariant, Inductive, PTL

-----------------------------------------------------------------------------
(* The memory the commands read.                                           *)

IsBlob(m) == m.type = "BlobData"

\* The commands need no newer memory than version v.
NeedAtMost(cmds, v) == \A k \in 1 .. Len(cmds) : cmds[k].need <= v

\* Once the first n messages are applied where the memory is at version mem,
\* it is at version v or newer.
Reaches(link, mem, n, v) ==
    \/ v <= mem
    \/ \E j \in 1 .. n : IsBlob(link[j]) /\ v <= link[j].ver

\* The blobs on a link only ever bring newer memory, none newer than what the
\* watcher has `told`, and every delta travels behind the memory it needs.
Fed(link, mem, told) ==
    /\ \A i \in 1 .. Len(link) :
         IsBlob(link[i]) => mem <= link[i].ver /\ link[i].ver <= told
    /\ \A i, j \in 1 .. Len(link) :
         i < j /\ IsBlob(link[i]) /\ IsBlob(link[j]) => link[i].ver <= link[j].ver
    /\ \A i \in 1 .. Len(link) :
         IsDelta(link[i]) =>
           \A k \in 1 .. Len(link[i].cmds) :
               Reaches(link, mem, i - 1, link[i].cmds[k].need)

\* No command needs memory the application had not written, and wherever a
\* command is, the memory it needs is there or ahead of it.
Memory ==
    /\ \A s \in 0 .. BufSize - 1 : cbuf[s].need <= appMem /\ sbuf[s].need <= smem
    /\ smem <= base /\ base <= appMem
    /\ wpc \in {"relay", "diff"} => NeedAtMost(delta, appMem)
    /\ wpc \in {"ship", "shipping"} => NeedAtMost(delta, base)
    /\ Fed(c2s, smem, base)
    /\ \/ Reaches(c2s, smem, Len(c2s), base)
       \/ wpc = "ship" /\ batch = << BlobData(base), RingDelta(lastTail, delta) >>

\* A slot carries the version it needs.
LEMMA SlotNeeds ==
    /\ \A c \in Slot : c.need \in Nat
    /\ Empty.need = 0
  BY DEF Slot, Command, Empty

\* Memory reached by a prefix is reached by a longer one.
LEMMA ReachesMore ==
    ASSUME NEW link, NEW mem, NEW v, NEW n \in Nat, NEW k \in Nat, n <= k,
           Reaches(link, mem, n, v)
    PROVE  Reaches(link, mem, k, v)
<1>1. 1 .. n \subseteq 1 .. k
  OBVIOUS
<1> QED
  BY <1>1 DEF Reaches

\* A message that joins a link leaves what the others reach.
LEMMA ReachesPush ==
    ASSUME NEW link \in Seq(C2SMessage), NEW m \in C2SMessage, NEW mem, NEW v,
           NEW n \in 0 .. Len(link), Reaches(link, mem, n, v)
    PROVE  Reaches(Append(link, m), mem, n, v)
<1>1. \A j \in 1 .. n : Append(link, m)[j] = link[j]
  BY AppendIs
<1> QED
  BY <1>1 DEF Reaches

\* A message that joins a link brings no older memory than the others, and
\* carries commands that need no more than the messages ahead of it bring.
LEMMA FedPush ==
    ASSUME NEW link \in Seq(C2SMessage), NEW m \in C2SMessage,
           NEW mem \in Nat, NEW told \in Nat, mem <= told, Fed(link, mem, told),
           IsBlob(m) => m.ver = told,
           IsDelta(m) =>
             \A k \in 1 .. Len(m.cmds) : Reaches(link, mem, Len(link), m.cmds[k].need)
    PROVE  Fed(Append(link, m), mem, told)
<1> DEFINE new == Append(link, m)
<1>1. /\ Len(new) = Len(link) + 1 /\ Len(link) \in Nat
      /\ new[Len(link) + 1] = m
      /\ \A i \in 1 .. Len(link) : new[i] = link[i]
  BY AppendIs
<1>r. ASSUME NEW n \in 0 .. Len(link), NEW v, Reaches(link, mem, n, v)
      PROVE  Reaches(new, mem, n, v)
  BY <1>r, ReachesPush
<1> HIDE DEF new
<1>2. ASSUME NEW i \in 1 .. Len(new), IsBlob(new[i])
      PROVE  mem <= new[i].ver /\ new[i].ver <= told
  <2>1. CASE i \in 1 .. Len(link)
    BY <1>1, <1>2, <2>1 DEF Fed
  <2>2. CASE i = Len(link) + 1
    BY <1>1, <1>2, <2>2
  <2>3. QED
    BY <1>1, <2>1, <2>2
<1>3. ASSUME NEW i \in 1 .. Len(new), NEW j \in 1 .. Len(new),
             i < j, IsBlob(new[i]), IsBlob(new[j])
      PROVE  new[i].ver <= new[j].ver
  <2>1. i \in 1 .. Len(link)
    BY <1>1, <1>3
  <2>2. CASE j \in 1 .. Len(link)
    BY <1>1, <1>3, <2>1, <2>2 DEF Fed
  <2>3. CASE j = Len(link) + 1
    <3>1. new[j].ver = told
      BY <1>1, <1>3, <2>3
    <3>2. QED
      BY <1>2, <1>3, <3>1
  <2>4. QED
    BY <1>1, <2>2, <2>3
<1>4. ASSUME NEW i \in 1 .. Len(new), IsDelta(new[i]),
             NEW k \in 1 .. Len(new[i].cmds)
      PROVE  Reaches(new, mem, i - 1, new[i].cmds[k].need)
  <2>1. CASE i \in 1 .. Len(link)
    <3>1. new[i] = link[i] /\ i - 1 \in 0 .. Len(link)
      BY <1>1, <2>1
    <3>2. Reaches(link, mem, i - 1, new[i].cmds[k].need)
      BY <1>4, <2>1, <3>1 DEF Fed
    <3>3. QED
      BY <1>r, <3>1, <3>2
  <2>2. CASE i = Len(link) + 1
    <3>1. new[i] = m /\ i - 1 = Len(link) /\ Len(link) \in 0 .. Len(link)
      BY <1>1, <2>2
    <3>2. QED
      BY <1>r, <1>4, <3>1
  <2>3. QED
    BY <1>1, <2>1, <2>2
<1>5. Fed(new, mem, told)
  BY <1>2, <1>3, <1>4 DEF Fed
<1> QED
  BY <1>5 DEF new

\* A message that leaves a link brings what it promised.
LEMMA ReachesPop ==
    ASSUME NEW link \in Seq(C2SMessage), link # << >>,
           NEW mem \in Nat, NEW newMem \in Nat, mem <= newMem,
           IsBlob(link[1]) => link[1].ver <= newMem,
           NEW v \in Nat, NEW n \in 1 .. Len(link), Reaches(link, mem, n, v)
    PROVE  Reaches(Tail(link), newMem, n - 1, v)
<1>1. /\ Len(Tail(link)) = Len(link) - 1 /\ Len(link) \in Nat
      /\ \A i \in 1 .. Len(link) - 1 : Tail(link)[i] = link[i + 1]
  BY TailIs
<1>2. CASE v <= mem
  BY <1>2 DEF Reaches
<1>3. ASSUME NEW j \in 1 .. n, IsBlob(link[j]), v <= link[j].ver
      PROVE  Reaches(Tail(link), newMem, n - 1, v)
  <2>1. CASE j = 1
    <3>1. link[1] \in C2SMessage
      BY <1>1
    <3>2. link[1].ver \in Nat
      BY <1>3, <2>1, <3>1, BlobDataCarries DEF IsBlob
    <3>3. QED
      BY <1>3, <2>1, <3>2 DEF Reaches
  <2>2. CASE j # 1
    <3>1. j - 1 \in 1 .. n - 1 /\ Tail(link)[j - 1] = link[j]
      BY <1>1, <2>2
    <3>2. QED
      BY <1>3, <3>1 DEF Reaches
  <2>3. QED
    BY <2>1, <2>2
<1> QED
  BY <1>2, <1>3 DEF Reaches

\* Taking a message off a link keeps every delta behind the memory it needs.
LEMMA FedPop ==
    ASSUME NEW link \in Seq(C2SMessage), link # << >>,
           NEW mem \in Nat, NEW newMem \in Nat, NEW told \in Nat,
           Fed(link, mem, told),
           \/ IsBlob(link[1]) /\ newMem = link[1].ver
           \/ ~IsBlob(link[1]) /\ newMem = mem
    PROVE  /\ mem <= newMem /\ Fed(Tail(link), newMem, told)
           /\ IsBlob(link[1]) => newMem <= told
<1> DEFINE new == Tail(link)
<1>1. /\ Len(new) = Len(link) - 1 /\ Len(link) \in Nat \ {0}
      /\ 1 \in 1 .. Len(link)
      /\ \A i \in 1 .. Len(link) - 1 : new[i] = link[i + 1] /\ i + 1 \in 1 .. Len(link)
  BY TailIs
<1>2. mem <= newMem /\ (IsBlob(link[1]) => newMem <= told)
  BY <1>1 DEF Fed
<1>r. ASSUME NEW n \in 1 .. Len(link), NEW v \in Nat, Reaches(link, mem, n, v)
      PROVE  Reaches(new, newMem, n - 1, v)
  <2>1. IsBlob(link[1]) => link[1].ver <= newMem
    OBVIOUS
  <2>2. QED
    BY <1>r, <1>2, <2>1, ReachesPop
<1> HIDE DEF new
<1>3. ASSUME NEW i \in 1 .. Len(new), IsBlob(new[i])
      PROVE  newMem <= new[i].ver /\ new[i].ver <= told
  <2>1. new[i] = link[i + 1] /\ i + 1 \in 1 .. Len(link) /\ 1 < i + 1
    BY <1>1
  <2>2. mem <= link[i + 1].ver /\ link[i + 1].ver <= told
    BY <1>3, <2>1 DEF Fed
  <2>3. IsBlob(link[1]) => link[1].ver <= link[i + 1].ver
    BY <1>1, <1>3, <2>1 DEF Fed
  <2>4. QED
    BY <2>1, <2>2, <2>3
<1>4. ASSUME NEW i \in 1 .. Len(new), NEW j \in 1 .. Len(new),
             i < j, IsBlob(new[i]), IsBlob(new[j])
      PROVE  new[i].ver <= new[j].ver
  <2>1. /\ new[i] = link[i + 1] /\ i + 1 \in 1 .. Len(link)
        /\ new[j] = link[j + 1] /\ j + 1 \in 1 .. Len(link) /\ i + 1 < j + 1
    BY <1>1, <1>4
  <2>2. QED
    BY <1>4, <2>1 DEF Fed
<1>5. ASSUME NEW i \in 1 .. Len(new), IsDelta(new[i]),
             NEW k \in 1 .. Len(new[i].cmds)
      PROVE  Reaches(new, newMem, i - 1, new[i].cmds[k].need)
  <2>1. new[i] = link[i + 1] /\ i + 1 \in 1 .. Len(link) /\ i \in 1 .. Len(link)
        /\ (i + 1) - 1 = i
    BY <1>1
  <2>2. Reaches(link, mem, i, link[i + 1].cmds[k].need)
    BY <1>5, <2>1 DEF Fed
  <2>3. link[i + 1].cmds[k].need \in Nat
    <3>1. link[i + 1] \in C2SMessage
      BY <2>1
    <3>2. link[i + 1].cmds \in Seq(Slot)
      BY <1>5, <2>1, <3>1, DeltaCarries
    <3>3. link[i + 1].cmds[k] \in Slot
      BY <1>5, <2>1, <3>2
    <3>4. QED
      BY <3>3, SlotNeeds
  <2>4. QED
    BY <1>r, <2>1, <2>2, <2>3
<1>6. Fed(new, newMem, told)
  BY <1>3, <1>4, <1>5 DEF Fed
<1> QED
  BY <1>2, <1>6 DEF new

\* Nothing has been written in the initial state.
LEMMA MemoryInit == Init => Memory
<1> SUFFICES ASSUME Init PROVE Memory
  OBVIOUS
<1>1. \A s \in 0 .. BufSize - 1 : cbuf[s].need <= appMem /\ sbuf[s].need <= smem
  BY SlotNeeds DEF Init
<1>2. Fed(c2s, smem, base) /\ Reaches(c2s, smem, Len(c2s), base)
  BY DEF Init, Fed, Reaches
<1> QED
  BY <1>1, <1>2 DEF Init, Memory

\* The watcher takes commands that need no more than the application wrote.
LEMMA TakeNeeds ==
    ASSUME IInv, Memory, TakeDelta
    PROVE  NeedAtMost(delta', appMem)
<1>1. /\ tail \in Nat /\ lastTail \in Nat /\ lastTail <= tail
      /\ delta' = Drained(tail) /\ BufSize \in Nat \ {0}
  BY RingAssumption DEF IInv, TypeOK, Cursors, TakeDelta
<1>2. Len(Drained(tail)) = tail - lastTail
  BY <1>1, DrainedType DEF IInv
<1>3. ASSUME NEW k \in 1 .. tail - lastTail
      PROVE  Drained(tail)[k].need <= appMem
  <2>1. lastTail + k - 1 \in Nat
    BY <1>1
  <2>2. SlotOf(lastTail + k - 1) \in 0 .. BufSize - 1
    BY <2>1, SlotRange
  <2>3. Drained(tail)[k] = cbuf[SlotOf(lastTail + k - 1)]
    BY DEF Drained
  <2>4. QED
    BY <2>2, <2>3 DEF Memory
<1> QED
  BY <1>1, <1>2, <1>3 DEF NeedAtMost

\* After the diff, whatever the batch carries, the memory the delta needs is
\* ahead of it: the diff is taken after the tail was read.
LEMMA DiffCovers ==
    ASSUME IInv, Memory, MessagesForDelta
    PROVE  Memory'
<1>1. /\ base' = appMem /\ wpc = "diff" /\ wpc' = "ship"
      /\ UNCHANGED <<cbuf, appMem, delta, lastTail, c2s, sbuf, smem>>
  BY DEF MessagesForDelta, appVars, messageVars
<1>2. /\ c2s \in Seq(C2SMessage) /\ smem \in Nat /\ base \in Nat /\ appMem \in Nat
      /\ lastTail \in Nat /\ delta \in Seq(Slot) /\ base <= appMem /\ smem <= base
  BY RingAssumption DEF IInv, TypeOK, Memory
<1>3. Fed(c2s, smem, appMem)
  <2>1. ASSUME NEW i \in 1 .. Len(c2s), IsBlob(c2s[i])
        PROVE  c2s[i].ver <= appMem
    <3>1. c2s[i] \in C2SMessage
      BY <1>2
    <3>2. c2s[i].ver \in Nat /\ c2s[i].ver <= base
      BY <2>1, <3>1, BlobDataCarries DEF IsBlob, Memory, Fed
    <3>3. QED
      BY <1>2, <3>2
  <2>2. QED
    BY <2>1 DEF Memory, Fed
<1>4. \/ Reaches(c2s, smem, Len(c2s), appMem)
      \/ batch' = << BlobData(appMem), RingDelta(lastTail, delta) >>
  <2>1. CASE appMem = base
    BY <1>1, <2>1 DEF Memory
  <2>2. CASE appMem # base
    <3>1. BlobData(appMem) \in C2SMessage /\ RingDelta(lastTail, delta) \in C2SMessage
      BY <1>2, MessageTypes
    <3>2. batch' = Append(<< BlobData(appMem) >>, RingDelta(lastTail, delta))
      BY <2>2 DEF MessagesForDelta, ChangedRuns
    <3>3. QED
      BY <3>1, <3>2, ShortBatches
  <2>3. QED
    BY <2>1, <2>2
<1>5. NeedAtMost(delta, appMem)
  BY <1>1 DEF Memory
<1>6. smem <= appMem
  BY <1>2
<1> QED
  BY <1>1, <1>2, <1>3, <1>4, <1>5, <1>6 DEF Memory

\* The batch goes out with the memory ahead of the commands that need it.
LEMMA ShipFeeds ==
    ASSUME IInv, Memory, ShipMessage
    PROVE  Fed(c2s', smem, base) /\ Reaches(c2s', smem, Len(c2s'), base)
<1> DEFINE d == RingDelta(lastTail, delta)
           b == BlobData(base)
<1>1. /\ d \in C2SMessage /\ d.cmds = delta /\ IsDelta(d) /\ ~IsBlob(d)
      /\ b \in C2SMessage /\ b.ver = base /\ IsBlob(b) /\ ~IsDelta(b)
      /\ c2s \in Seq(C2SMessage) /\ smem \in Nat /\ base \in Nat
      /\ delta \in Seq(Slot) /\ smem <= base
  BY MessageTypes
     DEF IInv, TypeOK, RingDelta, BlobData, IsDelta, IsBlob, Memory
<1>2. /\ \/ c2s' = Append(c2s, b)
         \/ c2s' = Append(c2s, d) /\ batch = << d >>
      /\ Reaches(c2s, smem, Len(c2s), base) \/ batch = << b, d >>
      /\ NeedAtMost(delta, base) /\ Fed(c2s, smem, base)
  BY ShipSends DEF IInv, ShipMessage, Memory
<1>l. /\ Len(c2s) \in 0 .. Len(c2s) /\ Len(c2s) \in Nat
      /\ \A m \in C2SMessage : /\ Len(Append(c2s, m)) = Len(c2s) + 1
                              /\ Append(c2s, m)[Len(c2s) + 1] = m
  BY <1>1, AppendIs
<1>3. ASSUME Reaches(c2s, smem, Len(c2s), base), NEW k \in 1 .. Len(delta)
      PROVE  Reaches(c2s, smem, Len(c2s), delta[k].need)
  <2>1. delta[k].need \in Nat /\ delta[k].need <= base
    BY <1>1, <1>2, SlotNeeds DEF NeedAtMost
  <2>2. ASSUME NEW j \in 1 .. Len(c2s), IsBlob(c2s[j]), base <= c2s[j].ver
        PROVE  delta[k].need <= c2s[j].ver
    <3>1. c2s[j] \in C2SMessage
      BY <1>1
    <3>2. c2s[j].ver \in Nat
      BY <2>2, <3>1, BlobDataCarries DEF IsBlob
    <3>3. QED
      BY <1>1, <2>1, <2>2, <3>2
  <2>3. base <= smem => delta[k].need <= smem
    BY <1>1, <2>1
  <2>4. QED
    BY <1>3, <2>2, <2>3 DEF Reaches
<1>4. << d >> # << b, d >>
  OBVIOUS
<1> HIDE DEF d, b
<1>5. CASE c2s' = Append(c2s, b)
  <2>1. Fed(c2s', smem, base)
    BY <1>1, <1>2, <1>5, FedPush
  <2>2. base <= b.ver
    BY <1>1
  <2>3. QED
    BY <1>1, <1>5, <1>l, <2>1, <2>2 DEF Reaches
<1>6. CASE c2s' = Append(c2s, d) /\ batch = << d >>
  <2>1. Reaches(c2s, smem, Len(c2s), base)
    BY <1>2, <1>4, <1>6
  <2>2. \A k \in 1 .. Len(d.cmds) : Reaches(c2s, smem, Len(c2s), d.cmds[k].need)
    BY <1>1, <1>3, <2>1
  <2>3. Fed(c2s', smem, base)
    BY <1>1, <1>2, <1>6, <2>2, FedPush
  <2>4. Reaches(c2s', smem, Len(c2s), base)
    BY <1>1, <1>6, <1>l, <2>1, ReachesPush
  <2>5. Len(c2s') = Len(c2s) + 1 /\ Len(c2s) \in Nat
    BY <1>1, <1>6, <1>l
  <2>6. Reaches(c2s', smem, Len(c2s'), base)
    BY <2>4, <2>5, ReachesMore
  <2>7. QED
    BY <2>3, <2>6
<1> QED
  BY <1>2, <1>5, <1>6

\* What is written into S's ring needs no newer memory than S has by then.
LEMMA ReceiveNeeds ==
    ASSUME IInv, Memory, ReceiveDelta
    PROVE  \A s \in 0 .. BufSize - 1 : sbuf'[s].need <= smem
<1> DEFINE cmds == c2s[1].cmds
<1>1. /\ c2s # << >> /\ Head(c2s) = c2s[1] /\ IsDelta(c2s[1])
      /\ 1 \in 1 .. Len(c2s) /\ c2s[1] \in C2SMessage
      /\ smem \in Nat /\ applied \in Nat /\ BufSize \in Nat \ {0}
  BY TailIs, RingAssumption DEF IInv, TypeOK, ReceiveDelta, IsDelta
<1>2. DeltaFits(Head(c2s)) /\ Len(cmds) \in Nat
  <2>1. Len(cmds) \in 1 .. BufSize /\ c2s[1].tail - applied = Len(cmds)
    BY <1>1, FrontDelta DEF IInv
  <2>2. QED
    BY <1>1, <2>1 DEF DeltaFits
<1>3. sbuf' = Written(cmds)
  BY <1>1, <1>2 DEF ReceiveDelta
<1>4. \A k \in 1 .. Len(cmds) : cmds[k].need <= smem
  BY <1>1 DEF Memory, Fed, Reaches
<1> HIDE DEF cmds
<1> SUFFICES ASSUME NEW s \in 0 .. BufSize - 1
             PROVE  sbuf'[s].need <= smem
  OBVIOUS
<1> DEFINE i == ((s - applied) % BufSize) + 1
<1>5. i \in Nat /\ i >= 1
  <2>1. (s - applied) % BufSize \in 0 .. BufSize - 1
    BY <1>1
  <2>2. QED
    BY <1>1, <2>1
<1>6. sbuf'[s] = IF i <= Len(cmds) THEN cmds[i] ELSE sbuf[s]
  BY <1>3 DEF Written
<1> HIDE DEF i
<1>7. CASE i <= Len(cmds)
  <2>1. i \in 1 .. Len(cmds)
    BY <1>2, <1>5, <1>7
  <2>2. QED
    BY <1>4, <1>6, <1>7, <2>1
<1>8. CASE ~(i <= Len(cmds))
  BY <1>6, <1>8 DEF Memory
<1> QED
  BY <1>7, <1>8

\* Every step keeps the memory ahead of the commands that need it.
LEMMA MemoryStep ==
    IInv /\ Memory /\ [Next]_vars => Memory'
<1> SUFFICES ASSUME IInv, Memory, [Next]_vars
             PROVE  Memory'
  OBVIOUS
<1>t. /\ c2s \in Seq(C2SMessage) /\ smem \in Nat /\ base \in Nat /\ appMem \in Nat
      /\ vAfter \in Nat /\ tail \in Nat /\ BufSize \in Nat \ {0}
      /\ cbuf \in [0 .. BufSize - 1 -> Slot] /\ delta \in Seq(Slot)
      /\ SlotOf(tail) \in 0 .. BufSize - 1
  <2>1. tail \in Nat /\ appMem \in Nat
    BY RingAssumption DEF IInv, TypeOK
  <2>2. SlotOf(tail) \in 0 .. BufSize - 1
    BY <2>1, SlotRange
  <2>3. QED
    BY <2>1, <2>2, RingAssumption DEF IInv, TypeOK
<1>1. CASE AppIssue
  <2>1. /\ cbuf' = [cbuf EXCEPT ![SlotOf(tail)] = [pos |-> tail, need |-> appMem]]
        /\ UNCHANGED <<appMem, wpc, delta, batch, lastTail, base, c2s, sbuf, smem>>
    BY <1>1 DEF AppIssue, watcherVars, messageVars
  <2>2. \A s \in 0 .. BufSize - 1 : cbuf'[s].need <= appMem
    BY <1>t, <2>1 DEF Memory
  <2>3. QED
    BY <2>1, <2>2 DEF Memory
<1>2. CASE AppWrite
  <2>1. /\ appMem' = appMem + 1
        /\ UNCHANGED <<cbuf, wpc, delta, batch, lastTail, base, c2s, sbuf, smem>>
    BY <1>2 DEF AppWrite, watcherVars, messageVars
  <2>2. \A s \in 0 .. BufSize - 1 : cbuf[s].need <= appMem'
    BY <1>t, <2>1, SlotNeeds DEF Memory
  <2>3. NeedAtMost(delta, appMem) => NeedAtMost(delta, appMem')
    BY <1>t, <2>1, SlotNeeds DEF NeedAtMost
  <2>4. base <= appMem'
    BY <1>t, <2>1 DEF Memory
  <2>5. QED
    BY <2>1, <2>2, <2>3, <2>4 DEF Memory
<1>3. CASE TakeDelta
  <2>1. /\ NeedAtMost(delta', appMem) /\ wpc = "take" /\ wpc' = "relay"
        /\ UNCHANGED <<cbuf, appMem, base, c2s, sbuf, smem>>
    BY <1>3, TakeNeeds DEF TakeDelta, appVars, messageVars
  <2>2. QED
    BY <2>1 DEF Memory
<1>4. CASE NoteRelayed
  BY <1>4 DEF NoteRelayed, Memory, appVars, messageVars
<1>5. CASE MessagesForDelta
  BY <1>5, DiffCovers
<1>6. CASE ShipMessage
  <2>1. /\ wpc \in {"ship", "shipping"} /\ wpc' \in {"shipping", "note"}
        /\ UNCHANGED <<cbuf, appMem, delta, base, sbuf, smem>>
    BY <1>6 DEF ShipMessage, appVars, messageVars
  <2>2. QED
    BY <1>6, <2>1, ShipFeeds DEF Memory
<1>7. CASE NoteShipped \/ ReadProgress \/ AdvanceHead
  BY <1>7 DEF NoteShipped, ReadProgress, AdvanceHead, Memory, appVars, messageVars
<1>8. CASE SubmitFlushed \/ SubmitTimedOut
  <2>1. PICK m \in C2SMessage : ~IsDelta(m) /\ ~IsBlob(m) /\ c2s' = Append(c2s, m)
    <3>1. /\ SubmitCmd(vAfter, TRUE) \in C2SMessage
          /\ ~IsDelta(SubmitCmd(vAfter, TRUE)) /\ ~IsBlob(SubmitCmd(vAfter, TRUE))
          /\ SubmitCmd(vAfter, FALSE) \in C2SMessage
          /\ ~IsDelta(SubmitCmd(vAfter, FALSE)) /\ ~IsBlob(SubmitCmd(vAfter, FALSE))
      BY <1>t DEF SubmitCmd, C2SMessage, IsDelta, IsBlob
    <3>2. QED
      BY <1>8, <3>1 DEF SubmitFlushed, SubmitTimedOut
  <2>2. UNCHANGED <<cbuf, appMem, wpc, delta, batch, lastTail, base, sbuf, smem>>
    BY <1>8
       DEF SubmitFlushed, SubmitTimedOut, appVars, watcherVars, messageVars
  <2>3. Fed(c2s', smem, base)
    BY <1>t, <2>1, FedPush DEF Memory
  <2>4. Reaches(c2s, smem, Len(c2s), base) => Reaches(c2s', smem, Len(c2s'), base)
    <3>1. /\ Len(c2s) \in 0 .. Len(c2s) /\ Len(c2s') = Len(c2s) + 1 /\ Len(c2s) \in Nat
      BY <1>t, <2>1, AppendIs
    <3>2. Reaches(c2s, smem, Len(c2s), base) => Reaches(c2s', smem, Len(c2s), base)
      BY <1>t, <2>1, <3>1, ReachesPush
    <3>3. QED
      BY <3>1, <3>2 DEF Reaches
  <2>5. QED
    BY <2>2, <2>3, <2>4 DEF Memory
<1>9. CASE ApplyBlobData \/ ApplySubmitCmd \/ PublishTail
  <2>1. /\ c2s # << >> /\ Head(c2s) = c2s[1] /\ c2s' = Tail(c2s)
        /\ c2s[1] \in C2SMessage /\ Len(c2s) \in 1 .. Len(c2s)
        /\ Len(c2s') = Len(c2s) - 1
    BY <1>9, <1>t, TailIs DEF ApplyBlobData, ApplySubmitCmd, PublishTail, IInv, Chain
  <2>2. UNCHANGED <<cbuf, appMem, wpc, delta, batch, lastTail, base, sbuf>>
    BY <1>9
       DEF ApplyBlobData, ApplySubmitCmd, PublishTail, appVars, watcherVars
  <2>3. \/ IsBlob(c2s[1]) /\ smem' = c2s[1].ver
        \/ ~IsBlob(c2s[1]) /\ smem' = smem
    BY <1>9, <2>1
       DEF ApplyBlobData, ApplySubmitCmd, PublishTail, IsBlob, IInv, Chain, IsDelta
  <2>4. smem' \in Nat
    BY <1>t, <2>1, <2>3, BlobDataCarries DEF IsBlob
  <2>5. /\ smem <= smem' /\ Fed(c2s', smem', base)
        /\ IsBlob(c2s[1]) => smem' <= base
    BY <1>t, <2>1, <2>3, <2>4, FedPop DEF Memory
  <2>6. smem' <= base
    BY <2>3, <2>5 DEF Memory
  <2>7. Reaches(c2s, smem, Len(c2s), base) => Reaches(c2s', smem', Len(c2s'), base)
    <3>1. IsBlob(c2s[1]) => c2s[1].ver <= smem'
      BY <2>3, <2>4
    <3>2. QED
      BY <1>t, <2>1, <2>4, <2>5, <3>1, ReachesPop
  <2>8. \A s \in 0 .. BufSize - 1 : sbuf[s].need <= smem'
    <3>1. sbuf \in [0 .. BufSize - 1 -> Slot]
      BY DEF IInv, TypeOK
    <3>2. QED
      BY <1>t, <2>4, <2>5, <3>1, SlotNeeds DEF Memory
  <2>9. QED
    BY <2>2, <2>5, <2>6, <2>7, <2>8 DEF Memory
<1>10. CASE ReceiveDelta
  <2>1. c2s # << >> /\ IsDelta(c2s[1]) /\ Head(c2s) = c2s[1]
    BY <1>10, <1>t, TailIs DEF ReceiveDelta, IsDelta
  <2>2. DeltaFits(Head(c2s))
    BY <2>1, FrontDelta DEF IInv, DeltaFits
  <2>3. UNCHANGED <<cbuf, appMem, wpc, delta, batch, lastTail, base, c2s, smem>>
    BY <1>10, <2>2 DEF ReceiveDelta, appVars, watcherVars
  <2>4. \A s \in 0 .. BufSize - 1 : sbuf'[s].need <= smem
    BY <1>10, ReceiveNeeds
  <2>5. QED
    BY <2>3, <2>4 DEF Memory
<1>11. CASE UNCHANGED <<cbuf, appMem, wpc, delta, batch, lastTail, base, c2s,
                        sbuf, smem>>
  BY <1>11 DEF Memory
<1> QED
  BY <1>1, <1>2, <1>3, <1>4, <1>5, <1>6, <1>7, <1>8, <1>9, <1>10, <1>11
     DEF Next, Application, VtestThread, WatcherThread, ReaderThread,
         MessageThread, RingThread, ProgressThread,
         AppInline, FlushTarget, ReadReplyData, ReadRingProgress, Dispatch,
         StoreHead, TakeRingProgress, TakeVenusBlobWrites, ShipVenus,
         ShipProgress, vars, appVars, watcherVars, messageVars

\* In every behaviour, the memory a command needs is on S or on its way ahead
\* of the command.
THEOREM MemoryInvariant == Spec => []Memory
<1>1. IInv /\ Memory /\ [Next]_vars => Memory'
  BY MemoryStep
<1> QED
  BY <1>1, MemoryInit, Inductive, PTL DEF Spec

\* By the time the ring thread can see a command, S's memory is at least as
\* new as the application's was when it issued it.
THEOREM MemoryArrives == Spec => []MemoryBeforeCommand
<1>1. IInv /\ Memory => MemoryBeforeCommand
  <2> SUFFICES ASSUME IInv, Memory, srep < applied
               PROVE  sbuf[SlotOf(srep)].need <= smem
    BY DEF MemoryBeforeCommand
  <2>1. SlotOf(srep) \in 0 .. BufSize - 1
    <3>1. srep \in Nat
      BY DEF IInv, TypeOK
    <3>2. QED
      BY <3>1, SlotRange
  <2>2. QED
    BY <2>1 DEF Memory
<1> QED
  BY <1>1, MemoryInvariant, Inductive, PTL

=============================================================================
