--------------------------- MODULE ReadbackProofs ---------------------------
(***************************************************************************)
(* Proofs about Readback under its window (Window), for every set of       *)
(* pixels and any number of frames and polls.                              *)
(*                                                                         *)
(*   TypeCorrect     WindowSpec => []TypeOK                                *)
(*   ReadsAreWhole   WindowSpec => []ReadIsWhole                           *)
(*   WindowShowsIt   ~ Word, WindowSpec => []WindowAgrees                  *)
(*                                                                         *)
(* What the application reads is the work of three parties that do not     *)
(* name each other's frames, and the proof follows them.                   *)
(*                                                                         *)
(*   The GPU: Frames counts, for every pixel, what was written, what is    *)
(*   still to write and the submission not yet run, and that makes the     *)
(*   frame's number.                                                       *)
(*   The progress thread: Fresh says that a pass which reports the yes the *)
(*   application waits for has diffed before it ships, because the answer  *)
(*   is then in a part of the arena that S still scans (Replies), however  *)
(*   many older answers are there with it; before that yes a diff may      *)
(*   catch anything.                                                       *)
(*   The link: Mirror says that the last message about a pixel is what S's *)
(*   shadow says of it, Joined that the answers travel once and in order,  *)
(*   Increasing that heads go up, so that C's head reaches the last        *)
(*   command only when all that went before has arrived (Settled).         *)
(*                                                                         *)
(* The window and the main thread read and write nothing of this; all they *)
(* add is that a batch may not be shipped any more (Ends).                 *)
(***************************************************************************)
EXTENDS Window, FiniteSetTheorems, SequenceTheorems, TLAPS

-----------------------------------------------------------------------------
(* The inductive invariant.                                                *)

\* What travels from S to C.
Message ==
    [type : {"PixelData"}, changes : UNION {[D -> 0 .. MaxFrame] : D \in SUBSET Pixels}]
    \cup [type : {"WordData"}, word : 0 .. MaxFrame]
    \cup [type : {"ReplyData"}, answers : Seq(BOOLEAN)]
    \cup [type : {"RingProgress"}, head : Nat]

\* The types of the application, of C and of S's engine ...
EngineTypes ==
    /\ phase \in {"draw", "poll", "wait", "read"} /\ frame \in 0 .. MaxFrame
    /\ stream \in Seq({"submit", "poll"})
    /\ cres \in [Pixels -> 0 .. MaxFrame] /\ sres \in [Pixels -> 0 .. MaxFrame]
    /\ todo \in SUBSET Pixels
    /\ creplies \in Seq(BOOLEAN) /\ replies \in Seq(BOOLEAN)
    /\ chead \in Nat /\ ran \in Nat /\ shead \in Nat /\ forgotten \in Nat
    /\ word \in Nat

\* ... and of the progress thread and the link.
ProgressTypes ==
    /\ ppc \in {"poll", "scan", "diff", "shipApp", "ship", "shipProgress", "ended"}
    /\ reported \in Nat /\ toldReplies \in Nat
    /\ wordShadow \in Nat /\ wordShadow <= word
    /\ resShadow \in [Pixels -> 0 .. MaxFrame]
    /\ live \in [Pixels -> - MaxFrame .. MaxFrame]
    /\ s2c \in Seq(Message)
    /\ \/ venus = << >>
       \/ \E a \in Seq(BOOLEAN) : venus = << ReplyData(a) >>
    /\ ppc \in {"poll", "scan", "shipProgress"} => venus = << >>
    /\ \/ app = << >>
       \/ \E m \in Message : app = << m >> /\ m.type \in {"PixelData", "WordData"}
       \/ \E m, n \in Message :
            app = << m, n >> /\ m.type = "PixelData" /\ n.type = "WordData"
    /\ ppc \notin {"shipApp", "ended"} => app = << >>

\* A link whose heads go up, from above and as far as upto.
Increasing(link, above, upto) ==
    /\ \A i \in DOMAIN link :
         link[i].type = "RingProgress" => above < link[i].head /\ link[i].head <= upto
    /\ \A i, j \in DOMAIN link :
         i < j /\ link[i].type = "RingProgress" /\ link[j].type = "RingProgress"
           => link[i].head < link[j].head

\* The cursors, and the heads on the link: while the progress thread is idle,
\* its last is the last thing on the link.
Heads ==
    /\ chead <= reported /\ reported <= shead /\ shead <= ran /\ ran <= shead + 1
    /\ ran <= Len(stream)
    /\ ppc # "poll" => chead < reported
    /\ ppc = "poll" /\ s2c # << >> => s2c[Len(s2c)].type = "RingProgress"
    /\ Increasing(s2c, chead, IF ppc = "poll" THEN reported ELSE reported - 1)

\* The submission of the frame has been run.
Begun == \A i \in ran + 1 .. Len(stream) : stream[i] = "poll"

\* The application asks one thing at a time.
Commands ==
    /\ phase \in {"draw", "read"} => chead = Len(stream)
    /\ phase = "poll" =>
         \/ chead = Len(stream)
         \/ stream[Len(stream)] = "submit" /\ chead + 1 = Len(stream)
    /\ phase = "wait" =>
         /\ stream # << >> /\ stream[Len(stream)] = "poll"
         /\ \/ chead = Len(stream) \/ chead + 1 = Len(stream)
            \/ chead + 2 = Len(stream) /\ stream[Len(stream) - 1] = "submit"

\* The poll that the application waits for has been answered.
Answered == phase = "wait" => ran = Len(stream)

\* Every pixel was written once for each submission run, but those to do.
Frames ==
    /\ \A p \in Pixels :
         sres[p] + (IF p \in todo THEN 1 ELSE 0) + (IF Begun THEN 0 ELSE 1) = frame
    /\ ~ Begun => todo = {}
    /\ Word => word + (IF todo = {} THEN 0 ELSE 1) + (IF Begun THEN 0 ELSE 1) = frame
    /\ phase \in {"draw", "read"} => todo = {}

\* One answer for each poll run; S still has the last, and its yes is true.
Replies ==
    /\ Polls \in Nat
    /\ Polls = Len(replies) + (IF Answered THEN 0 ELSE 1)
    /\ forgotten <= Len(creplies) /\ Len(creplies) <= toldReplies
    /\ toldReplies <= Len(replies)
    /\ phase = "wait" => forgotten < Polls
    /\ reported = ran /\ ppc # "scan" => toldReplies = Len(replies)

\* The last answer is the one the application waits for, and it is yes.
SaysYes == phase = "wait" /\ Answered /\ replies[Len(replies)]

\* A link on which the answers from + 1 to upto of what was said travel, in order.
Joined(link, from, upto, said) ==
    \E at \in [0 .. Len(link) -> Nat] :
        /\ at[0] = from /\ at[Len(link)] = upto
        /\ \A i \in DOMAIN link :
             IF link[i].type = "ReplyData"
             THEN /\ at[i] = at[i - 1] + Len(link[i].answers)
                  /\ at[i] <= upto
                  /\ \A k \in DOMAIN link[i].answers :
                       link[i].answers[k] = said[at[i - 1] + k]
             ELSE at[i] = at[i - 1]

\* Answers in the progress thread's hands.
InHand == IF venus = << >> THEN 0 ELSE Len(venus[1].answers)

Answers ==
    /\ \A k \in DOMAIN creplies : creplies[k] = replies[k]
    /\ Joined(s2c, Len(creplies), toldReplies - InHand, replies)
    /\ venus # << >> =>
         /\ InHand <= toldReplies
         /\ \A k \in DOMAIN venus[1].answers :
              venus[1].answers[k] = replies[toldReplies - InHand + k]

\* A message that says what a pixel is; and what one on the link or in hand
\* leaves on C is what S's shadow says.
Says(m, p) == m.type = "PixelData" /\ p \in DOMAIN m.changes

Leaves(link, p, was, is) ==
    /\ (\A i \in DOMAIN link : ~ Says(link[i], p)) => was = is
    /\ \A i \in DOMAIN link :
         Says(link[i], p) /\ (\A j \in DOMAIN link : i < j => ~ Says(link[j], p))
           => link[i].changes[p] = is

Mirror ==
    \A p \in Pixels :
        IF \E i \in DOMAIN app : Says(app[i], p)
        THEN app[1].changes[p] = resShadow[p] /\ Says(app[1], p)
        ELSE Leaves(s2c, p, cres[p], resShadow[p])

\* A pass that reports the yes diffs before it ships; after it nothing moves.
Fresh ==
    /\ SaysYes => todo = {} /\ Begun
    /\ SaysYes /\ reported = ran /\ ppc \notin {"scan", "diff"} => resShadow = sres
    /\ phase \in {"draw", "read"} => resShadow = sres

\* The live frame has what the shadow has, if nothing else is folded into it.
Teed == ~ Word => word = 0 /\ wordShadow = 0 /\ live = resShadow

IInv ==
    /\ EngineTypes /\ ProgressTypes /\ Heads /\ Commands /\ Frames /\ Replies
    /\ Answers /\ Mirror /\ Fresh /\ Teed

-----------------------------------------------------------------------------
(* Links.                                                                  *)

\* A sequence without its first element.
LEMMA Popped ==
    ASSUME NEW S, NEW q \in Seq(S), q # << >>
    PROVE  /\ Head(q) \in S /\ Head(q) = q[1] /\ 1 \in DOMAIN q
           /\ Len(q) \in Nat /\ DOMAIN q = 1 .. Len(q)
           /\ Tail(q) \in Seq(S) /\ Len(Tail(q)) = Len(q) - 1
           /\ DOMAIN Tail(q) = 1 .. Len(q) - 1
           /\ \A i \in DOMAIN Tail(q) :
                i \in Nat \ {0} /\ i + 1 \in DOMAIN q /\ Tail(q)[i] = q[i + 1]
  OBVIOUS

\* A sequence with one more.
LEMMA Pushed ==
    ASSUME NEW S, NEW q \in Seq(S), NEW m \in S
    PROVE  /\ Append(q, m) \in Seq(S) /\ Len(Append(q, m)) = Len(q) + 1
           /\ DOMAIN Append(q, m) = DOMAIN q \cup {Len(q) + 1}
           /\ Len(q) \in Nat /\ DOMAIN q = 1 .. Len(q)
           /\ \A i \in DOMAIN q : i \in Nat /\ i # Len(q) + 1 /\ Append(q, m)[i] = q[i]
           /\ Append(q, m)[Len(q) + 1] = m
  OBVIOUS

\* A batch of one message.
LEMMA OneMore ==
    ASSUME NEW S, NEW q \in Seq(S), NEW m \in S
    PROVE  q \o << m >> = Append(q, m)
  OBVIOUS

\* A batch of two.
LEMMA TwoMore ==
    ASSUME NEW S, NEW q \in Seq(S), NEW m \in S, NEW n \in S
    PROVE  q \o << m, n >> = Append(Append(q, m), n)
  OBVIOUS

\* Nothing more.
LEMMA NoMore ==
    ASSUME NEW S, NEW q \in Seq(S)
    PROVE  q \o << >> = q
  OBVIOUS

\* A message on the link: what it is, and the answers it carries.
LEMMA Messages ==
    ASSUME NEW m \in Message
    PROVE  /\ m.type \in {"PixelData", "WordData", "ReplyData", "RingProgress"}
           /\ m.type = "ReplyData" =>
                /\ m.answers \in Seq(BOOLEAN) /\ Len(m.answers) \in Nat
                /\ DOMAIN m.answers = 1 .. Len(m.answers)
           /\ m.type = "RingProgress" => m.head \in Nat
           /\ m.type = "PixelData" =>
                \A p \in DOMAIN m.changes : m.changes[p] \in 0 .. MaxFrame
<1>1. m.type = "ReplyData" =>
        /\ m.answers \in Seq(BOOLEAN) /\ Len(m.answers) \in Nat
        /\ DOMAIN m.answers = 1 .. Len(m.answers)
  BY DEF Message
<1>2. m.type = "PixelData" =>
        \A p \in DOMAIN m.changes : m.changes[p] \in 0 .. MaxFrame
  BY DEF Message
<1> QED
  BY <1>1, <1>2 DEF Message

\* One more message carries the answers that come next, if any.
LEMMA JoinedPush ==
    ASSUME NEW link \in Seq(Message), NEW m \in Message, NEW said,
           NEW from \in Nat, NEW upto \in Nat, NEW more \in Nat,
           Joined(link, from, upto, said),
           IF m.type = "ReplyData"
           THEN /\ more = upto + Len(m.answers)
                /\ \A k \in DOMAIN m.answers : m.answers[k] = said[upto + k]
           ELSE more = upto
    PROVE  Joined(Append(link, m), from, more, said)
<1> DEFINE long == Append(link, m)
           n == Len(link)
<1>1. /\ long \in Seq(Message) /\ Len(long) = n + 1 /\ n \in Nat
      /\ DOMAIN long = DOMAIN link \cup {n + 1} /\ DOMAIN link = 1 .. n
      /\ \A i \in DOMAIN link : i \in Nat /\ i # n + 1 /\ long[i] = link[i]
      /\ long[n + 1] = m
  BY Pushed
<1>2. upto <= more
  BY Messages
<1>3. PICK at \in [0 .. n -> Nat] :
        /\ at[0] = from /\ at[n] = upto
        /\ \A i \in DOMAIN link :
             IF link[i].type = "ReplyData"
             THEN /\ at[i] = at[i - 1] + Len(link[i].answers)
                  /\ at[i] <= upto
                  /\ \A k \in DOMAIN link[i].answers :
                       link[i].answers[k] = said[at[i - 1] + k]
             ELSE at[i] = at[i - 1]
  BY DEF Joined
<1> DEFINE to == [i \in 0 .. n + 1 |-> IF i = n + 1 THEN more ELSE at[i]]
<1> HIDE DEF long
<1>4. /\ to \in [0 .. n + 1 -> Nat] /\ to[0] = from /\ to[n + 1] = more
      /\ \A i \in 0 .. n : to[i] = at[i]
  BY <1>1, <1>3
<1> HIDE DEF to
<1>5. ASSUME NEW i \in DOMAIN long
      PROVE  IF long[i].type = "ReplyData"
             THEN /\ to[i] = to[i - 1] + Len(long[i].answers)
                  /\ to[i] <= more
                  /\ \A k \in DOMAIN long[i].answers :
                       long[i].answers[k] = said[to[i - 1] + k]
             ELSE to[i] = to[i - 1]
  <2>1. CASE i = n + 1
    <3>1. to[i - 1] = upto /\ to[i] = more /\ long[i] = m
      BY <1>1, <1>3, <1>4, <2>1
    <3> QED
      BY <3>1
  <2>2. CASE i \in DOMAIN link
    <3>1. to[i] = at[i] /\ to[i - 1] = at[i - 1] /\ long[i] = link[i] /\ at[i] \in Nat
      BY <1>1, <1>3, <1>4, <2>2
    <3> QED
      BY <1>2, <1>3, <3>1, <2>2
  <2> QED
    BY <1>1, <2>1, <2>2
<1>6. Joined(long, from, more, said)
  BY <1>1, <1>4, <1>5 DEF Joined
<1> QED
  BY <1>6 DEF long

\* The first message carries the answers that come next.
LEMMA JoinedPop ==
    ASSUME NEW link \in Seq(Message), link # << >>, NEW said,
           NEW from \in Nat, NEW upto \in Nat,
           Joined(link, from, upto, said)
    PROVE  IF Head(link).type = "ReplyData"
           THEN /\ from + Len(Head(link).answers) <= upto
                /\ \A k \in DOMAIN Head(link).answers :
                     Head(link).answers[k] = said[from + k]
                /\ Joined(Tail(link), from + Len(Head(link).answers), upto, said)
           ELSE Joined(Tail(link), from, upto, said)
<1> DEFINE rest == Tail(link)
           n == Len(link)
           m == Head(link)
<1>1. /\ m \in Message /\ m = link[1] /\ 1 \in DOMAIN link
      /\ n \in Nat /\ DOMAIN link = 1 .. n
      /\ Len(rest) = n - 1 /\ DOMAIN rest = 1 .. n - 1
      /\ \A i \in DOMAIN rest : i \in Nat \ {0} /\ i + 1 \in DOMAIN link /\ rest[i] = link[i + 1]
  BY Popped
<1>2. PICK at \in [0 .. n -> Nat] :
        /\ at[0] = from /\ at[n] = upto
        /\ \A i \in DOMAIN link :
             IF link[i].type = "ReplyData"
             THEN /\ at[i] = at[i - 1] + Len(link[i].answers)
                  /\ at[i] <= upto
                  /\ \A k \in DOMAIN link[i].answers :
                       link[i].answers[k] = said[at[i - 1] + k]
             ELSE at[i] = at[i - 1]
  BY DEF Joined
<1> DEFINE to == [i \in 0 .. n - 1 |-> at[i + 1]]
<1> HIDE DEF rest, m
<1>3. /\ to \in [0 .. n - 1 -> Nat] /\ to[0] = at[1] /\ to[n - 1] = upto
      /\ \A i \in 0 .. n - 1 : to[i] = at[i + 1]
  BY <1>1, <1>2
<1> HIDE DEF to
<1>4. ASSUME NEW i \in DOMAIN rest
      PROVE  IF rest[i].type = "ReplyData"
             THEN /\ to[i] = to[i - 1] + Len(rest[i].answers)
                  /\ to[i] <= upto
                  /\ \A k \in DOMAIN rest[i].answers :
                       rest[i].answers[k] = said[to[i - 1] + k]
             ELSE to[i] = to[i - 1]
  <2>1. to[i] = at[i + 1] /\ to[i - 1] = at[i] /\ rest[i] = link[i + 1] /\ (i + 1) - 1 = i
    BY <1>1, <1>3
  <2> QED
    BY <1>1, <1>2, <2>1
<1>5. Joined(rest, at[1], upto, said)
  BY <1>1, <1>3, <1>4 DEF Joined
<1>6. IF m.type = "ReplyData"
      THEN /\ at[1] = from + Len(m.answers) /\ at[1] <= upto
           /\ \A k \in DOMAIN m.answers : m.answers[k] = said[from + k]
      ELSE at[1] = from
  BY <1>1, <1>2
<1>7. IF m.type = "ReplyData"
      THEN /\ from + Len(m.answers) <= upto
           /\ \A k \in DOMAIN m.answers : m.answers[k] = said[from + k]
           /\ Joined(rest, from + Len(m.answers), upto, said)
      ELSE Joined(rest, from, upto, said)
  BY <1>5, <1>6
<1> QED
  BY <1>7 DEF rest, m

\* What is said later changes nothing on the link.
LEMMA JoinedStays ==
    ASSUME NEW link \in Seq(Message), NEW said \in Seq(BOOLEAN), NEW answer \in BOOLEAN,
           NEW from \in Nat, NEW upto \in Nat, upto <= Len(said),
           Joined(link, from, upto, said)
    PROVE  Joined(link, from, upto, Append(said, answer))
<1>1. \A i \in DOMAIN said : Append(said, answer)[i] = said[i]
  BY Pushed
<1>2. DOMAIN said = 1 .. Len(said) /\ Len(said) \in Nat
  OBVIOUS
<1>3. PICK at \in [0 .. Len(link) -> Nat] :
        /\ at[0] = from /\ at[Len(link)] = upto
        /\ \A i \in DOMAIN link :
             IF link[i].type = "ReplyData"
             THEN /\ at[i] = at[i - 1] + Len(link[i].answers)
                  /\ at[i] <= upto
                  /\ \A k \in DOMAIN link[i].answers :
                       link[i].answers[k] = said[at[i - 1] + k]
             ELSE at[i] = at[i - 1]
  BY DEF Joined
<1>4. ASSUME NEW i \in DOMAIN link, link[i].type = "ReplyData", NEW k \in DOMAIN link[i].answers
      PROVE  link[i].answers[k] = Append(said, answer)[at[i - 1] + k]
  <2>1. DOMAIN link = 1 .. Len(link) /\ Len(link) \in Nat /\ link[i] \in Message
    OBVIOUS
  <2>2. k \in 1 .. Len(link[i].answers) /\ Len(link[i].answers) \in Nat
    BY <1>4, <2>1, Messages
  <2>3. at[i - 1] \in Nat
    BY <2>1
  <2>4. at[i] = at[i - 1] + Len(link[i].answers) /\ at[i] <= upto
    BY <1>3, <1>4
  <2>5. at[i - 1] + k \in DOMAIN said
    <3>1. at[i - 1] + k \in Nat /\ at[i - 1] + k >= 1
      BY <2>2, <2>3
    <3>2. at[i - 1] + k <= Len(said)
      BY <1>2, <2>2, <2>3, <2>4
    <3> QED
      BY <1>2, <3>1, <3>2
  <2> QED
    BY <1>1, <1>3, <1>4, <2>5
<1> QED
  BY <1>3, <1>4 DEF Joined

\* On an empty link nothing is under way.
LEMMA JoinedNone ==
    ASSUME NEW said, NEW from \in Nat, NEW upto \in Nat
    PROVE  Joined(<< >>, from, upto, said) <=> from = upto
<1>1. Len(<< >>) = 0 /\ DOMAIN << >> = {}
  OBVIOUS
<1>2. ASSUME from = upto PROVE Joined(<< >>, from, upto, said)
  <2>1. [i \in 0 .. 0 |-> from] \in [0 .. 0 -> Nat] /\ [i \in 0 .. 0 |-> from][0] = from
    OBVIOUS
  <2> QED
    BY <1>1, <1>2, <2>1 DEF Joined
<1> QED
  BY <1>1, <1>2 DEF Joined

\* What one more message leaves of a pixel.
LEMMA LeavesPush ==
    ASSUME NEW link \in Seq(Message), NEW m \in Message, NEW p, NEW was, NEW is,
           Says(m, p) \/ Leaves(link, p, was, is)
    PROVE  Leaves(Append(link, m), p, was, IF Says(m, p) THEN m.changes[p] ELSE is)
<1> DEFINE long == Append(link, m)
           n == Len(link)
<1>1. /\ n \in Nat /\ DOMAIN long = DOMAIN link \cup {n + 1} /\ DOMAIN link = 1 .. n
      /\ \A i \in DOMAIN link : i \in Nat /\ i # n + 1 /\ long[i] = link[i]
      /\ long[n + 1] = m
  BY Pushed
<1> HIDE DEF long
<1>2. CASE Says(m, p)
  <2>1. ASSUME NEW i \in DOMAIN long, Says(long[i], p),
               \A j \in DOMAIN long : i < j => ~ Says(long[j], p)
        PROVE  long[i].changes[p] = m.changes[p]
    <3>1. i = n + 1
      BY <1>1, <1>2, <2>1
    <3> QED
      BY <1>1, <3>1
  <2>2. ~ \A i \in DOMAIN long : ~ Says(long[i], p)
    BY <1>1, <1>2
  <2>3. Leaves(long, p, was, m.changes[p])
    BY <2>1, <2>2 DEF Leaves
  <2> QED
    BY <1>2, <2>3 DEF long
<1>3. CASE ~ Says(m, p)
  <2>1. Leaves(link, p, was, is)
    BY <1>3
  <2>2. ASSUME NEW i \in DOMAIN long, Says(long[i], p),
               \A j \in DOMAIN long : i < j => ~ Says(long[j], p)
        PROVE  long[i].changes[p] = is
    <3>1. i \in DOMAIN link /\ long[i] = link[i]
      BY <1>1, <1>3, <2>2
    <3>2. \A j \in DOMAIN link : i < j => ~ Says(link[j], p)
      BY <1>1, <2>2
    <3> QED
      BY <2>1, <2>2, <3>1, <3>2 DEF Leaves
  <2>3. (\A i \in DOMAIN long : ~ Says(long[i], p)) => \A i \in DOMAIN link : ~ Says(link[i], p)
    BY <1>1
  <2>4. Leaves(long, p, was, is)
    BY <2>1, <2>2, <2>3 DEF Leaves
  <2> QED
    BY <1>3, <2>4 DEF long
<1> QED
  BY <1>2, <1>3

\* What the rest leaves once the first message was read.
LEMMA LeavesPop ==
    ASSUME NEW link \in Seq(Message), link # << >>, NEW p, NEW was, NEW is,
           Leaves(link, p, was, is)
    PROVE  Leaves(Tail(link), p, IF Says(Head(link), p) THEN Head(link).changes[p] ELSE was, is)
<1> DEFINE rest == Tail(link)
           n == Len(link)
           m == Head(link)
           now == IF Says(m, p) THEN m.changes[p] ELSE was
<1>1. /\ m \in Message /\ m = link[1] /\ 1 \in DOMAIN link
      /\ n \in Nat /\ DOMAIN link = 1 .. n
      /\ Len(rest) = n - 1 /\ DOMAIN rest = 1 .. n - 1
      /\ \A i \in DOMAIN rest : i \in Nat \ {0} /\ i + 1 \in DOMAIN link /\ rest[i] = link[i + 1]
  BY Popped
<1> HIDE DEF rest, m
<1>2. \A j \in DOMAIN link : j = 1 \/ (j - 1 \in DOMAIN rest /\ rest[j - 1] = link[j])
  BY <1>1
<1>3. ASSUME \A i \in DOMAIN rest : ~ Says(rest[i], p) PROVE now = is
  <2>1. \A j \in DOMAIN link : 1 < j => ~ Says(link[j], p)
    BY <1>1, <1>2, <1>3
  <2>2. CASE Says(m, p)
    BY <1>1, <2>1, <2>2 DEF Leaves
  <2>3. CASE ~ Says(m, p)
    <3>1. \A j \in DOMAIN link : ~ Says(link[j], p)
      BY <1>1, <2>1, <2>3
    <3> QED
      BY <2>3, <3>1 DEF Leaves
  <2> QED
    BY <2>2, <2>3
<1>4. ASSUME NEW i \in DOMAIN rest, Says(rest[i], p),
             \A j \in DOMAIN rest : i < j => ~ Says(rest[j], p)
      PROVE  rest[i].changes[p] = is
  <2>1. i + 1 \in DOMAIN link /\ rest[i] = link[i + 1] /\ i \in Nat \ {0}
    BY <1>1
  <2>2. ASSUME NEW j \in DOMAIN link, i + 1 < j PROVE ~ Says(link[j], p)
    <3>1. j - 1 \in DOMAIN rest /\ rest[j - 1] = link[j] /\ i < j - 1
      BY <1>1, <1>2, <2>1, <2>2
    <3> QED
      BY <1>4, <3>1
  <2> QED
    BY <1>4, <2>1, <2>2 DEF Leaves
<1>5. Leaves(rest, p, now, is)
  BY <1>3, <1>4 DEF Leaves
<1> QED
  BY <1>5 DEF rest, m

\* An empty link leaves what is there.
LEMMA LeavesNone ==
    ASSUME NEW p, NEW was, NEW is
    PROVE  Leaves(<< >>, p, was, is) <=> was = is
<1>1. DOMAIN << >> = {}
  OBVIOUS
<1> QED
  BY <1>1 DEF Leaves

-----------------------------------------------------------------------------
(* The steps, and their types.                                             *)

\* The progress thread ends: what it could not ship stays in its hands.
Ends ==
    /\ ppc \in {"shipApp", "ship", "shipProgress"}
    /\ ppc' = "ended"
    /\ UNCHANGED <<appVars, memVars, s2c, gpuVars, ringVars, forgotten, reported,
                   resShadow, wordShadow, toldReplies, signaled, venus, app, live>>

Steps == Next \/ Ends

\* The window and the main thread only look at the frame.
LEMMA WindowSteps == [WindowNext]_allVars => [Steps]_vars
<1> SUFFICES ASSUME [WindowNext]_allVars PROVE [Steps]_vars
  OBVIOUS
<1>1. CASE OnC \/ OnS
  BY <1>1 DEF OnC, OnS, ProgressThread, Steps, Next
<1>2. CASE ShipFails
  BY <1>2 DEF ShipFails, Steps, Ends
<1>3. CASE WindowThread \/ Configure \/ FrameCallback \/ Close \/ ServeEnds \/ MainThread
  BY <1>3 DEF WindowThread, FindFrame, FindNothing, CheckOver, WindowReturns, Configure,
     FrameCallback, Close, ServeEnds, MainThread, RefreshCandidates, Join, PresentTheFrame,
     MainReturns
<1>4. CASE UNCHANGED allVars
  BY <1>4 DEF allVars
<1> QED
  BY <1>1, <1>2, <1>3, <1>4 DEF WindowNext

\* The messages that are made are messages.
LEMMA MadeMessages ==
    /\ \A changed \in SUBSET Pixels : \A c \in [changed -> 0 .. MaxFrame] :
         PixelData(c) \in Message /\ PixelData(c).changes = c
    /\ \A n \in 0 .. MaxFrame : WordData(n) \in Message
    /\ \A a \in Seq(BOOLEAN) : ReplyData(a) \in Message /\ ReplyData(a).answers = a
    /\ \A h \in Nat : RingProgress(h) \in Message /\ RingProgress(h).head = h
    /\ \A x : /\ PixelData(x).type = "PixelData" /\ WordData(x).type = "WordData"
              /\ ReplyData(x).type = "ReplyData" /\ RingProgress(x).type = "RingProgress"
<1>1. ASSUME NEW changed \in SUBSET Pixels, NEW c \in [changed -> 0 .. MaxFrame]
      PROVE  PixelData(c) \in Message /\ PixelData(c).changes = c
  <2>1. c \in UNION {[D -> 0 .. MaxFrame] : D \in SUBSET Pixels}
    BY <1>1
  <2> QED
    BY <2>1 DEF PixelData, Message
<1> QED
  BY <1>1 DEF WordData, ReplyData, RingProgress, PixelData, Message

\* Batches of up to two.
LEMMA Batches ==
    ASSUME NEW P, NEW W
    PROVE  /\ << >> \o << >> = << >> /\ << >> \o << W >> = << W >>
           /\ << P >> \o << >> = << P >> /\ << P >> \o << W >> = << P, W >>
           /\ DOMAIN << P >> = {1} /\ DOMAIN << W >> = {1} /\ DOMAIN << P, W >> = {1, 2}
           /\ << P >>[1] = P /\ << W >>[1] = W /\ << P, W >>[1] = P /\ << P, W >>[2] = W
           /\ DOMAIN << >> = {}
<1>1. << >> \o << >> = << >>
  OBVIOUS
<1>2. << >> \o << W >> = << W >>
  OBVIOUS
<1>3. << P >> \o << >> = << P >>
  OBVIOUS
<1>4. << P >> \o << W >> = << P, W >>
  <2>1. << P >> \o << W >> = Append(<< P >>, W)
    <3>1. << P >> \in Seq({P, W}) /\ W \in {P, W}
      OBVIOUS
    <3> QED
      BY <3>1, OneMore, Zenon
  <2>2. Append(<< P >>, W) = << P, W >>
    <3> DEFINE q == Append(<< P >>, W)
               r == << P, W >>
    <3>1. q \in Seq({P, W}) /\ Len(q) = 2 /\ q[1] = P /\ q[2] = W
      OBVIOUS
    <3>2. r \in Seq({P, W}) /\ Len(r) = 2 /\ r[1] = P /\ r[2] = W
      OBVIOUS
    <3> HIDE DEF q, r
    <3>3. Len(q) = Len(r) /\ \A i \in 1 .. Len(q) : q[i] = r[i]
      BY <3>1, <3>2
    <3>4. q = r
      BY <3>1, <3>2, <3>3, SeqEqual
    <3> QED
      BY <3>4 DEF q, r
  <2> QED
    BY <2>1, <2>2, Zenon
<1>5. DOMAIN << P >> = {1} /\ DOMAIN << W >> = {1} /\ DOMAIN << >> = {}
  OBVIOUS
<1>6. DOMAIN << P, W >> = {1, 2}
  OBVIOUS
<1>7. << P >>[1] = P /\ << W >>[1] = W /\ << P, W >>[1] = P /\ << P, W >>[2] = W
  OBVIOUS
<1> QED
  BY <1>1, <1>2, <1>3, <1>4, <1>5, <1>6, <1>7

\* What has been finished is no more than what was drawn.
LEMMA WordBound ==
    ASSUME EngineTypes, ProgressTypes, Frames, Teed
    PROVE  word \in 0 .. MaxFrame
  BY ReadbackAssumption DEF EngineTypes, Frames, Teed

\* A pass takes the pixels that changed, then the word.
LEMMA Taken ==
    ASSUME EngineTypes, ProgressTypes, Frames, Teed, TakeAppBlobWrites
    PROVE  /\ \/ app' = << >>
              \/ \E m \in Message : app' = << m >> /\ m.type \in {"PixelData", "WordData"}
              \/ \E m, n \in Message :
                   app' = << m, n >> /\ m.type = "PixelData" /\ n.type = "WordData"
           /\ \A i \in DOMAIN app' : app'[i].type = "PixelData" => i = 1
           /\ ChangedPixels # {} =>
                /\ 1 \in DOMAIN app' /\ app'[1].type = "PixelData"
                /\ app'[1].changes = [p \in ChangedPixels |-> sres[p]]
           /\ ChangedPixels = {} => \A i \in DOMAIN app' : app'[i].type = "WordData"
<1> DEFINE c == [p \in ChangedPixels |-> sres[p]]
<1>1. ChangedPixels \in SUBSET Pixels /\ c \in [ChangedPixels -> 0 .. MaxFrame]
  BY DEF ChangedPixels, EngineTypes
<1>2. PixelData(c) \in Message /\ PixelData(c).type = "PixelData" /\ PixelData(c).changes = c
  BY <1>1, MadeMessages
<1>3. WordData(word) \in Message /\ WordData(word).type = "WordData"
  BY MadeMessages, WordBound
<1>4. app' = PixelRuns(ChangedPixels) \o (IF word = wordShadow THEN << >> ELSE << WordData(word) >>)
  BY DEF TakeAppBlobWrites
<1>5. PixelRuns(ChangedPixels) = IF ChangedPixels = {} THEN << >> ELSE << PixelData(c) >>
  BY DEF PixelRuns
<1> HIDE DEF c
<1> DEFINE P == PixelData(c)
           W == WordData(word)
<1> HIDE DEF P, W
<1>6. /\ << >> \o << >> = << >> /\ << >> \o << W >> = << W >>
      /\ << P >> \o << >> = << P >> /\ << P >> \o << W >> = << P, W >>
      /\ DOMAIN << P >> = {1} /\ DOMAIN << W >> = {1} /\ DOMAIN << P, W >> = {1, 2}
      /\ << P >>[1] = P /\ << W >>[1] = W /\ << P, W >>[1] = P /\ << P, W >>[2] = W
      /\ DOMAIN << >> = {}
  BY Batches
<1>7. P \in Message /\ P.type = "PixelData" /\ P.changes = c /\ W \in Message
      /\ W.type = "WordData" /\ "PixelData" # "WordData"
  BY <1>2, <1>3 DEF P, W
<1>8. app' = (IF ChangedPixels = {} THEN << >> ELSE << P >>)
               \o (IF word = wordShadow THEN << >> ELSE << W >>)
  BY <1>4, <1>5 DEF P, W
<1>9. \/ app' = << >> /\ ChangedPixels = {}
      \/ app' = << W >> /\ ChangedPixels = {}
      \/ app' = << P >> /\ ChangedPixels # {}
      \/ app' = << P, W >> /\ ChangedPixels # {}
  BY <1>6, <1>8
<1>10. CASE app' = << >> /\ ChangedPixels = {}
  BY <1>6, <1>10
<1>11. CASE app' = << W >> /\ ChangedPixels = {}
  BY <1>6, <1>7, <1>11
<1>12. CASE app' = << P >> /\ ChangedPixels # {}
  BY <1>6, <1>7, <1>12 DEF c
<1>13. CASE app' = << P, W >> /\ ChangedPixels # {}
  BY <1>6, <1>7, <1>13 DEF c
<1> QED
  BY <1>9, <1>10, <1>11, <1>12, <1>13

\* The batch in hand, on the link.
LEMMA Shipped ==
    ASSUME ProgressTypes, ShipApp
    PROVE  /\ s2c' \in Seq(Message)
           /\ \/ app = << >> /\ s2c' = s2c
              \/ \E m \in Message :
                   /\ app = << m >> /\ m.type \in {"PixelData", "WordData"}
                   /\ s2c' = Append(s2c, m)
              \/ \E m, n \in Message :
                   /\ app = << m, n >> /\ m.type = "PixelData" /\ n.type = "WordData"
                   /\ s2c' = Append(Append(s2c, m), n)
<1>1. s2c \in Seq(Message) /\ s2c' = s2c \o app
  BY DEF ProgressTypes, ShipApp
<1>2. ASSUME app = << >> PROVE s2c' = s2c /\ s2c' \in Seq(Message)
  BY <1>1, <1>2, NoMore
<1>3. ASSUME NEW m \in Message, app = << m >>, m.type \in {"PixelData", "WordData"}
      PROVE  s2c' = Append(s2c, m) /\ s2c' \in Seq(Message)
  <2>1. s2c' = Append(s2c, m)
    BY <1>1, <1>3, OneMore
  <2> QED
    BY <1>1, <2>1, Pushed
<1>4. ASSUME NEW m \in Message, NEW n \in Message, app = << m, n >>
      PROVE  s2c' = Append(Append(s2c, m), n) /\ s2c' \in Seq(Message)
  <2>1. s2c' = Append(Append(s2c, m), n)
    BY <1>1, <1>4, TwoMore
  <2>2. Append(s2c, m) \in Seq(Message)
    BY <1>1, Pushed
  <2> QED
    BY <2>1, <2>2, Pushed
<1>5. \/ app = << >>
      \/ \E m \in Message : app = << m >> /\ m.type \in {"PixelData", "WordData"}
      \/ \E m, n \in Message :
           app = << m, n >> /\ m.type = "PixelData" /\ n.type = "WordData"
  BY DEF ProgressTypes
<1> QED
  BY <1>2, <1>3, <1>4, <1>5

\* The answers in hand, on the link.
LEMMA ShippedAnswers ==
    ASSUME ProgressTypes, ShipVenus
    PROVE  /\ s2c' \in Seq(Message)
           /\ \/ venus = << >> /\ s2c' = s2c
              \/ \E a \in Seq(BOOLEAN) :
                   /\ venus = << ReplyData(a) >> /\ ReplyData(a) \in Message
                   /\ s2c' = Append(s2c, ReplyData(a))
<1>1. s2c \in Seq(Message) /\ s2c' = s2c \o venus
  BY DEF ProgressTypes, ShipVenus
<1>2. ASSUME venus = << >> PROVE s2c' = s2c /\ s2c' \in Seq(Message)
  BY <1>1, <1>2, NoMore
<1>3. ASSUME NEW a \in Seq(BOOLEAN), venus = << ReplyData(a) >>
      PROVE  /\ ReplyData(a) \in Message /\ s2c' = Append(s2c, ReplyData(a))
             /\ s2c' \in Seq(Message)
  <2>1. ReplyData(a) \in Message
    BY MadeMessages
  <2>2. s2c' = Append(s2c, ReplyData(a))
    BY <1>1, <1>3, <2>1, OneMore
  <2> QED
    BY <1>1, <2>1, <2>2, Pushed
<1> QED
  BY <1>2, <1>3 DEF ProgressTypes

\* What C's reader does with a message.
LEMMA Received ==
    ASSUME EngineTypes, ProgressTypes, Receive
    PROVE  LET m == Head(s2c)
           IN /\ m \in Message /\ s2c # << >> /\ s2c' = Tail(s2c) /\ s2c' \in Seq(Message)
              /\ cres' \in [Pixels -> 0 .. MaxFrame]
              /\ \A p \in Pixels : cres'[p] = IF Says(m, p) THEN m.changes[p] ELSE cres[p]
              /\ creplies' \in Seq(BOOLEAN)
              /\ IF m.type = "ReplyData"
                 THEN /\ Len(creplies') = Len(creplies) + Len(m.answers)
                      /\ \A k \in DOMAIN creplies' :
                           creplies'[k] = IF k <= Len(creplies) THEN creplies[k]
                                          ELSE m.answers[k - Len(creplies)]
                 ELSE creplies' = creplies
              /\ chead' = (IF m.type = "RingProgress" THEN m.head ELSE chead)
              /\ chead' \in Nat
              /\ UNCHANGED <<appVars, gpuVars, ringVars, forgotten, progressVars>>
<1> DEFINE m == Head(s2c)
<1>1. m \in Message /\ s2c # << >> /\ s2c' = Tail(s2c) /\ s2c' \in Seq(Message)
  BY Popped DEF ProgressTypes, Receive
<1>2. /\ cres' = [p \in Pixels |-> IF m.type = "PixelData" /\ p \in DOMAIN m.changes
                                   THEN m.changes[p] ELSE cres[p]]
      /\ creplies' = IF m.type = "ReplyData" THEN creplies \o m.answers ELSE creplies
      /\ chead' = IF m.type = "RingProgress" THEN m.head ELSE chead
      /\ UNCHANGED <<appVars, gpuVars, ringVars, forgotten, progressVars>>
  BY DEF Receive
<1> HIDE DEF m
<1>3. \A p \in Pixels : cres'[p] = IF Says(m, p) THEN m.changes[p] ELSE cres[p]
  BY <1>2 DEF Says
<1>4. \A p \in Pixels : Says(m, p) => m.changes[p] \in 0 .. MaxFrame
  BY <1>1, Messages DEF Says
<1>5. cres' \in [Pixels -> 0 .. MaxFrame]
  BY <1>2, <1>4 DEF Says, EngineTypes
<1>6. chead' \in Nat
  BY <1>1, <1>2, Messages DEF EngineTypes
<1>7. ASSUME m.type = "ReplyData"
      PROVE  /\ creplies' \in Seq(BOOLEAN)
             /\ Len(creplies') = Len(creplies) + Len(m.answers)
             /\ \A k \in DOMAIN creplies' :
                  creplies'[k] = IF k <= Len(creplies) THEN creplies[k]
                                 ELSE m.answers[k - Len(creplies)]
  <2>1. m.answers \in Seq(BOOLEAN) /\ creplies \in Seq(BOOLEAN)
    BY <1>1, <1>7, Messages DEF EngineTypes
  <2>2. creplies' = creplies \o m.answers
    BY <1>2, <1>7
  <2> QED
    BY <2>1, <2>2, ConcatProperties, LenProperties
<1>8. m.type # "ReplyData" => creplies' = creplies /\ creplies' \in Seq(BOOLEAN)
  BY <1>2 DEF EngineTypes
<1> QED
  BY <1>1, <1>2, <1>3, <1>5, <1>6, <1>7, <1>8 DEF m

\* What the ring thread does.
LEMMA Dispatched ==
    ASSUME EngineTypes, Dispatch
    PROVE  /\ ran = shead /\ ran < Len(stream) /\ ran' = ran + 1
           /\ ran + 1 \in DOMAIN stream
           /\ \/ /\ stream[ran + 1] = "submit"
                 /\ todo' = Pixels /\ replies' = replies
              \/ /\ stream[ran + 1] = "poll"
                 /\ todo' = todo /\ replies' = Append(replies, todo = {})
           /\ replies' \in Seq(BOOLEAN)
           /\ UNCHANGED <<appVars, memVars, s2c, sres, word, shead, forgotten, progressVars>>
<1>1. /\ ran = shead /\ ran < Len(stream) /\ ran' = ran + 1
      /\ IF stream[ran + 1] = "submit" THEN todo' = Pixels /\ UNCHANGED replies
         ELSE replies' = Append(replies, todo = {}) /\ UNCHANGED todo
      /\ UNCHANGED <<appVars, memVars, s2c, sres, word, shead, forgotten, progressVars>>
  BY DEF Dispatch
<1>2. ran + 1 \in DOMAIN stream
  BY <1>1 DEF EngineTypes
<1>3. stream[ran + 1] \in {"submit", "poll"}
  BY <1>2 DEF EngineTypes
<1>4. (todo = {}) \in BOOLEAN
  OBVIOUS
<1>5. Append(replies, todo = {}) \in Seq(BOOLEAN) /\ replies \in Seq(BOOLEAN)
  BY <1>4, Pushed DEF EngineTypes
<1> QED
  BY <1>1, <1>2, <1>3, <1>5

\* Every step keeps the types of the application, of C and of the engine.
LEMMA EngineTypesNext ==
    ASSUME IInv, [Steps]_vars
    PROVE  EngineTypes'
<1>1. EngineTypes /\ ProgressTypes /\ Heads /\ Frames /\ Replies
  BY DEF IInv
<1>2. CASE Draw
  <2>1. /\ frame' = frame + 1 /\ frame < MaxFrame /\ phase' = "poll"
        /\ stream' = Append(stream, "submit")
        /\ UNCHANGED <<memVars, gpuVars, ringVars, forgotten>>
    BY <1>2 DEF Draw
  <2>2. stream' \in Seq({"submit", "poll"})
    BY <1>1, <2>1, Pushed DEF EngineTypes
  <2> QED
    BY <1>1, <2>1, <2>2, ReadbackAssumption
       DEF EngineTypes, memVars, gpuVars, ringVars
<1>3. CASE Poll
  <2>1. /\ phase' = "wait" /\ stream' = Append(stream, "poll")
        /\ UNCHANGED <<frame, memVars, gpuVars, ringVars, forgotten>>
    BY <1>3 DEF Poll
  <2>2. stream' \in Seq({"submit", "poll"})
    BY <1>1, <2>1, Pushed DEF EngineTypes
  <2> QED
    BY <1>1, <2>1, <2>2 DEF EngineTypes, memVars, gpuVars, ringVars
<1>4. CASE Released \/ DoneReading
  BY <1>1, <1>4 DEF Released, DoneReading, EngineTypes, memVars, gpuVars, ringVars
<1>5. CASE ForgetReplies
  <2>1. forgotten' \in Nat
    BY <1>1, <1>5 DEF ForgetReplies, EngineTypes
  <2> QED
    BY <1>1, <1>5, <2>1 DEF ForgetReplies, EngineTypes, appVars, memVars, gpuVars, ringVars
<1>6. CASE Dispatch
  <2>1. todo' \in SUBSET Pixels /\ replies' \in Seq(BOOLEAN) /\ ran' \in Nat
    BY <1>1, <1>6, Dispatched DEF EngineTypes
  <2> QED
    BY <1>1, <1>6, <2>1, Dispatched DEF EngineTypes, appVars, memVars
<1>7. CASE StoreHead
  BY <1>1, <1>7 DEF StoreHead, EngineTypes, appVars, memVars, gpuVars
<1>8. CASE GpuWrites
  <2>1. PICK p \in todo : sres' = [sres EXCEPT ![p] = @ + 1] /\ todo' = todo \ {p}
    BY <1>8 DEF GpuWrites
  <2>2. sres[p] + 1 + (IF Begun THEN 0 ELSE 1) = frame /\ p \in Pixels
    BY <1>1, <2>1 DEF Frames, EngineTypes
  <2>3. sres[p] + 1 \in 0 .. MaxFrame
    BY <1>1, <2>2, ReadbackAssumption DEF EngineTypes
  <2>4. sres' \in [Pixels -> 0 .. MaxFrame] /\ todo' \in SUBSET Pixels
    BY <1>1, <2>1, <2>3 DEF EngineTypes
  <2>5. word' \in Nat
    BY <1>1, <1>8 DEF GpuWrites, EngineTypes
  <2> QED
    BY <1>1, <1>8, <2>4, <2>5 DEF GpuWrites, EngineTypes, appVars, memVars, ringVars
<1>9. CASE TakeRingProgress \/ TakeVenusBlobWrites \/ TakeAppBlobWrites \/ ShipApp
           \/ ShipVenus \/ ShipProgress \/ Ends
  BY <1>1, <1>9 DEF TakeRingProgress, TakeVenusBlobWrites, TakeAppBlobWrites, ShipApp,
     ShipVenus, ShipProgress, Ends, EngineTypes, appVars, memVars, gpuVars, ringVars
<1>10. CASE Receive
  BY <1>1, <1>10, Received DEF EngineTypes, appVars, gpuVars, ringVars
<1>11. CASE UNCHANGED vars
  BY <1>1, <1>11 DEF EngineTypes, vars, appVars, memVars, gpuVars, ringVars
<1> QED
  BY <1>2, <1>3, <1>4, <1>5, <1>6, <1>7, <1>8, <1>9, <1>10, <1>11 DEF Steps, Next

\* Every step keeps the types of the progress thread and of the link.
LEMMA ProgressTypesNext ==
    ASSUME IInv, [Steps]_vars
    PROVE  ProgressTypes'
<1>1. EngineTypes /\ ProgressTypes /\ Heads /\ Frames /\ Replies /\ Teed
  BY DEF IInv
<1>2. CASE Draw \/ Poll \/ Released \/ DoneReading \/ ForgetReplies \/ Dispatch \/ StoreHead
  BY <1>1, <1>2 DEF Draw, Poll, Released, DoneReading, ForgetReplies, Dispatch, StoreHead,
     ProgressTypes, progressVars, gpuVars
<1>3. CASE GpuWrites
  <2>1. word <= word' /\ UNCHANGED <<s2c, progressVars>>
    BY <1>1, <1>3 DEF GpuWrites, EngineTypes
  <2>2. word' \in Nat
    BY <1>1, <1>3 DEF GpuWrites, EngineTypes
  <2>3. wordShadow <= word'
    BY <1>1, <2>1, <2>2 DEF ProgressTypes, EngineTypes
  <2> QED
    BY <1>1, <2>1, <2>3 DEF ProgressTypes, progressVars
<1>4. CASE TakeRingProgress
  BY <1>1, <1>4 DEF TakeRingProgress, ProgressTypes, EngineTypes, gpuVars
<1>5. CASE TakeVenusBlobWrites
  <2>1. NewAnswers \in Seq(BOOLEAN)
    BY <1>1 DEF NewAnswers, EngineTypes, ProgressTypes
  <2>2. venus' = << >> \/ \E a \in Seq(BOOLEAN) : venus' = << ReplyData(a) >>
    BY <1>5, <2>1 DEF TakeVenusBlobWrites
  <2>3. toldReplies' \in Nat /\ ppc' \in {"diff", "ship"} /\ ppc = "scan"
        /\ UNCHANGED <<s2c, reported, resShadow, word, wordShadow, app, live>>
    BY <1>1, <1>5 DEF TakeVenusBlobWrites, EngineTypes, gpuVars
  <2> QED
    BY <1>1, <2>2, <2>3 DEF ProgressTypes
<1>6. CASE TakeAppBlobWrites
  <2>1. \/ app' = << >>
        \/ \E m \in Message : app' = << m >> /\ m.type \in {"PixelData", "WordData"}
        \/ \E m, n \in Message :
             app' = << m, n >> /\ m.type = "PixelData" /\ n.type = "WordData"
    BY <1>1, <1>6, Taken
  <2>2. /\ ppc' = "shipApp" /\ live' = Folded /\ resShadow' = sres /\ wordShadow' = word
        /\ UNCHANGED <<s2c, reported, toldReplies, venus, word>>
    BY <1>6 DEF TakeAppBlobWrites, gpuVars
  <2>3. word \in 0 .. MaxFrame
    BY <1>1, WordBound
  <2>4. Folded \in [Pixels -> - MaxFrame .. MaxFrame]
    <3>1. - word \in - MaxFrame .. MaxFrame
      BY <2>3, ReadbackAssumption
    <3>2. \A p \in Pixels : sres[p] \in - MaxFrame .. MaxFrame /\ live[p] \in - MaxFrame .. MaxFrame
      BY <1>1, ReadbackAssumption DEF EngineTypes, ProgressTypes
    <3> QED
      BY <3>1, <3>2 DEF Folded
  <2>5. wordShadow' \in Nat /\ wordShadow' <= word' /\ resShadow' \in [Pixels -> 0 .. MaxFrame]
    BY <1>1, <2>2 DEF EngineTypes
  <2> QED
    BY <1>1, <2>1, <2>2, <2>4, <2>5 DEF ProgressTypes
<1>7. CASE ShipApp
  <2>1. s2c' \in Seq(Message)
    BY <1>1, <1>7, Shipped
  <2>2. /\ ppc' = "ship" /\ app' = << >>
        /\ UNCHANGED <<reported, toldReplies, venus, word, wordShadow, resShadow, live>>
    BY <1>7 DEF ShipApp, gpuVars
  <2> QED
    BY <1>1, <2>1, <2>2 DEF ProgressTypes
<1>8. CASE ShipVenus
  <2>1. s2c' \in Seq(Message)
    BY <1>1, <1>8, ShippedAnswers
  <2>2. /\ ppc = "ship" /\ ppc' = "shipProgress" /\ venus' = << >>
        /\ UNCHANGED <<reported, toldReplies, app, word, wordShadow, resShadow, live>>
    BY <1>8 DEF ShipVenus, gpuVars
  <2> QED
    BY <1>1, <2>1, <2>2 DEF ProgressTypes
<1>9. CASE ShipProgress
  <2>1. s2c' \in Seq(Message)
    BY <1>1, <1>9, MadeMessages, Pushed DEF ProgressTypes, ShipProgress
  <2>2. /\ ppc = "shipProgress" /\ ppc' = "poll"
        /\ UNCHANGED <<reported, toldReplies, app, venus, word, wordShadow, resShadow, live>>
    BY <1>9 DEF ShipProgress, gpuVars
  <2> QED
    BY <1>1, <2>1, <2>2 DEF ProgressTypes
<1>10. CASE Ends
  BY <1>1, <1>10 DEF Ends, ProgressTypes, gpuVars
<1>11. CASE Receive
  <2>1. s2c' \in Seq(Message) /\ UNCHANGED <<gpuVars, progressVars>>
    BY <1>1, <1>11, Received
  <2> QED
    BY <1>1, <2>1 DEF ProgressTypes, gpuVars, progressVars
<1>12. CASE UNCHANGED vars
  BY <1>1, <1>12 DEF ProgressTypes, vars, gpuVars, progressVars
<1> QED
  BY <1>2, <1>3, <1>4, <1>5, <1>6, <1>7, <1>8, <1>9, <1>10, <1>11, <1>12 DEF Steps, Next

-----------------------------------------------------------------------------
(* Heads.                                                                  *)

\* One more message goes further, if it is a head.
LEMMA IncreasingPush ==
    ASSUME NEW link \in Seq(Message), NEW m \in Message,
           NEW above \in Nat, NEW upto \in Int, NEW more \in Int, upto <= more,
           Increasing(link, above, upto),
           m.type = "RingProgress" => above < m.head /\ upto < m.head /\ m.head <= more
    PROVE  Increasing(Append(link, m), above, more)
<1> DEFINE long == Append(link, m)
           n == Len(link)
<1>1. /\ n \in Nat /\ DOMAIN long = DOMAIN link \cup {n + 1} /\ DOMAIN link = 1 .. n
      /\ \A i \in DOMAIN link : i \in Nat /\ i # n + 1 /\ long[i] = link[i]
      /\ long[n + 1] = m
  BY Pushed
<1> HIDE DEF long
<1>2. \A i \in DOMAIN link : link[i].type = "RingProgress" =>
        above < link[i].head /\ link[i].head <= upto /\ link[i].head \in Nat
  <2>1. \A i \in DOMAIN link : link[i] \in Message
    OBVIOUS
  <2> QED
    BY <2>1, Messages DEF Increasing
<1>3. m.type = "RingProgress" => m.head \in Nat
  BY Messages
<1>4. ASSUME NEW i \in DOMAIN long, long[i].type = "RingProgress"
      PROVE  above < long[i].head /\ long[i].head <= more
  BY <1>1, <1>2, <1>3, <1>4
<1>5. ASSUME NEW i \in DOMAIN long, NEW j \in DOMAIN long, i < j,
             long[i].type = "RingProgress", long[j].type = "RingProgress"
      PROVE  long[i].head < long[j].head
  <2>1. i \in DOMAIN link /\ long[i] = link[i]
    BY <1>1, <1>5
  <2>2. CASE j \in DOMAIN link
    BY <1>1, <1>5, <2>1, <2>2 DEF Increasing
  <2>3. CASE j = n + 1
    BY <1>1, <1>2, <1>3, <1>5, <2>1, <2>3
  <2> QED
    BY <1>1, <2>2, <2>3
<1>6. Increasing(long, above, more)
  BY <1>4, <1>5 DEF Increasing
<1> QED
  BY <1>6 DEF long

\* What goes up as far as this goes up further.
LEMMA IncreasingFurther ==
    ASSUME NEW link \in Seq(Message), NEW above \in Nat, NEW upto \in Int, NEW more \in Int,
           upto <= more, Increasing(link, above, upto)
    PROVE  Increasing(link, above, more)
<1>1. \A i \in DOMAIN link : link[i] \in Message
  OBVIOUS
<1>2. \A i \in DOMAIN link : link[i].type = "RingProgress" => link[i].head \in Nat
  BY <1>1, Messages
<1> QED
  BY <1>2 DEF Increasing

\* The rest goes up from where the first message is.
LEMMA IncreasingPop ==
    ASSUME NEW link \in Seq(Message), link # << >>, NEW above \in Nat, NEW upto \in Int,
           Increasing(link, above, upto)
    PROVE  IF Head(link).type = "RingProgress"
           THEN /\ above < Head(link).head /\ Head(link).head <= upto
                /\ Increasing(Tail(link), Head(link).head, upto)
           ELSE Increasing(Tail(link), above, upto)
<1> DEFINE rest == Tail(link)
           n == Len(link)
           m == Head(link)
<1>1. /\ m \in Message /\ m = link[1] /\ 1 \in DOMAIN link
      /\ n \in Nat /\ DOMAIN link = 1 .. n /\ DOMAIN rest = 1 .. n - 1
      /\ \A i \in DOMAIN rest : i \in Nat \ {0} /\ i + 1 \in DOMAIN link /\ rest[i] = link[i + 1]
  BY Popped
<1> HIDE DEF rest, m
<1>2. \A i, j \in DOMAIN rest :
        i < j /\ rest[i].type = "RingProgress" /\ rest[j].type = "RingProgress"
          => rest[i].head < rest[j].head
  BY <1>1 DEF Increasing
<1>3. \A i \in DOMAIN rest :
        rest[i].type = "RingProgress" => above < rest[i].head /\ rest[i].head <= upto
  BY <1>1 DEF Increasing
<1>4. ASSUME m.type = "RingProgress"
      PROVE  /\ above < m.head /\ m.head <= upto
             /\ \A i \in DOMAIN rest : rest[i].type = "RingProgress" => m.head < rest[i].head
  <2>1. \A i \in DOMAIN rest : 1 < i + 1
    BY <1>1
  <2> QED
    BY <1>1, <1>4, <2>1 DEF Increasing
<1>5. IF m.type = "RingProgress"
      THEN above < m.head /\ m.head <= upto /\ Increasing(rest, m.head, upto)
      ELSE Increasing(rest, above, upto)
  BY <1>2, <1>3, <1>4 DEF Increasing
<1> QED
  BY <1>5 DEF rest, m

\* When C's head is S's, nothing moves on S and nothing is on the way.
LEMMA Quiet ==
    ASSUME EngineTypes, ProgressTypes, Heads, chead = reported
    PROVE  s2c = << >> /\ ppc = "poll" /\ venus = << >> /\ app = << >>
<1>1. ppc = "poll"
  BY DEF Heads, EngineTypes, ProgressTypes
<1>2. s2c = << >>
  <2> SUFFICES ASSUME s2c # << >> PROVE FALSE
    OBVIOUS
  <2>1. Len(s2c) \in DOMAIN s2c /\ s2c[Len(s2c)] \in Message
    BY DEF ProgressTypes
  <2>2. s2c[Len(s2c)].type = "RingProgress"
    BY <1>1 DEF Heads
  <2>3. chead < s2c[Len(s2c)].head /\ s2c[Len(s2c)].head <= reported
    BY <1>1, <2>1, <2>2 DEF Heads, Increasing
  <2>4. s2c[Len(s2c)].head \in Nat
    BY <2>1, <2>2, Messages
  <2> QED
    BY <2>3, <2>4 DEF EngineTypes, ProgressTypes
<1> QED
  BY <1>1, <1>2 DEF ProgressTypes

\* Every step keeps the heads in order.
LEMMA HeadsNext ==
    ASSUME IInv, [Steps]_vars
    PROVE  Heads'
<1>1. EngineTypes /\ ProgressTypes /\ Heads
  BY DEF IInv
<1>2. EngineTypes' /\ ProgressTypes'
  BY EngineTypesNext, ProgressTypesNext
<1>3. /\ chead \in Nat /\ reported \in Nat /\ shead \in Nat /\ ran \in Nat
      /\ s2c \in Seq(Message) /\ Len(stream) \in Nat
  BY <1>1 DEF EngineTypes, ProgressTypes
<1>4. CASE Draw \/ Poll
  <2>1. UNCHANGED <<memVars, s2c, ringVars, progressVars>>
    BY <1>4 DEF Draw, Poll
  <2>2. Len(stream') = Len(stream) + 1
    BY <1>1, <1>4 DEF Draw, Poll, EngineTypes
  <2> QED
    BY <1>1, <1>3, <2>1, <2>2 DEF Heads, memVars, ringVars, progressVars
<1>5. CASE Released \/ DoneReading \/ ForgetReplies \/ GpuWrites
  BY <1>1, <1>5 DEF Released, DoneReading, ForgetReplies, GpuWrites, Heads, appVars, memVars,
     ringVars, progressVars
<1>6. CASE Dispatch
  <2>1. ran = shead /\ ran < Len(stream) /\ ran' = ran + 1
        /\ UNCHANGED <<stream, chead, s2c, shead, ppc, reported>>
    BY <1>6 DEF Dispatch, appVars, memVars, progressVars
  <2> QED
    BY <1>1, <1>3, <2>1 DEF Heads
<1>7. CASE StoreHead
  <2>1. ran = shead + 1 /\ shead' = ran /\ UNCHANGED <<stream, chead, s2c, ran, ppc, reported>>
    BY <1>7 DEF StoreHead, appVars, memVars, progressVars
  <2> QED
    BY <1>1, <1>3, <2>1 DEF Heads
<1>8. CASE TakeRingProgress
  <2>1. /\ ppc = "poll" /\ shead # reported /\ reported' = shead /\ ppc' = "scan"
        /\ UNCHANGED <<stream, chead, s2c, shead, ran>>
    BY <1>8 DEF TakeRingProgress, appVars, memVars, ringVars
  <2>2. reported <= reported' - 1
    BY <1>1, <1>3, <2>1 DEF Heads
  <2>3. Increasing(s2c, chead, reported)
    BY <1>1, <2>1 DEF Heads
  <2>4. Increasing(s2c, chead, reported' - 1)
    <3>1. reported' - 1 \in Int
      BY <1>3, <2>1
    <3> QED
      BY <1>3, <2>2, <2>3, <3>1, IncreasingFurther
  <2> QED
    BY <1>1, <1>3, <2>1, <2>2, <2>4 DEF Heads
<1>9. CASE TakeVenusBlobWrites \/ TakeAppBlobWrites \/ Ends
  <2>1. /\ ppc # "poll" /\ ppc' # "poll"
        /\ UNCHANGED <<stream, chead, s2c, shead, ran, reported>>
    BY <1>9 DEF TakeVenusBlobWrites, TakeAppBlobWrites, Ends, appVars, memVars, ringVars
  <2> QED
    BY <1>1, <2>1 DEF Heads
<1>10. CASE ShipApp \/ ShipVenus
  <2>1. /\ ppc # "poll" /\ ppc' # "poll" /\ UNCHANGED <<stream, chead, shead, ran, reported>>
    BY <1>10 DEF ShipApp, ShipVenus, appVars, memVars, ringVars
  <2>2. Increasing(s2c, chead, reported - 1)
    BY <1>1, <2>1 DEF Heads
  <2>3. ASSUME NEW link \in Seq(Message), Increasing(link, chead, reported - 1),
               NEW m \in Message, m.type # "RingProgress"
        PROVE  Increasing(Append(link, m), chead, reported - 1) /\ Append(link, m) \in Seq(Message)
    BY <1>3, <2>3, IncreasingPush, Pushed
  <2>4. Increasing(s2c', chead, reported - 1)
    <3>1. CASE ShipApp
      <4>1. ASSUME NEW m \in Message, s2c' = Append(s2c, m), m.type \in {"PixelData", "WordData"}
            PROVE  Increasing(s2c', chead, reported - 1)
        BY <1>3, <2>2, <2>3, <4>1
      <4>2. ASSUME NEW m \in Message, NEW n \in Message, s2c' = Append(Append(s2c, m), n),
                   m.type = "PixelData", n.type = "WordData"
            PROVE  Increasing(s2c', chead, reported - 1)
        <5>1. Increasing(Append(s2c, m), chead, reported - 1) /\ Append(s2c, m) \in Seq(Message)
          BY <1>3, <2>2, <2>3, <4>2
        <5> HIDE DEF Increasing
        <5> QED
          BY <2>3, <4>2, <5>1
      <4> QED
        BY <1>1, <2>2, <3>1, <4>1, <4>2, Shipped
    <3>2. CASE ShipVenus
      <4>1. ASSUME NEW a \in Seq(BOOLEAN), ReplyData(a) \in Message,
                   s2c' = Append(s2c, ReplyData(a))
            PROVE  Increasing(s2c', chead, reported - 1)
        <5>1. ReplyData(a).type # "RingProgress"
          BY DEF ReplyData
        <5> QED
          BY <1>3, <2>2, <2>3, <4>1, <5>1
      <4> QED
        BY <1>1, <2>2, <3>2, <4>1, ShippedAnswers
    <3> QED
      BY <1>10, <3>1, <3>2
  <2> QED
    BY <1>1, <2>1, <2>4 DEF Heads
<1>11. CASE ShipProgress
  <2>1. /\ ppc = "shipProgress" /\ ppc' = "poll" /\ s2c' = Append(s2c, RingProgress(reported))
        /\ UNCHANGED <<stream, chead, shead, ran, reported>>
    BY <1>11 DEF ShipProgress, appVars, memVars, ringVars
  <2> DEFINE m == RingProgress(reported)
  <2>2. m \in Message /\ m.type = "RingProgress" /\ m.head = reported
    BY <1>3, MadeMessages
  <2> HIDE DEF m
  <2>3. Increasing(s2c, chead, reported - 1) /\ chead < reported
    BY <1>1, <2>1 DEF Heads
  <2>4. Increasing(Append(s2c, m), chead, reported)
    BY <1>3, <2>2, <2>3, IncreasingPush
  <2>5. s2c'[Len(s2c')] = m
    BY <1>3, <2>1, <2>2, Pushed DEF m
  <2>6. Increasing(s2c', chead, reported)
    BY <2>1, <2>4 DEF m
  <2> QED
    BY <1>1, <2>1, <2>2, <2>5, <2>6 DEF Heads
<1>12. CASE Receive
  <2> DEFINE m == Head(s2c)
             upto == IF ppc = "poll" THEN reported ELSE reported - 1
  <2>1. /\ m \in Message /\ s2c # << >> /\ s2c' = Tail(s2c)
        /\ chead' = (IF m.type = "RingProgress" THEN m.head ELSE chead)
        /\ UNCHANGED <<stream, shead, ran, reported, ppc>>
    BY <1>1, <1>12, Received DEF appVars, ringVars, progressVars
  <2>2. upto \in Int /\ Increasing(s2c, chead, upto)
    BY <1>1, <1>3 DEF Heads
  <2>3. IF m.type = "RingProgress"
        THEN /\ chead < m.head /\ m.head <= upto
             /\ Increasing(Tail(s2c), m.head, upto)
        ELSE Increasing(Tail(s2c), chead, upto)
    BY <1>3, <2>1, <2>2, IncreasingPop
  <2>4. m.type = "RingProgress" => m.head \in Nat
    BY <2>1, Messages
  <2>5. Increasing(s2c', chead', upto)
    BY <2>1, <2>3
  <2>6. chead' <= reported /\ (ppc # "poll" => chead' < reported)
    BY <1>1, <1>3, <2>1, <2>3, <2>4 DEF Heads
  <2>7. ASSUME ppc = "poll", s2c' # << >> PROVE s2c'[Len(s2c')].type = "RingProgress"
    <3>1. /\ Len(s2c) \in Nat /\ Len(s2c') = Len(s2c) - 1 /\ DOMAIN s2c' = 1 .. Len(s2c) - 1
          /\ \A i \in DOMAIN s2c' : s2c'[i] = s2c[i + 1]
      BY <1>3, <2>1, Popped
    <3>2. Len(s2c') \in DOMAIN s2c' /\ Len(s2c') + 1 = Len(s2c)
      BY <1>2, <2>7, <3>1 DEF ProgressTypes
    <3>3. s2c'[Len(s2c')] = s2c[Len(s2c)]
      BY <3>1, <3>2
    <3> QED
      BY <1>1, <2>1, <2>7, <3>3 DEF Heads
  <2>8. upto' = upto
    BY <2>1
  <2> HIDE DEF m
  <2> QED
    BY <1>1, <2>1, <2>5, <2>6, <2>7, <2>8 DEF Heads
<1>13. CASE UNCHANGED vars
  BY <1>1, <1>13 DEF Heads, vars, appVars, memVars, ringVars, progressVars
<1> QED
  BY <1>4, <1>5, <1>6, <1>7, <1>8, <1>9, <1>10, <1>11, <1>12, <1>13 DEF Steps, Next

-----------------------------------------------------------------------------
(* The application, the frames and the answers.                            *)

\* What is in the progress thread's hands of the answers.
LEMMA InHands ==
    ASSUME ProgressTypes
    PROVE  /\ InHand \in Nat
           /\ venus = << >> => InHand = 0
           /\ \A a \in Seq(BOOLEAN) :
                venus = << ReplyData(a) >> =>
                  InHand = Len(a) /\ venus[1].answers = a /\ venus # << >>
<1>1. \A a \in Seq(BOOLEAN) :
        /\ << ReplyData(a) >>[1].answers = a /\ << ReplyData(a) >> # << >> /\ Len(a) \in Nat
  BY DEF ReplyData
<1> QED
  BY <1>1 DEF InHand, ProgressTypes

\* An application that was released finds nothing under way, and all answers.
LEMMA Settled ==
    ASSUME IInv, chead = Len(stream)
    PROVE  /\ reported = chead /\ shead = chead /\ ran = chead
           /\ s2c = << >> /\ ppc = "poll" /\ app = << >>
           /\ Len(creplies) = Len(replies) /\ Polls = Len(replies)
           /\ Begun /\ Answered
           /\ \A p \in Pixels : cres[p] = resShadow[p]
<1>1. EngineTypes /\ ProgressTypes /\ Heads /\ Replies /\ Answers /\ Mirror
  BY DEF IInv
<1>2. /\ chead \in Nat /\ reported \in Nat /\ shead \in Nat /\ ran \in Nat
      /\ Len(stream) \in Nat /\ Len(creplies) \in Nat /\ toldReplies \in Nat /\ Len(replies) \in Nat
  BY <1>1 DEF EngineTypes, ProgressTypes
<1>3. reported = chead /\ shead = chead /\ ran = chead
  BY <1>1, <1>2 DEF Heads
<1>4. s2c = << >> /\ ppc = "poll" /\ venus = << >> /\ app = << >>
  BY <1>1, <1>3, Quiet
<1>5. toldReplies = Len(replies)
  BY <1>1, <1>3, <1>4 DEF Replies
<1>6. Len(creplies) = toldReplies
  <2>1. InHand = 0
    BY <1>1, <1>4, InHands
  <2>2. Joined(<< >>, Len(creplies), toldReplies, replies)
    BY <1>1, <1>2, <1>4, <2>1 DEF Answers
  <2> QED
    BY <1>2, <2>2, JoinedNone
<1>7. Begun
  BY <1>2, <1>3 DEF Begun
<1>8. Answered
  BY <1>3 DEF Answered
<1>9. Polls = Len(replies)
  BY <1>1, <1>2, <1>8 DEF Replies
<1>10. ASSUME NEW p \in Pixels PROVE cres[p] = resShadow[p]
  <2>1. ~ \E i \in DOMAIN app : Says(app[i], p)
    BY <1>4
  <2>2. Leaves(<< >>, p, cres[p], resShadow[p])
    BY <1>1, <1>4, <2>1 DEF Mirror
  <2> QED
    BY <2>2, LeavesNone
<1> QED
  BY <1>3, <1>4, <1>5, <1>6, <1>7, <1>8, <1>9, <1>10

\* When the yes is on C and nothing moves, S's shadow is S's memory.
LEMMA YesIsTrue ==
    ASSUME IInv, Released, phase' = "read"
    PROVE  SaysYes /\ todo = {} /\ resShadow = sres
<1>1. EngineTypes /\ Answers /\ Fresh /\ Replies
  BY DEF IInv
<1>2. phase = "wait" /\ chead = Len(stream) /\ creplies[Len(creplies)]
  BY DEF Released
<1>3. /\ Len(creplies) = Len(replies) /\ Answered /\ reported = ran /\ ppc = "poll"
      /\ Polls = Len(replies)
  BY <1>2, Settled
<1>4. Len(creplies) \in DOMAIN creplies
  <2>1. Len(creplies) > 0
    BY <1>1, <1>2, <1>3 DEF Replies, EngineTypes
  <2> QED
    BY <1>1, <2>1 DEF EngineTypes
<1>5. replies[Len(replies)]
  BY <1>1, <1>2, <1>3, <1>4 DEF Answers
<1>6. SaysYes
  BY <1>2, <1>3, <1>5 DEF SaysYes
<1> QED
  BY <1>1, <1>3, <1>6 DEF Fresh

\* What S has not run yet of what the application asked.
LEMMA Unstarted ==
    ASSUME EngineTypes, ProgressTypes, Heads, Commands, ran < Len(stream)
    PROVE  \/ phase = "poll" /\ ran + 1 = Len(stream) /\ stream[Len(stream)] = "submit"
           \/ phase = "wait" /\ ran + 1 = Len(stream) /\ stream[Len(stream)] = "poll"
           \/ /\ phase = "wait" /\ ran + 2 = Len(stream) /\ stream[Len(stream)] = "poll"
              /\ stream[ran + 1] = "submit"
<1>1. /\ chead \in Nat /\ ran \in Nat /\ Len(stream) \in Nat /\ chead <= ran
      /\ phase \in {"draw", "poll", "wait", "read"}
  BY DEF EngineTypes, ProgressTypes, Heads
<1>2. phase \in {"poll", "wait"}
  BY <1>1 DEF Commands
<1>3. CASE phase = "poll"
  BY <1>1, <1>3 DEF Commands
<1>4. CASE phase = "wait"
  <2>1. stream[Len(stream)] = "poll"
    BY <1>4 DEF Commands
  <2>2. CASE ran + 1 = Len(stream)
    BY <1>4, <2>1, <2>2
  <2>3. CASE ran + 1 # Len(stream)
    <3>1. chead + 2 = Len(stream) /\ stream[Len(stream) - 1] = "submit" /\ ran + 2 = Len(stream)
      BY <1>1, <1>4, <2>3 DEF Commands
    <3>2. ran + 1 = Len(stream) - 1
      BY <1>1, <3>1
    <3> QED
      BY <1>4, <2>1, <3>1, <3>2
  <2> QED
    BY <2>2, <2>3
<1> QED
  BY <1>2, <1>3, <1>4

\* Up to two steps before the end, the head is there, or nearer, or at the end.
LEMMA Nearer ==
    ASSUME NEW a \in Nat, NEW b \in Nat, NEW n \in Nat, a <= b, b <= n
    PROVE  /\ a + 1 = n => b = a \/ b = n
           /\ a + 2 = n => b = a \/ b + 1 = n \/ b = n
  OBVIOUS

\* Every step keeps the application to one thing at a time.
LEMMA CommandsNext ==
    ASSUME IInv, [Steps]_vars
    PROVE  Commands'
<1>1. EngineTypes /\ ProgressTypes /\ Heads /\ Commands
  BY DEF IInv
<1>2. /\ Len(stream) \in Nat /\ stream \in Seq({"submit", "poll"}) /\ chead \in Nat
      /\ DOMAIN stream = 1 .. Len(stream)
  BY <1>1 DEF EngineTypes
<1>3. CASE Draw
  <2>1. /\ phase = "draw" /\ phase' = "poll" /\ stream' = Append(stream, "submit")
        /\ UNCHANGED chead
    BY <1>3 DEF Draw, memVars
  <2>2. Len(stream') = Len(stream) + 1 /\ stream'[Len(stream) + 1] = "submit"
    BY <1>2, <2>1
  <2> QED
    BY <1>1, <1>2, <2>1, <2>2 DEF Commands
<1>4. CASE Poll
  <2>1. /\ phase = "poll" /\ phase' = "wait" /\ stream' = Append(stream, "poll")
        /\ UNCHANGED chead
    BY <1>4 DEF Poll, memVars
  <2>2. /\ Len(stream') = Len(stream) + 1 /\ stream'[Len(stream) + 1] = "poll"
        /\ \A i \in DOMAIN stream : stream'[i] = stream[i]
        /\ stream' # << >>
    BY <1>2, <2>1
  <2>3. CASE chead = Len(stream)
    BY <2>1, <2>2, <2>3, <1>2 DEF Commands
  <2>4. CASE stream[Len(stream)] = "submit" /\ chead + 1 = Len(stream)
    <3>1. chead + 2 = Len(stream') /\ Len(stream') - 1 = Len(stream) /\ Len(stream) \in DOMAIN stream
      BY <1>2, <2>2, <2>4
    <3>2. stream'[Len(stream') - 1] = "submit"
      BY <2>2, <2>4, <3>1
    <3> QED
      BY <2>1, <2>2, <3>1, <3>2 DEF Commands
  <2> QED
    BY <1>1, <2>1, <2>3, <2>4 DEF Commands
<1>5. CASE Released \/ DoneReading
  <2>1. /\ UNCHANGED <<stream, chead>> /\ chead = Len(stream)
        /\ phase' \in {"draw", "poll", "read"}
    BY <1>1, <1>5 DEF Released, DoneReading, Commands, memVars
  <2> QED
    BY <2>1 DEF Commands
<1>6. CASE Receive
  <2>1. UNCHANGED <<stream, phase>> /\ s2c # << >>
    BY <1>1, <1>6, Received DEF appVars
  <2>2. chead # Len(stream)
    BY <2>1, Settled
  <2>3. chead <= chead' /\ chead' \in Nat
    <3>1. Increasing(s2c, chead, IF ppc = "poll" THEN reported ELSE reported - 1)
      BY <1>1 DEF Heads
    <3>2. /\ Head(s2c) \in Message /\ chead' \in Nat
          /\ chead' = (IF Head(s2c).type = "RingProgress" THEN Head(s2c).head ELSE chead)
      BY <1>1, <1>6, Received
    <3>3. (IF ppc = "poll" THEN reported ELSE reported - 1) \in Int /\ s2c \in Seq(Message)
      BY <1>1 DEF ProgressTypes
    <3>4. Head(s2c).type = "RingProgress" => chead < Head(s2c).head
      BY <1>2, <2>1, <3>1, <3>3, IncreasingPop
    <3> QED
      BY <1>2, <3>2, <3>4
  <2>4. chead' <= Len(stream)
    <3>1. Heads' /\ EngineTypes' /\ ProgressTypes'
      BY HeadsNext, EngineTypesNext, ProgressTypesNext
    <3>2. /\ chead' <= reported' /\ reported' <= shead' /\ shead' <= ran' /\ ran' <= Len(stream')
          /\ reported' \in Nat /\ shead' \in Nat /\ ran' \in Nat
      BY <3>1 DEF Heads, EngineTypes, ProgressTypes
    <3> QED
      BY <1>2, <2>1, <2>3, <3>2
  <2>5. /\ chead + 1 = Len(stream) => chead' = chead \/ chead' = Len(stream)
        /\ chead + 2 = Len(stream) =>
             chead' = chead \/ chead' + 1 = Len(stream) \/ chead' = Len(stream)
    BY <1>2, <2>3, <2>4, Nearer
  <2>6. phase \notin {"draw", "read"}
    BY <1>1, <2>2 DEF Commands
  <2>7. phase = "poll" => \/ chead' = Len(stream)
                          \/ stream[Len(stream)] = "submit" /\ chead' + 1 = Len(stream)
    BY <1>1, <2>2, <2>5 DEF Commands
  <2>8. phase = "wait" =>
          /\ stream # << >> /\ stream[Len(stream)] = "poll"
          /\ \/ chead' = Len(stream) \/ chead' + 1 = Len(stream)
             \/ chead' + 2 = Len(stream) /\ stream[Len(stream) - 1] = "submit"
    BY <1>1, <2>2, <2>5 DEF Commands
  <2> QED
    BY <2>1, <2>6, <2>7, <2>8 DEF Commands
<1>7. CASE ForgetReplies \/ Dispatch \/ StoreHead \/ GpuWrites \/ TakeRingProgress
           \/ TakeVenusBlobWrites \/ TakeAppBlobWrites \/ ShipApp \/ ShipVenus \/ ShipProgress
           \/ Ends \/ UNCHANGED vars
  <2>1. UNCHANGED <<phase, stream, chead>>
    BY <1>7 DEF ForgetReplies, Dispatch, StoreHead, GpuWrites, TakeRingProgress,
       TakeVenusBlobWrites, TakeAppBlobWrites, ShipApp, ShipVenus, ShipProgress, Ends, vars,
       appVars, memVars
  <2> QED
    BY <1>1, <2>1 DEF Commands
<1> QED
  BY <1>3, <1>4, <1>5, <1>6, <1>7 DEF Steps, Next

\* Every step keeps the count of what the GPU has written.
LEMMA FramesNext ==
    ASSUME IInv, [Steps]_vars
    PROVE  Frames'
<1>1. EngineTypes /\ ProgressTypes /\ Heads /\ Commands /\ Frames
  BY DEF IInv
<1>2. /\ Len(stream) \in Nat /\ stream \in Seq({"submit", "poll"}) /\ chead \in Nat
      /\ DOMAIN stream = 1 .. Len(stream) /\ ran \in Nat /\ ran <= Len(stream)
      /\ frame \in Nat /\ word \in Nat
      /\ \A p \in Pixels : sres[p] \in Nat
  BY <1>1 DEF EngineTypes, Heads
<1>3. CASE Draw
  <2>1. /\ phase = "draw" /\ phase' = "poll" /\ stream' = Append(stream, "submit")
        /\ frame' = frame + 1 /\ UNCHANGED <<todo, sres, word, ran>>
    BY <1>3 DEF Draw, gpuVars, ringVars
  <2>2. Len(stream') = Len(stream) + 1 /\ stream'[Len(stream) + 1] = "submit"
    BY <1>2, <2>1
  <2>3. ran = Len(stream) /\ Begun /\ todo = {}
    BY <1>1, <2>1, Settled DEF Commands, Frames
  <2>4. ~ Begun'
    BY <1>2, <2>1, <2>2, <2>3 DEF Begun
  <2>5. /\ \A p \in Pixels : sres[p] = frame
        /\ Word => word = frame
    BY <1>1, <1>2, <2>3 DEF Frames
  <2>6. /\ \A p \in Pixels :
             sres'[p] + (IF p \in todo' THEN 1 ELSE 0) + (IF Begun' THEN 0 ELSE 1) = frame'
        /\ Word => word' + (IF todo' = {} THEN 0 ELSE 1) + (IF Begun' THEN 0 ELSE 1) = frame'
    BY <1>2, <2>1, <2>3, <2>4, <2>5
  <2> QED
    BY <2>1, <2>3, <2>4, <2>6 DEF Frames
<1>4. ASSUME UNCHANGED <<frame, todo, sres, word>>, Begun' = Begun,
             phase' \in {"draw", "read"} => todo = {}
      PROVE  Frames'
  BY <1>1, <1>4 DEF Frames
<1>5. CASE Poll
  <2>1. /\ phase' = "wait" /\ stream' = Append(stream, "poll")
        /\ UNCHANGED <<frame, todo, sres, word, ran>>
    BY <1>5 DEF Poll, gpuVars, ringVars
  <2>2. /\ Len(stream') = Len(stream) + 1 /\ stream'[Len(stream) + 1] = "poll"
        /\ \A i \in DOMAIN stream : stream'[i] = stream[i]
    BY <1>2, <2>1
  <2>3. Begun => Begun'
    BY <1>2, <2>1, <2>2 DEF Begun
  <2>4. Begun' => Begun
    BY <1>2, <2>1, <2>2 DEF Begun
  <2>5. Begun' = Begun
    BY <2>3, <2>4 DEF Begun
  <2> QED
    BY <1>4, <2>1, <2>5
<1>6. CASE Released
  <2>1. phase' \in {"poll", "read"} /\ UNCHANGED <<stream, frame, todo, sres, word, ran>>
    BY <1>6 DEF Released, gpuVars, ringVars
  <2>2. phase' = "read" => todo = {}
    BY <1>6, YesIsTrue
  <2>3. Begun' = Begun
    BY <2>1 DEF Begun
  <2> QED
    BY <1>4, <2>1, <2>2, <2>3
<1>7. CASE DoneReading
  <2>1. phase = "read" /\ UNCHANGED <<stream, frame, todo, sres, word, ran>>
    BY <1>7 DEF DoneReading, gpuVars, ringVars
  <2>2. todo = {}
    BY <1>1, <2>1 DEF Frames
  <2>3. Begun' = Begun
    BY <2>1 DEF Begun
  <2> QED
    BY <1>4, <2>1, <2>2, <2>3
<1>8. CASE Dispatch
  <2>1. /\ ran < Len(stream) /\ ran' = ran + 1
        /\ \/ stream[ran + 1] = "submit" /\ todo' = Pixels
           \/ stream[ran + 1] = "poll" /\ todo' = todo
        /\ UNCHANGED <<phase, stream, frame, sres, word>>
    BY <1>1, <1>8, Dispatched DEF appVars
  <2>2. \/ phase = "poll" /\ ran + 1 = Len(stream) /\ stream[Len(stream)] = "submit"
        \/ phase = "wait" /\ ran + 1 = Len(stream) /\ stream[Len(stream)] = "poll"
        \/ /\ phase = "wait" /\ ran + 2 = Len(stream) /\ stream[Len(stream)] = "poll"
           /\ stream[ran + 1] = "submit"
    BY <1>1, <2>1, Unstarted
  <2>3. Begun'
    <3>1. ASSUME NEW i \in ran' + 1 .. Len(stream') PROVE stream'[i] = "poll"
      <4>1. i \in Nat /\ ran + 2 <= i /\ i <= Len(stream) /\ stream' = stream
        BY <1>2, <2>1
      <4>2. ran + 1 = Len(stream) \/ (ran + 2 = Len(stream) /\ stream[Len(stream)] = "poll")
        BY <2>2
      <4>3. Len(stream) \in Nat /\ ran \in Nat
        BY <1>2
      <4>4. ran + 1 # Len(stream)
        BY <4>1, <4>3
      <4>5. ran + 2 = Len(stream) => i = Len(stream)
        BY <4>1, <4>3
      <4> QED
        BY <4>1, <4>2, <4>4, <4>5
    <3> QED
      BY <3>1 DEF Begun
  <2>4. CASE stream[ran + 1] = "poll" /\ todo' = todo
    <3>1. Begun
      <4>1. ran + 1 = Len(stream)
        BY <2>2, <2>4
      <4>2. \A i \in ran + 1 .. Len(stream) : i = ran + 1
        BY <1>2, <4>1
      <4> QED
        BY <2>4, <4>2 DEF Begun
    <3>2. Begun' = Begun
      BY <2>3, <3>1
    <3> QED
      BY <1>4, <2>1, <2>2, <2>4, <2>3, <3>1, <3>2
  <2>5. CASE stream[ran + 1] = "submit" /\ todo' = Pixels
    <3>1. ~ Begun
      BY <1>2, <2>1, <2>5 DEF Begun
    <3>2. todo = {}
      BY <1>1, <3>1 DEF Frames
    <3>3. /\ \A p \in Pixels : sres[p] + 1 = frame
          /\ Word => word + 1 = frame
      BY <1>1, <1>2, <3>1, <3>2 DEF Frames
    <3>4. todo' # {}
      BY <2>5, ReadbackAssumption
    <3>5. /\ \A p \in Pixels :
               sres'[p] + (IF p \in todo' THEN 1 ELSE 0) + (IF Begun' THEN 0 ELSE 1) = frame'
          /\ Word => word' + (IF todo' = {} THEN 0 ELSE 1) + (IF Begun' THEN 0 ELSE 1) = frame'
      BY <1>2, <2>1, <2>3, <2>5, <3>3, <3>4
    <3> QED
      BY <2>1, <2>2, <2>3, <3>5 DEF Frames
  <2> QED
    BY <2>1, <2>4, <2>5
<1>9. CASE GpuWrites
  <2>1. PICK q \in todo : sres' = [sres EXCEPT ![q] = @ + 1] /\ todo' = todo \ {q}
    BY <1>9 DEF GpuWrites
  <2>2. /\ word' = IF todo' = {} /\ Word THEN word + 1 ELSE word
        /\ UNCHANGED <<phase, frame, stream, ran>>
    BY <1>9 DEF GpuWrites, appVars, ringVars
  <2>3. Begun /\ phase \notin {"draw", "read"} /\ q \in Pixels /\ todo \subseteq Pixels
    BY <1>1, <2>1 DEF Frames, EngineTypes
  <2>4. Begun'
    BY <2>2, <2>3 DEF Begun
  <2>5. ASSUME NEW p \in Pixels
        PROVE  sres'[p] + (IF p \in todo' THEN 1 ELSE 0) + (IF Begun' THEN 0 ELSE 1) = frame'
    <3>1. sres[p] + (IF p \in todo THEN 1 ELSE 0) = frame
      BY <1>1, <1>2, <2>3 DEF Frames
    <3>2. sres'[p] = IF p = q THEN sres[p] + 1 ELSE sres[p]
      BY <1>1, <2>1 DEF EngineTypes
    <3>3. sres'[p] + (IF p \in todo' THEN 1 ELSE 0) = frame
      BY <1>2, <2>1, <3>1, <3>2
    <3> QED
      BY <1>2, <2>2, <2>4, <3>2, <3>3
  <2>6. ASSUME Word
        PROVE  word' + (IF todo' = {} THEN 0 ELSE 1) + (IF Begun' THEN 0 ELSE 1) = frame'
    <3>1. word + 1 = frame
      BY <1>1, <1>2, <2>1, <2>3, <2>6 DEF Frames
    <3> QED
      BY <1>2, <2>2, <2>4, <2>6, <3>1
  <2> QED
    BY <2>2, <2>3, <2>4, <2>5, <2>6 DEF Frames
<1>10. CASE ForgetReplies \/ StoreHead \/ TakeRingProgress \/ Receive
           \/ TakeVenusBlobWrites \/ TakeAppBlobWrites \/ ShipApp \/ ShipVenus \/ ShipProgress
           \/ Ends \/ UNCHANGED vars
  <2>1. UNCHANGED <<phase, stream, frame, todo, sres, word, ran>>
    BY <1>10 DEF ForgetReplies, StoreHead, TakeRingProgress, Receive,
       TakeVenusBlobWrites, TakeAppBlobWrites, ShipApp, ShipVenus, ShipProgress, Ends, vars,
       appVars, memVars, gpuVars, ringVars
  <2>2. Begun' = Begun
    BY <2>1 DEF Begun
  <2> QED
    BY <1>1, <1>4, <2>1, <2>2 DEF Frames
<1> QED
  BY <1>3, <1>5, <1>6, <1>7, <1>8, <1>9, <1>10 DEF Steps, Next

\* The polls of a longer stream.
LEMMA PollsMore ==
    ASSUME EngineTypes, NEW c, c \in {"submit", "poll"}, stream' = Append(stream, c)
    PROVE  /\ Polls \in Nat
           /\ Polls' = IF c = "poll" THEN Polls + 1 ELSE Polls
<1> DEFINE P == {i \in DOMAIN stream : stream[i] = "poll"}
           Q == {i \in DOMAIN stream' : stream'[i] = "poll"}
           n == Len(stream)
<1>1. /\ n \in Nat /\ DOMAIN stream = 1 .. n /\ DOMAIN stream' = DOMAIN stream \cup {n + 1}
      /\ \A i \in DOMAIN stream : i # n + 1 /\ stream'[i] = stream[i]
      /\ stream'[n + 1] = c
  <2>1. stream \in Seq({"submit", "poll"})
    BY DEF EngineTypes
  <2> QED
    BY <2>1, Pushed
<1>2. IsFiniteSet(1 .. n)
  BY <1>1, FS_Interval
<1>3. IsFiniteSet(P)
  BY <1>1, <1>2, FS_Subset
<1>4. Cardinality(P) \in Nat
  BY <1>3, FS_CardinalityType
<1>5. Q = IF c = "poll" THEN P \cup {n + 1} ELSE P
  BY <1>1
<1>6. n + 1 \notin P
  BY <1>1
<1>7. Cardinality(Q) = IF c = "poll" THEN Cardinality(P) + 1 ELSE Cardinality(P)
  <2> HIDE DEF P, Q
  <2> QED
    BY <1>3, <1>5, <1>6, FS_AddElement
<1> QED
  BY <1>4, <1>7 DEF Polls

\* Every step keeps the count of the answers.
LEMMA RepliesNext ==
    ASSUME IInv, [Steps]_vars
    PROVE  Replies'
<1>1. EngineTypes /\ ProgressTypes /\ Heads /\ Commands /\ Replies /\ Answers
  BY DEF IInv
<1>2. /\ Len(stream) \in Nat /\ ran \in Nat /\ ran <= Len(stream) /\ Polls \in Nat
      /\ Len(replies) \in Nat /\ Len(creplies) \in Nat /\ toldReplies \in Nat
      /\ forgotten \in Nat /\ reported \in Nat /\ shead \in Nat /\ reported <= shead
      /\ stream \in Seq({"submit", "poll"})
  BY <1>1 DEF EngineTypes, ProgressTypes, Heads, Replies
<1>3. CASE Draw
  <2>1. /\ phase = "draw" /\ phase' = "poll" /\ stream' = Append(stream, "submit")
        /\ UNCHANGED <<replies, ran, forgotten, creplies, toldReplies, reported, ppc>>
    BY <1>3 DEF Draw, memVars, ringVars, progressVars
  <2>2. Polls' = Polls
    BY <1>1, <2>1, PollsMore
  <2>3. Answered /\ Answered'
    BY <2>1 DEF Answered
  <2> QED
    BY <1>1, <2>1, <2>2, <2>3 DEF Replies
<1>4. CASE Poll
  <2>1. /\ phase = "poll" /\ phase' = "wait" /\ stream' = Append(stream, "poll")
        /\ UNCHANGED <<replies, ran, forgotten, creplies, toldReplies, reported, ppc>>
    BY <1>4 DEF Poll, memVars, ringVars, progressVars
  <2>2. Polls' = Polls + 1
    BY <1>1, <2>1, PollsMore
  <2>3. Len(stream') = Len(stream) + 1
    BY <1>2, <2>1
  <2>4. Answered /\ ~ Answered'
    BY <1>2, <2>1, <2>3 DEF Answered
  <2>5. Polls = Len(replies)
    BY <1>1, <1>2, <2>4 DEF Replies
  <2>6. forgotten < Polls'
    BY <1>1, <1>2, <2>2, <2>5 DEF Replies
  <2> QED
    BY <1>1, <1>2, <2>1, <2>2, <2>4, <2>5, <2>6 DEF Replies
<1>5. CASE Released
  <2>1. /\ phase = "wait" /\ chead = Len(stream) /\ phase' # "wait"
        /\ UNCHANGED <<stream, replies, ran, forgotten, creplies, toldReplies, reported, ppc>>
    BY <1>5 DEF Released, memVars, ringVars, progressVars
  <2>2. Answered /\ Answered' /\ Polls' = Polls
    BY <2>1, Settled DEF Answered, Polls
  <2> QED
    BY <1>1, <2>1, <2>2 DEF Replies
<1>6. CASE DoneReading
  <2>1. /\ phase = "read" /\ phase' = "draw"
        /\ UNCHANGED <<stream, replies, ran, forgotten, creplies, toldReplies, reported, ppc>>
    BY <1>6 DEF DoneReading, memVars, ringVars, progressVars
  <2>2. Answered /\ Answered' /\ Polls' = Polls
    BY <2>1 DEF Answered, Polls
  <2> QED
    BY <1>1, <2>1, <2>2 DEF Replies
<1>7. CASE ForgetReplies
  <2>1. /\ phase # "wait" /\ forgotten' = Len(creplies)
        /\ UNCHANGED <<phase, stream, replies, ran, creplies, toldReplies, reported, ppc>>
    BY <1>7 DEF ForgetReplies, appVars, memVars, ringVars, progressVars
  <2>2. Answered' = Answered /\ Polls' = Polls
    BY <2>1 DEF Answered, Polls
  <2> QED
    BY <1>1, <1>2, <2>1, <2>2 DEF Replies
<1>8. CASE Dispatch
  <2>1. /\ ran = shead /\ ran < Len(stream) /\ ran' = ran + 1
        /\ UNCHANGED <<phase, stream, forgotten, creplies, toldReplies, reported, ppc>>
        /\ \/ stream[ran + 1] = "submit" /\ replies' = replies
           \/ stream[ran + 1] = "poll" /\ replies' = Append(replies, todo = {})
    BY <1>1, <1>8, Dispatched DEF appVars, memVars, progressVars
  <2>2. \/ phase = "poll" /\ ran + 1 = Len(stream) /\ stream[Len(stream)] = "submit"
        \/ phase = "wait" /\ ran + 1 = Len(stream) /\ stream[Len(stream)] = "poll"
        \/ /\ phase = "wait" /\ ran + 2 = Len(stream) /\ stream[Len(stream)] = "poll"
           /\ stream[ran + 1] = "submit"
    BY <1>1, <2>1, Unstarted
  <2>3. Polls' = Polls
    BY <2>1 DEF Polls
  <2>4. reported' # ran'
    BY <1>2, <2>1
  <2>5. CASE stream[ran + 1] = "submit" /\ replies' = replies
    <3>1. Answered' = Answered
      BY <1>2, <2>1, <2>2, <2>5 DEF Answered
    <3> QED
      BY <1>1, <2>1, <2>3, <2>4, <2>5, <3>1 DEF Replies
  <2>6. CASE stream[ran + 1] = "poll" /\ replies' = Append(replies, todo = {})
    <3>1. ~ Answered /\ Answered'
      BY <1>2, <2>1, <2>2, <2>6 DEF Answered
    <3>2. Len(replies') = Len(replies) + 1
      BY <1>1, <2>6 DEF EngineTypes
    <3> QED
      BY <1>1, <1>2, <2>1, <2>3, <2>4, <3>1, <3>2 DEF Replies
  <2> QED
    BY <2>1, <2>5, <2>6
<1>9. CASE TakeRingProgress
  <2>1. /\ ppc' = "scan"
        /\ UNCHANGED <<phase, stream, replies, ran, forgotten, creplies, toldReplies>>
    BY <1>9 DEF TakeRingProgress, appVars, memVars, ringVars
  <2>2. Answered' = Answered /\ Polls' = Polls
    BY <2>1 DEF Answered, Polls
  <2> QED
    BY <1>1, <2>1, <2>2 DEF Replies
<1>10. CASE TakeVenusBlobWrites
  <2>1. /\ toldReplies' = Len(replies)
        /\ UNCHANGED <<phase, stream, replies, ran, forgotten, creplies, reported>>
    BY <1>10 DEF TakeVenusBlobWrites, appVars, memVars, ringVars
  <2>2. Answered' = Answered /\ Polls' = Polls
    BY <2>1 DEF Answered, Polls
  <2> QED
    BY <1>1, <1>2, <2>1, <2>2 DEF Replies
<1>11. CASE Receive
  <2> DEFINE m == Head(s2c)
  <2>1. /\ m \in Message /\ s2c # << >>
        /\ UNCHANGED <<phase, stream, replies, ran, forgotten, toldReplies, reported, ppc>>
        /\ IF m.type = "ReplyData" THEN Len(creplies') = Len(creplies) + Len(m.answers)
           ELSE creplies' = creplies
    BY <1>1, <1>11, Received DEF appVars, ringVars, progressVars
  <2>2. Answered' = Answered /\ Polls' = Polls
    BY <2>1 DEF Answered, Polls
  <2>3. InHand \in Nat /\ s2c \in Seq(Message)
    BY <1>1, InHands DEF ProgressTypes
  <2>4. /\ Joined(s2c, Len(creplies), toldReplies - InHand, replies)
        /\ toldReplies - InHand \in Nat
    <3>1. venus # << >> => InHand <= toldReplies
      BY <1>1 DEF Answers
    <3>2. venus = << >> => InHand = 0
      BY <1>1, InHands
    <3> QED
      BY <1>1, <1>2, <2>3, <3>1, <3>2 DEF Answers
  <2>5. m.type = "ReplyData" =>
          Len(creplies) + Len(m.answers) <= toldReplies - InHand /\ Len(m.answers) \in Nat
    BY <1>2, <2>1, <2>3, <2>4, JoinedPop, Messages
  <2>6. Len(creplies) <= Len(creplies') /\ Len(creplies') <= toldReplies /\ Len(creplies') \in Nat
    <3> HIDE DEF m
    <3>1. Len(creplies) <= toldReplies
      BY <1>1 DEF Replies
    <3> QED
      BY <1>2, <2>1, <2>3, <2>5, <3>1
  <2> QED
    BY <1>1, <1>2, <2>1, <2>2, <2>6 DEF Replies
<1>12. CASE StoreHead \/ GpuWrites
           \/ TakeAppBlobWrites \/ ShipApp \/ ShipVenus \/ ShipProgress
           \/ Ends \/ UNCHANGED vars
  <2>1. /\ UNCHANGED <<phase, stream, replies, ran, forgotten, creplies, toldReplies, reported>>
        /\ UNCHANGED ppc \/ ppc # "scan"
    BY <1>12 DEF StoreHead, GpuWrites, TakeAppBlobWrites, ShipApp, ShipVenus, ShipProgress,
       Ends, vars, appVars, memVars, gpuVars, ringVars, progressVars
  <2>2. Answered' = Answered /\ Polls' = Polls
    BY <2>1 DEF Answered, Polls
  <2> QED
    BY <1>1, <2>1, <2>2 DEF Replies
<1> QED
  BY <1>3, <1>4, <1>5, <1>6, <1>7, <1>8, <1>9, <1>10, <1>11, <1>12 DEF Steps, Next

-----------------------------------------------------------------------------
(* The answers and the pixels on their way.                                *)

\* Answers in hand were counted as told.
LEMMA ToldOf ==
    ASSUME ProgressTypes, Answers
    PROVE  /\ InHand \in Nat /\ toldReplies \in Nat /\ s2c \in Seq(Message)
           /\ toldReplies - InHand \in Nat /\ toldReplies - InHand <= toldReplies
<1>1. InHand \in Nat /\ (venus = << >> => InHand = 0)
  BY InHands
<1>2. toldReplies \in Nat /\ s2c \in Seq(Message)
  BY DEF ProgressTypes
<1>3. venus # << >> => InHand <= toldReplies
  BY DEF Answers
<1> QED
  BY <1>1, <1>2, <1>3

\* A message without answers changes nothing of them.
LEMMA JoinedOther ==
    ASSUME NEW link \in Seq(Message), NEW m \in Message, m.type # "ReplyData", NEW said,
           NEW from \in Nat, NEW upto \in Nat, Joined(link, from, upto, said)
    PROVE  Joined(Append(link, m), from, upto, said) /\ Append(link, m) \in Seq(Message)
  BY JoinedPush, Pushed

\* Every step keeps the answers on their way, each one once and in order.
LEMMA AnswersNext ==
    ASSUME IInv, [Steps]_vars
    PROVE  Answers'
<1>1. EngineTypes /\ ProgressTypes /\ Replies /\ Answers
  BY DEF IInv
<1>2. /\ creplies \in Seq(BOOLEAN) /\ replies \in Seq(BOOLEAN)
      /\ Len(creplies) \in Nat /\ Len(replies) \in Nat
      /\ DOMAIN creplies = 1 .. Len(creplies) /\ DOMAIN replies = 1 .. Len(replies)
      /\ Len(creplies) <= toldReplies /\ toldReplies <= Len(replies)
  BY <1>1 DEF EngineTypes, Replies
<1>3. /\ InHand \in Nat /\ toldReplies \in Nat /\ s2c \in Seq(Message)
      /\ toldReplies - InHand \in Nat /\ toldReplies - InHand <= toldReplies
  BY <1>1, ToldOf
<1>4. Joined(s2c, Len(creplies), toldReplies - InHand, replies)
  BY <1>1 DEF Answers
<1>5. CASE Draw \/ Poll \/ Released \/ DoneReading \/ ForgetReplies \/ StoreHead \/ GpuWrites
           \/ TakeRingProgress \/ TakeAppBlobWrites \/ Ends \/ UNCHANGED vars
  <2>1. UNCHANGED <<replies, creplies, s2c, toldReplies, venus>>
    BY <1>5 DEF Draw, Poll, Released, DoneReading, ForgetReplies, StoreHead, GpuWrites,
       TakeRingProgress, TakeAppBlobWrites, Ends, vars, memVars, ringVars, progressVars
  <2>2. InHand' = InHand
    BY <2>1 DEF InHand
  <2> QED
    BY <1>1, <2>1, <2>2 DEF Answers
<1>6. CASE Dispatch
  <2>1. /\ replies' = replies \/ replies' = Append(replies, todo = {})
        /\ UNCHANGED <<creplies, s2c, toldReplies, venus>>
    BY <1>1, <1>6, Dispatched DEF memVars, progressVars
  <2>2. InHand' = InHand
    BY <2>1 DEF InHand
  <2>3. \A k \in DOMAIN replies : replies'[k] = replies[k]
    BY <1>2, <2>1
  <2>4. Joined(s2c, Len(creplies), toldReplies - InHand, replies')
    <3>1. toldReplies - InHand <= Len(replies)
      BY <1>2, <1>3
    <3>2. ASSUME NEW answer \in BOOLEAN
          PROVE  Joined(s2c, Len(creplies), toldReplies - InHand, Append(replies, answer))
      BY <1>2, <1>3, <1>4, <3>1, JoinedStays
    <3>3. (todo = {}) \in BOOLEAN
      OBVIOUS
    <3>4. Joined(s2c, Len(creplies), toldReplies - InHand, Append(replies, todo = {}))
      BY <3>2, <3>3, Zenon
    <3> QED
      BY <1>4, <2>1, <3>4, Zenon
  <2>5. \A k \in DOMAIN creplies : creplies[k] = replies'[k]
    BY <1>1, <1>2, <1>3, <2>3 DEF Answers
  <2>6. ASSUME venus # << >>
        PROVE  /\ InHand <= toldReplies
               /\ \A k \in DOMAIN venus[1].answers :
                    venus[1].answers[k] = replies'[toldReplies - InHand + k]
    <3>1. PICK a \in Seq(BOOLEAN) : venus = << ReplyData(a) >>
      BY <1>1, <2>6 DEF ProgressTypes
    <3>2. InHand = Len(a) /\ venus[1].answers = a
      BY <1>1, <3>1, InHands
    <3>3. DOMAIN a = 1 .. Len(a)
      OBVIOUS
    <3>4. \A k \in DOMAIN a : toldReplies - InHand + k \in DOMAIN replies
      BY <1>2, <1>3, <3>2, <3>3
    <3> QED
      BY <1>1, <2>3, <2>6, <3>2, <3>4 DEF Answers
  <2> QED
    BY <2>1, <2>2, <2>4, <2>5, <2>6 DEF Answers
<1>7. CASE TakeVenusBlobWrites
  <2>1. /\ ppc = "scan" /\ toldReplies' = Len(replies)
        /\ venus' = IF NewAnswers = << >> THEN << >> ELSE << ReplyData(NewAnswers) >>
        /\ UNCHANGED <<replies, creplies, s2c>>
    BY <1>7 DEF TakeVenusBlobWrites, memVars, ringVars
  <2>2. InHand = 0
    BY <1>1, <2>1, InHands DEF ProgressTypes
  <2>3. /\ NewAnswers \in Seq(BOOLEAN) /\ Len(NewAnswers) = Len(replies) - toldReplies
        /\ DOMAIN NewAnswers = 1 .. Len(NewAnswers)
        /\ \A k \in DOMAIN NewAnswers : NewAnswers[k] = replies[toldReplies + k]
    <3>1. toldReplies + 1 \in 1 .. Len(replies) + 1 /\ Len(replies) \in 0 .. Len(replies)
      BY <1>2, <1>3
    <3>2. /\ NewAnswers \in Seq(BOOLEAN)
          /\ Len(NewAnswers) = IF toldReplies + 1 <= Len(replies)
                               THEN Len(replies) - (toldReplies + 1) + 1 ELSE 0
          /\ \A k \in 1 .. Len(replies) - (toldReplies + 1) + 1 :
               NewAnswers[k] = replies[toldReplies + 1 + k - 1]
      BY <1>2, <3>1, SubSeqProperties DEF NewAnswers
    <3>3. Len(NewAnswers) = Len(replies) - toldReplies
      <4>1. Len(NewAnswers) = IF toldReplies + 1 <= Len(replies)
                              THEN Len(replies) - (toldReplies + 1) + 1 ELSE 0
        BY <3>2
      <4>2. Len(replies) \in Nat /\ toldReplies \in Nat /\ toldReplies <= Len(replies)
        BY <1>2, <1>3
      <4> QED
        BY <4>1, <4>2
    <3>4. DOMAIN NewAnswers = 1 .. Len(NewAnswers)
      BY <3>2
    <3>5. Len(replies) - (toldReplies + 1) + 1 = Len(replies) - toldReplies
      BY <1>2, <1>3
    <3>6. \A k \in DOMAIN NewAnswers : toldReplies + 1 + k - 1 = toldReplies + k
      BY <1>3, <3>4
    <3> QED
      BY <3>2, <3>3, <3>4, <3>5, <3>6
  <2>4. NewAnswers = << >> => Len(NewAnswers) = 0
    OBVIOUS
  <2>5. InHand' = Len(NewAnswers) /\ (venus' # << >> => venus'[1].answers = NewAnswers)
    <3>1. CASE NewAnswers = << >>
      BY <2>1, <2>4, <3>1 DEF InHand
    <3>2. CASE NewAnswers # << >>
      <4>1. venus' = << ReplyData(NewAnswers) >>
        BY <2>1, <3>2
      <4>2. venus' # << >> /\ venus'[1].answers = NewAnswers
        BY <4>1 DEF ReplyData
      <4> QED
        BY <4>2 DEF InHand
    <3> QED
      BY <3>1, <3>2
  <2>6. toldReplies' - InHand' = toldReplies
    BY <1>2, <1>3, <2>1, <2>3, <2>5
  <2>7. Joined(s2c, Len(creplies), toldReplies, replies)
    <3>1. toldReplies - InHand = toldReplies
      BY <1>3, <2>2
    <3> QED
      BY <1>4, <3>1
  <2>8. InHand' <= toldReplies'
    BY <1>2, <1>3, <2>1, <2>3, <2>5
  <2>9. venus' # << >> =>
          \A k \in DOMAIN venus'[1].answers : venus'[1].answers[k] = replies[toldReplies + k]
    BY <2>3, <2>5
  <2> QED
    BY <1>1, <2>1, <2>6, <2>7, <2>8, <2>9 DEF Answers
<1>8. CASE ShipApp
  <2>1. /\ UNCHANGED <<replies, creplies, toldReplies, venus>>
    BY <1>8 DEF ShipApp, memVars, ringVars
  <2>2. InHand' = InHand
    BY <2>1 DEF InHand
  <2> DEFINE J(link) == Joined(link, Len(creplies), toldReplies - InHand, replies)
  <2>3. ASSUME NEW link \in Seq(Message), J(link), NEW m \in Message, m.type # "ReplyData"
        PROVE  J(Append(link, m)) /\ Append(link, m) \in Seq(Message)
    BY <1>2, <1>3, <2>3, JoinedOther
  <2>4. J(s2c)
    BY <1>4
  <2> HIDE DEF J
  <2>5. ASSUME NEW m \in Message, s2c' = Append(s2c, m), m.type \in {"PixelData", "WordData"}
        PROVE  J(s2c')
    BY <1>3, <2>3, <2>4, <2>5
  <2>6. ASSUME NEW m \in Message, NEW n \in Message, s2c' = Append(Append(s2c, m), n),
               m.type = "PixelData", n.type = "WordData"
        PROVE  J(s2c')
    <3>1. J(Append(s2c, m)) /\ Append(s2c, m) \in Seq(Message)
      BY <1>3, <2>3, <2>4, <2>6
    <3> QED
      BY <2>3, <2>6, <3>1
  <2>7. J(s2c')
    BY <1>1, <1>8, <2>4, <2>5, <2>6, Shipped
  <2> QED
    BY <1>1, <2>1, <2>2, <2>7 DEF Answers, J
<1>9. CASE ShipVenus
  <2>1. venus' = << >> /\ UNCHANGED <<replies, creplies, toldReplies>>
    BY <1>9 DEF ShipVenus, memVars, ringVars
  <2>2. InHand' = 0 /\ toldReplies - 0 = toldReplies
    BY <1>3, <2>1 DEF InHand
  <2>3. Joined(s2c', Len(creplies), toldReplies, replies)
    <3>1. ASSUME venus = << >>, s2c' = s2c PROVE Joined(s2c', Len(creplies), toldReplies, replies)
      <4>1. InHand = 0
        BY <1>1, <3>1, InHands
      <4> QED
        BY <1>4, <2>2, <3>1, <4>1
    <3>2. ASSUME NEW a \in Seq(BOOLEAN), venus = << ReplyData(a) >>, ReplyData(a) \in Message,
                 s2c' = Append(s2c, ReplyData(a))
          PROVE  Joined(s2c', Len(creplies), toldReplies, replies)
      <4>1. InHand = Len(a) /\ venus[1].answers = a /\ venus # << >>
        BY <1>1, <3>2, InHands
      <4>2. ReplyData(a).type = "ReplyData" /\ ReplyData(a).answers = a
        BY MadeMessages
      <4>3. \A k \in DOMAIN a : a[k] = replies[toldReplies - InHand + k]
        BY <1>1, <4>1 DEF Answers
      <4>4. toldReplies = toldReplies - InHand + Len(a)
        BY <1>3, <4>1
      <4> QED
        BY <1>2, <1>3, <1>4, <3>2, <4>2, <4>3, <4>4, JoinedPush
    <3> QED
      BY <1>1, <1>9, <3>1, <3>2, ShippedAnswers
  <2> QED
    BY <1>1, <2>1, <2>2, <2>3 DEF Answers
<1>10. CASE ShipProgress
  <2>1. /\ s2c' = Append(s2c, RingProgress(reported))
        /\ UNCHANGED <<replies, creplies, toldReplies, venus>>
    BY <1>10 DEF ShipProgress, memVars, ringVars
  <2>2. InHand' = InHand
    BY <2>1 DEF InHand
  <2>3. RingProgress(reported) \in Message /\ RingProgress(reported).type # "ReplyData"
    BY <1>1, MadeMessages DEF ProgressTypes
  <2>4. Joined(s2c', Len(creplies), toldReplies - InHand, replies)
    BY <1>2, <1>3, <1>4, <2>1, <2>3, JoinedOther
  <2> QED
    BY <1>1, <2>1, <2>2, <2>4 DEF Answers
<1>11. CASE Receive
  <2> DEFINE m == Head(s2c)
  <2>1. /\ m \in Message /\ s2c # << >> /\ s2c' = Tail(s2c)
        /\ IF m.type = "ReplyData"
           THEN /\ Len(creplies') = Len(creplies) + Len(m.answers)
                /\ \A k \in DOMAIN creplies' :
                     creplies'[k] = IF k <= Len(creplies) THEN creplies[k]
                                    ELSE m.answers[k - Len(creplies)]
           ELSE creplies' = creplies
        /\ creplies' \in Seq(BOOLEAN)
        /\ UNCHANGED <<replies, toldReplies, venus>>
    BY <1>1, <1>11, Received DEF ringVars, progressVars
  <2>2. InHand' = InHand
    BY <2>1 DEF InHand
  <2>3. IF m.type = "ReplyData"
        THEN /\ \A k \in DOMAIN m.answers : m.answers[k] = replies[Len(creplies) + k]
             /\ Joined(s2c', Len(creplies) + Len(m.answers), toldReplies - InHand, replies)
        ELSE Joined(s2c', Len(creplies), toldReplies - InHand, replies)
    BY <1>2, <1>3, <1>4, <2>1, JoinedPop
  <2> HIDE DEF m
  <2>4. Joined(s2c', Len(creplies'), toldReplies - InHand, replies)
    BY <2>1, <2>3
  <2>5. ASSUME NEW k \in DOMAIN creplies' PROVE creplies'[k] = replies[k]
    <3>1. CASE m.type # "ReplyData"
      BY <1>1, <2>1, <2>5, <3>1 DEF Answers
    <3>2. CASE m.type = "ReplyData"
      <4>1. k \in Nat /\ 1 <= k /\ k <= Len(creplies) + Len(m.answers)
        BY <2>1, <2>5, <3>2
      <4>2. Len(m.answers) \in Nat /\ DOMAIN m.answers = 1 .. Len(m.answers)
        BY <2>1, <3>2, Messages
      <4>3. CASE k <= Len(creplies)
        BY <1>1, <1>2, <2>1, <3>2, <4>1, <4>3 DEF Answers
      <4>4. CASE ~ (k <= Len(creplies))
        <5>1. creplies'[k] = m.answers[k - Len(creplies)]
          BY <2>1, <2>5, <3>2, <4>4
        <5>2. k - Len(creplies) \in DOMAIN m.answers /\ Len(creplies) + (k - Len(creplies)) = k
          BY <1>2, <4>1, <4>2, <4>4
        <5> QED
          BY <2>3, <3>2, <5>1, <5>2
      <4> QED
        BY <4>3, <4>4
    <3> QED
      BY <3>1, <3>2
  <2> QED
    BY <1>1, <2>1, <2>2, <2>4, <2>5 DEF Answers
<1> QED
  BY <1>5, <1>6, <1>7, <1>8, <1>9, <1>10, <1>11 DEF Steps, Next

\* Every step keeps each pixel's last message saying what S's shadow says.
LEMMA MirrorNext ==
    ASSUME IInv, [Steps]_vars
    PROVE  Mirror'
<1>1. EngineTypes /\ ProgressTypes /\ Frames /\ Teed /\ Mirror /\ s2c \in Seq(Message)
  BY DEF IInv, ProgressTypes
<1>2. CASE Draw \/ Poll \/ Released \/ DoneReading \/ ForgetReplies \/ Dispatch \/ StoreHead
           \/ GpuWrites \/ TakeRingProgress \/ TakeVenusBlobWrites \/ Ends \/ UNCHANGED vars
  <2>1. UNCHANGED <<app, s2c, cres, resShadow>>
    BY <1>2 DEF Draw, Poll, Released, DoneReading, ForgetReplies, Dispatch, StoreHead,
       GpuWrites, TakeRingProgress, TakeVenusBlobWrites, Ends, vars, memVars, progressVars
  <2> QED
    BY <1>1, <2>1 DEF Mirror
<1>3. CASE TakeAppBlobWrites
  <2>1. ppc = "diff" /\ resShadow' = sres /\ UNCHANGED <<s2c, cres>>
    BY <1>3 DEF TakeAppBlobWrites, memVars
  <2>2. app = << >>
    BY <1>1, <2>1 DEF ProgressTypes
  <2>3. /\ \A i \in DOMAIN app' : app'[i].type = "PixelData" => i = 1
        /\ ChangedPixels # {} =>
             /\ 1 \in DOMAIN app' /\ app'[1].type = "PixelData"
             /\ app'[1].changes = [p \in ChangedPixels |-> sres[p]]
        /\ ChangedPixels = {} => \A i \in DOMAIN app' : app'[i].type = "WordData"
    BY <1>1, <1>3, Taken
  <2>4. ASSUME NEW p \in Pixels
        PROVE  IF \E i \in DOMAIN app' : Says(app'[i], p)
               THEN app'[1].changes[p] = sres[p] /\ Says(app'[1], p)
               ELSE Leaves(s2c, p, cres[p], sres[p])
    <3>1. CASE p \in ChangedPixels
      <4>1. /\ 1 \in DOMAIN app' /\ Says(app'[1], p) /\ app'[1].changes[p] = sres[p]
        BY <2>3, <3>1 DEF Says
      <4> QED
        BY <4>1
    <3>2. CASE p \notin ChangedPixels
      <4>1. \A i \in DOMAIN app' : ~ Says(app'[i], p)
        <5>1. CASE ChangedPixels = {}
          BY <2>3, <5>1 DEF Says
        <5>2. CASE ChangedPixels # {}
          <6>1. DOMAIN app'[1].changes = ChangedPixels
            BY <2>3, <5>2
          <6> QED
            BY <2>3, <3>2, <6>1 DEF Says
        <5> QED
          BY <5>1, <5>2
      <4>2. sres[p] = resShadow[p]
        BY <3>2 DEF ChangedPixels
      <4>3. Leaves(s2c, p, cres[p], resShadow[p])
        <5>1. ~ \E i \in DOMAIN app : Says(app[i], p)
          BY <2>2
        <5> QED
          BY <1>1, <5>1 DEF Mirror
      <4> QED
        BY <4>1, <4>2, <4>3
    <3> QED
      BY <3>1, <3>2
  <2> QED
    BY <2>1, <2>4 DEF Mirror
<1>4. ASSUME app' = << >>, UNCHANGED <<cres, resShadow>>,
             \A p \in Pixels : Leaves(s2c', p, cres[p], resShadow[p])
      PROVE  Mirror'
  <2>1. \A p \in Pixels : ~ \E i \in DOMAIN app' : Says(app'[i], p)
    BY <1>4
  <2> QED
    BY <1>4, <2>1 DEF Mirror
<1>5. CASE ShipApp
  <2>1. app' = << >> /\ UNCHANGED <<cres, resShadow>>
    BY <1>5 DEF ShipApp, memVars
  <2>2. ASSUME app = << >>, s2c' = s2c, NEW p \in Pixels
        PROVE  Leaves(s2c', p, cres[p], resShadow[p])
    <3>1. ~ \E i \in DOMAIN app : Says(app[i], p)
      BY <2>2
    <3> QED
      BY <1>1, <2>2, <3>1 DEF Mirror
  <2>3. ASSUME NEW m \in Message, app = << m >>, s2c' = Append(s2c, m), NEW p \in Pixels
        PROVE  Leaves(s2c', p, cres[p], resShadow[p])
    <3>1. 1 \in DOMAIN app /\ app[1] = m /\ \A i \in DOMAIN app : app[i] = m
      BY <2>3
    <3>2. IF Says(m, p) THEN m.changes[p] = resShadow[p]
          ELSE Leaves(s2c, p, cres[p], resShadow[p])
      BY <1>1, <3>1 DEF Mirror
    <3>3. Leaves(s2c', p, cres[p], IF Says(m, p) THEN m.changes[p] ELSE resShadow[p])
      BY <1>1, <2>3, <3>2, LeavesPush
    <3> QED
      BY <3>2, <3>3
  <2>4. ASSUME NEW m \in Message, NEW n \in Message, app = << m, n >>, n.type = "WordData",
               s2c' = Append(Append(s2c, m), n), NEW p \in Pixels
        PROVE  Leaves(s2c', p, cres[p], resShadow[p])
    <3>1. DOMAIN app = {1, 2} /\ app[1] = m /\ app[2] = n /\ ~ Says(n, p)
      BY <2>4 DEF Says
    <3>2. IF Says(m, p) THEN m.changes[p] = resShadow[p]
          ELSE Leaves(s2c, p, cres[p], resShadow[p])
      BY <1>1, <3>1 DEF Mirror
    <3>3. Leaves(Append(s2c, m), p, cres[p], IF Says(m, p) THEN m.changes[p] ELSE resShadow[p])
      BY <1>1, <3>2, LeavesPush
    <3>4. Leaves(Append(s2c, m), p, cres[p], resShadow[p]) /\ Append(s2c, m) \in Seq(Message)
      BY <1>1, <3>2, <3>3, Pushed
    <3>5. Leaves(s2c', p, cres[p], IF Says(n, p) THEN n.changes[p] ELSE resShadow[p])
      BY <2>4, <3>4, LeavesPush
    <3> QED
      BY <3>1, <3>5
  <2>5. \A p \in Pixels : Leaves(s2c', p, cres[p], resShadow[p])
    BY <1>1, <1>5, <2>2, <2>3, <2>4, Shipped
  <2> QED
    BY <1>4, <2>1, <2>5
<1>6. ASSUME app = << >>, NEW m \in Message, m.type # "PixelData", NEW p \in Pixels
      PROVE  Leaves(s2c, p, cres[p], resShadow[p])
             /\ Leaves(Append(s2c, m), p, cres[p], resShadow[p])
  <2>1. ~ (\E i \in DOMAIN app : Says(app[i], p)) /\ ~ Says(m, p)
    BY <1>6 DEF Says
  <2>2. Leaves(s2c, p, cres[p], resShadow[p])
    BY <1>1, <2>1 DEF Mirror
  <2>3. Leaves(Append(s2c, m), p, cres[p], IF Says(m, p) THEN m.changes[p] ELSE resShadow[p])
    BY <1>1, <2>2, LeavesPush
  <2> QED
    BY <2>1, <2>2, <2>3
<1>7. CASE ShipVenus
  <2>1. app' = app /\ ppc = "ship" /\ UNCHANGED <<cres, resShadow>>
    BY <1>7 DEF ShipVenus, memVars
  <2>2. app = << >>
    BY <1>1, <2>1 DEF ProgressTypes
  <2>3. ASSUME NEW a \in Seq(BOOLEAN), ReplyData(a) \in Message, NEW p \in Pixels
        PROVE  Leaves(Append(s2c, ReplyData(a)), p, cres[p], resShadow[p])
    <3>1. ReplyData(a).type # "PixelData"
      BY MadeMessages
    <3> QED
      BY <1>6, <2>2, <2>3, <3>1
  <2>4. ASSUME NEW p \in Pixels PROVE Leaves(s2c, p, cres[p], resShadow[p])
    <3>1. ~ \E i \in DOMAIN app : Says(app[i], p)
      BY <2>2
    <3> QED
      BY <1>1, <3>1 DEF Mirror
  <2>5. \A p \in Pixels : Leaves(s2c', p, cres[p], resShadow[p])
    BY <1>1, <1>7, <2>3, <2>4, ShippedAnswers
  <2> QED
    BY <1>4, <2>1, <2>2, <2>5
<1>8. CASE ShipProgress
  <2>1. /\ app' = app /\ ppc = "shipProgress" /\ UNCHANGED <<cres, resShadow>>
        /\ s2c' = Append(s2c, RingProgress(reported))
    BY <1>8 DEF ShipProgress, memVars
  <2>2. app = << >>
    BY <1>1, <2>1 DEF ProgressTypes
  <2>3. RingProgress(reported) \in Message /\ RingProgress(reported).type # "PixelData"
    BY <1>1, MadeMessages DEF ProgressTypes
  <2>4. \A p \in Pixels : Leaves(s2c', p, cres[p], resShadow[p])
    BY <1>6, <2>1, <2>2, <2>3
  <2> QED
    BY <1>4, <2>1, <2>2, <2>4
<1>9. CASE Receive
  <2> DEFINE m == Head(s2c)
  <2>1. /\ m \in Message /\ s2c # << >> /\ s2c' = Tail(s2c)
        /\ \A p \in Pixels : cres'[p] = IF Says(m, p) THEN m.changes[p] ELSE cres[p]
        /\ UNCHANGED <<app, resShadow>>
    BY <1>1, <1>9, Received DEF progressVars
  <2>2. ASSUME NEW p \in Pixels, Leaves(s2c, p, cres[p], resShadow[p])
        PROVE  Leaves(s2c', p, cres'[p], resShadow[p])
    <3>1. Leaves(Tail(s2c), p, IF Says(m, p) THEN m.changes[p] ELSE cres[p], resShadow[p])
      BY <1>1, <2>1, <2>2, LeavesPop
    <3> QED
      BY <2>1, <3>1
  <2>3. ASSUME NEW p \in Pixels
        PROVE  IF \E i \in DOMAIN app : Says(app[i], p)
               THEN app[1].changes[p] = resShadow[p] /\ Says(app[1], p)
               ELSE Leaves(s2c', p, cres'[p], resShadow[p])
    BY <1>1, <2>2 DEF Mirror
  <2> QED
    BY <2>1, <2>3 DEF Mirror
<1> QED
  BY <1>2, <1>3, <1>5, <1>7, <1>8, <1>9 DEF Steps, Next

-----------------------------------------------------------------------------
(* The yes, and the live frame.                                            *)

\* Every step keeps the yes a true one, and the shadow fresh after it.
LEMMA FreshNext ==
    ASSUME IInv, [Steps]_vars
    PROVE  Fresh'
<1>1. EngineTypes /\ ProgressTypes /\ Heads /\ Commands /\ Frames /\ Replies /\ Fresh
  BY DEF IInv
<1>2. /\ Len(stream) \in Nat /\ ran \in Nat /\ ran <= Len(stream) /\ Len(replies) \in Nat
      /\ stream \in Seq({"submit", "poll"}) /\ replies \in Seq(BOOLEAN)
      /\ reported \in Nat /\ shead \in Nat /\ reported <= shead /\ forgotten \in Nat
  BY <1>1 DEF EngineTypes, ProgressTypes, Heads
<1>3. CASE Draw
  <2>1. phase' = "poll"
    BY <1>3 DEF Draw
  <2> QED
    BY <2>1 DEF Fresh, SaysYes
<1>4. CASE Poll
  <2>1. phase' = "wait" /\ stream' = Append(stream, "poll") /\ ran' = ran
    BY <1>4 DEF Poll, ringVars
  <2>2. Len(stream') = Len(stream) + 1
    BY <1>2, <2>1
  <2>3. ~ Answered'
    BY <1>2, <2>1, <2>2 DEF Answered
  <2> QED
    BY <2>1, <2>3 DEF Fresh, SaysYes
<1>5. CASE Released
  <2>1. phase' \in {"poll", "read"} /\ UNCHANGED <<resShadow, sres>>
    BY <1>5 DEF Released, progressVars, gpuVars
  <2>2. phase' = "read" => resShadow = sres
    BY <1>5, YesIsTrue
  <2> QED
    BY <2>1, <2>2 DEF Fresh, SaysYes
<1>6. CASE DoneReading
  <2>1. phase = "read" /\ phase' = "draw" /\ UNCHANGED <<resShadow, sres>>
    BY <1>6 DEF DoneReading, progressVars, gpuVars
  <2> QED
    BY <1>1, <2>1 DEF Fresh, SaysYes
<1>7. CASE Dispatch
  <2>1. /\ ran = shead /\ ran < Len(stream) /\ ran' = ran + 1 /\ ran + 1 \in DOMAIN stream
        /\ \/ stream[ran + 1] = "submit" /\ todo' = Pixels /\ replies' = replies
           \/ /\ stream[ran + 1] = "poll"
              /\ todo' = todo /\ replies' = Append(replies, todo = {})
        /\ UNCHANGED <<phase, stream, sres, resShadow, reported, ppc>>
    BY <1>1, <1>7, Dispatched DEF appVars, progressVars
  <2>2. \/ phase = "poll" /\ ran + 1 = Len(stream) /\ stream[Len(stream)] = "submit"
        \/ phase = "wait" /\ ran + 1 = Len(stream) /\ stream[Len(stream)] = "poll"
        \/ /\ phase = "wait" /\ ran + 2 = Len(stream) /\ stream[Len(stream)] = "poll"
           /\ stream[ran + 1] = "submit"
    BY <1>1, <2>1, Unstarted
  <2>3. reported' # ran'
    BY <1>2, <2>1
  <2>4. phase' \notin {"draw", "read"}
    BY <2>1, <2>2
  <2>5. ASSUME SaysYes' PROVE todo' = {} /\ Begun'
    <3>1. phase = "wait" /\ ran' = Len(stream) /\ replies'[Len(replies')]
      BY <2>1, <2>5 DEF SaysYes, Answered
    <3>2. ran + 1 = Len(stream) /\ stream[ran + 1] = "poll"
      BY <1>2, <2>1, <2>2, <3>1
    <3>3. todo' = todo /\ replies' = Append(replies, todo = {})
      BY <2>1, <3>2
    <3>4. ASSUME NEW answer \in BOOLEAN, replies' = Append(replies, answer)
          PROVE  replies'[Len(replies')] = answer
      BY <1>2, <3>4, Pushed
    <3>5. replies'[Len(replies')] = (todo = {})
      <4>1. (todo = {}) \in BOOLEAN
        OBVIOUS
      <4> QED
        BY <3>3, <3>4, <4>1, Zenon
    <3>6. todo = {}
      BY <3>1, <3>5, Zenon
    <3>7. \A i \in ran' + 1 .. Len(stream') : FALSE
      BY <1>2, <2>1, <3>1
    <3> QED
      BY <3>3, <3>6, <3>7 DEF Begun
  <2> QED
    BY <2>3, <2>4, <2>5 DEF Fresh
<1>8. CASE GpuWrites
  <2>1. todo # {} /\ UNCHANGED <<phase, stream, ran, replies>>
    BY <1>8 DEF GpuWrites, appVars, ringVars
  <2>2. ~ SaysYes /\ phase \notin {"draw", "read"}
    BY <1>1, <2>1 DEF Fresh, Frames
  <2>3. ~ SaysYes'
    BY <2>1, <2>2 DEF SaysYes, Answered
  <2> QED
    BY <2>1, <2>2, <2>3 DEF Fresh
<1>9. ASSUME UNCHANGED <<phase, stream, ran, replies, todo, sres>>
      PROVE  SaysYes' = SaysYes /\ Begun' = Begun /\ (SaysYes' => todo' = {} /\ Begun')
  <2>1. SaysYes' = SaysYes /\ Begun' = Begun
    BY <1>9 DEF SaysYes, Answered, Begun
  <2> QED
    BY <1>1, <1>9, <2>1 DEF Fresh
<1>10. CASE TakeRingProgress
  <2>1. /\ ppc' = "scan"
        /\ UNCHANGED <<phase, stream, ran, replies, todo, sres, resShadow>>
    BY <1>10 DEF TakeRingProgress, appVars, ringVars, gpuVars
  <2> QED
    BY <1>1, <1>9, <2>1 DEF Fresh
<1>11. CASE TakeVenusBlobWrites
  <2>1. /\ signaled' = FenceSignaled /\ ppc' = IF signaled' THEN "diff" ELSE "ship"
        /\ UNCHANGED <<phase, stream, ran, replies, todo, sres, resShadow, reported>>
    BY <1>11 DEF TakeVenusBlobWrites, appVars, ringVars, gpuVars
  <2>2. ASSUME SaysYes PROVE ppc' = "diff"
    <3>1. Polls = Len(replies) /\ forgotten < Polls /\ replies[Len(replies)]
      BY <1>1, <1>2, <2>2 DEF SaysYes, Replies
    <3>2. Len(replies) \in forgotten + 1 .. Len(replies)
      BY <1>2, <3>1
    <3>3. FenceSignaled
      BY <3>1, <3>2 DEF FenceSignaled
    <3> QED
      BY <2>1, <3>3
  <2> QED
    BY <1>1, <1>9, <2>1, <2>2 DEF Fresh
<1>12. CASE TakeAppBlobWrites
  <2>1. resShadow' = sres /\ UNCHANGED <<phase, stream, ran, replies, todo, sres>>
    BY <1>12 DEF TakeAppBlobWrites, appVars, ringVars, gpuVars
  <2> QED
    BY <1>9, <2>1 DEF Fresh
<1>13. CASE ShipApp \/ ShipVenus \/ ShipProgress \/ Ends \/ ForgetReplies \/ StoreHead
            \/ Receive \/ UNCHANGED vars
  <2>1. /\ UNCHANGED <<phase, stream, ran, replies, todo, sres, resShadow, reported>>
        /\ UNCHANGED ppc \/ ppc \notin {"scan", "diff"}
    BY <1>13 DEF ShipApp, ShipVenus, ShipProgress, Ends, ForgetReplies, StoreHead, Receive,
       vars, appVars, ringVars, gpuVars, progressVars
  <2> QED
    BY <1>1, <1>9, <2>1 DEF Fresh
<1> QED
  BY <1>3, <1>4, <1>5, <1>6, <1>7, <1>8, <1>10, <1>11, <1>12, <1>13 DEF Steps, Next

\* Every step keeps the live frame the shadow's, with one blob only.
LEMMA TeedNext ==
    ASSUME IInv, [Steps]_vars
    PROVE  Teed'
<1> SUFFICES ASSUME ~ Word PROVE word' = 0 /\ wordShadow' = 0 /\ live' = resShadow'
  BY DEF Teed
<1>1. /\ word = 0 /\ wordShadow = 0 /\ live = resShadow
      /\ resShadow \in [Pixels -> 0 .. MaxFrame] /\ sres \in [Pixels -> 0 .. MaxFrame]
  BY DEF IInv, Teed, EngineTypes, ProgressTypes
<1>2. CASE GpuWrites
  BY <1>1, <1>2 DEF GpuWrites, progressVars
<1>3. CASE TakeAppBlobWrites
  <2>1. live' = Folded /\ resShadow' = sres /\ wordShadow' = word /\ word' = word
    BY <1>3 DEF TakeAppBlobWrites, gpuVars
  <2>2. \A p \in Pixels :
          (IF p = 0 /\ word # wordShadow THEN - word
           ELSE IF p \in ChangedPixels THEN sres[p] ELSE live[p]) = sres[p]
    BY <1>1 DEF ChangedPixels
  <2>3. Folded = [p \in Pixels |-> sres[p]]
    BY <2>2 DEF Folded
  <2> QED
    BY <1>1, <2>1, <2>3
<1>4. CASE Draw \/ Poll \/ Released \/ DoneReading \/ ForgetReplies \/ Dispatch \/ StoreHead
           \/ TakeRingProgress \/ TakeVenusBlobWrites \/ ShipApp \/ ShipVenus \/ ShipProgress
           \/ Ends \/ Receive \/ UNCHANGED vars
  <2>1. UNCHANGED <<word, wordShadow, live, resShadow>>
    BY <1>4 DEF Draw, Poll, Released, DoneReading, ForgetReplies, Dispatch, StoreHead,
       TakeRingProgress, TakeVenusBlobWrites, ShipApp, ShipVenus, ShipProgress, Ends, Receive,
       vars, gpuVars, progressVars
  <2> QED
    BY <1>1, <2>1
<1> QED
  BY <1>2, <1>3, <1>4 DEF Steps, Next

-----------------------------------------------------------------------------
(* The theorems.                                                           *)

\* The initial states satisfy the inductive invariant.
LEMMA InitIInv == ASSUME Init PROVE IInv
<1>1. Len(stream) = 0 /\ DOMAIN stream = {} /\ stream \in Seq({"submit", "poll"})
  BY DEF Init
<1>2. Blank \in [Pixels -> 0 .. MaxFrame] /\ Blank \in [Pixels -> - MaxFrame .. MaxFrame]
  BY ReadbackAssumption DEF Blank
<1>3. EngineTypes
  BY <1>2, ReadbackAssumption DEF Init, EngineTypes
<1>4. ProgressTypes
  BY <1>2 DEF Init, ProgressTypes
<1>5. Heads
  BY DEF Init, Heads, Increasing
<1>6. Commands
  BY DEF Init, Commands
<1>7. Begun /\ Answered
  BY DEF Init, Begun, Answered
<1>8. Frames
  BY <1>7, ReadbackAssumption DEF Init, Frames, Blank
<1>9. Replies
  <2>1. {i \in DOMAIN stream : stream[i] = "poll"} = {}
    BY <1>1
  <2>2. Polls = 0
    BY <2>1, FS_EmptySet DEF Polls
  <2> QED
    BY <1>7, <2>2 DEF Init, Replies
<1>10. Answers
  <2>1. InHand = 0
    BY DEF Init, InHand
  <2>2. Joined(<< >>, 0, 0, replies)
    BY JoinedNone
  <2>3. s2c = << >> /\ Len(creplies) = 0 /\ toldReplies - InHand = 0 /\ venus = << >>
        /\ DOMAIN creplies = {}
    BY <2>1 DEF Init
  <2> QED
    BY <2>2, <2>3 DEF Answers
<1>11. Mirror
  <2>1. \A p \in Pixels : Leaves(<< >>, p, cres[p], resShadow[p])
    BY LeavesNone DEF Init
  <2>2. s2c = << >> /\ DOMAIN app = {}
    BY DEF Init
  <2> QED
    BY <2>1, <2>2 DEF Mirror
<1>12. Fresh
  BY DEF Init, Fresh, SaysYes
<1>13. Teed
  BY DEF Init, Teed
<1> QED
  BY <1>3, <1>4, <1>5, <1>6, <1>8, <1>9, <1>10, <1>11, <1>12, <1>13 DEF IInv

\* Every step keeps the inductive invariant.
LEMMA NextIInv == ASSUME IInv, [Steps]_vars PROVE IInv'
  BY EngineTypesNext, ProgressTypesNext, HeadsNext, CommandsNext, FramesNext, RepliesNext,
     AnswersNext, MirrorNext, FreshNext, TeedNext DEF IInv

\* What the inductive invariant says of the types and the counters.
LEMMA IInvTypes == ASSUME IInv PROVE TypeOK
<1>1. EngineTypes /\ ProgressTypes /\ Heads /\ Frames /\ Replies /\ Teed
  BY DEF IInv
<1>2. word \in 0 .. MaxFrame
  BY <1>1, WordBound
<1>3. wordShadow \in 0 .. MaxFrame
  <2>1. wordShadow \in Nat /\ wordShadow <= word
    BY <1>1 DEF ProgressTypes
  <2> QED
    BY <1>2, <2>1, ReadbackAssumption
<1>4. {cres, sres, resShadow} \subseteq [Pixels -> 0 .. MaxFrame]
  BY <1>1 DEF EngineTypes, ProgressTypes
<1>5. Len(replies) <= Polls
  BY <1>1 DEF Replies, EngineTypes
<1>6. phase = "wait" /\ chead = Len(stream) => Len(creplies) = Polls
  BY Settled
<1> QED
  BY <1>1, <1>2, <1>3, <1>4, <1>5, <1>6 DEF TypeOK, EngineTypes, ProgressTypes, Heads, Replies

\* What it says of a frame that the application reads.
LEMMA IInvReads ==
    ASSUME IInv, phase = "read"
    PROVE  cres = resShadow /\ \A p \in Pixels : cres[p] = frame
<1>1. EngineTypes /\ ProgressTypes /\ Commands /\ Frames /\ Fresh
  BY DEF IInv
<1>2. chead = Len(stream)
  BY <1>1 DEF Commands
<1>3. Begun /\ \A p \in Pixels : cres[p] = resShadow[p]
  BY <1>2, Settled
<1>4. resShadow = sres /\ todo = {}
  BY <1>1 DEF Fresh, Frames
<1>5. \A p \in Pixels : sres[p] = frame
  <2>1. \A p \in Pixels : sres[p] \in Nat
    BY <1>1 DEF EngineTypes
  <2> QED
    BY <1>1, <1>3, <1>4, <2>1 DEF Frames
<1>6. cres = resShadow
  <2>1. cres \in [Pixels -> 0 .. MaxFrame] /\ resShadow \in [Pixels -> 0 .. MaxFrame]
    BY <1>1 DEF EngineTypes, ProgressTypes
  <2> QED
    BY <1>3, <2>1
<1> QED
  BY <1>3, <1>4, <1>5, <1>6

\* The conjuncts of IInv hold in every reachable state, whatever the window does.
THEOREM Inductive == WindowSpec => []IInv
<1>1. WindowInit => IInv
  BY InitIInv DEF WindowInit
<1>2. IInv /\ [WindowNext]_allVars => IInv'
  BY NextIInv, WindowSteps
<1> QED
  BY <1>1, <1>2, PTL DEF WindowSpec

\* The variables have their types; no answer reaches C twice, and the one the
\* application was released for is there.
THEOREM TypeCorrect == WindowSpec => []TypeOK
<1>1. IInv => TypeOK
  BY IInvTypes
<1> QED
  BY <1>1, Inductive, PTL

\* Whatever stale answer made the progress thread diff, and however its diffs
\* caught the copy half done, a frame that the application reads is whole and new.
THEOREM ReadsAreWhole == WindowSpec => []ReadIsWhole
<1>1. IInv => ReadIsWhole
  BY IInvReads DEF ReadIsWhole
<1> QED
  BY <1>1, Inductive, PTL

\* With no second blob to be folded in, the window's frame is then the same.
THEOREM WindowShowsIt == ASSUME ~ Word PROVE WindowSpec => []WindowAgrees
<1>1. IInv => WindowAgrees
  BY IInvReads DEF WindowAgrees, IInv, Teed
<1> QED
  BY <1>1, Inductive, PTL

=============================================================================
