-------------------------- MODULE StallClockProofs --------------------------
(***************************************************************************)
(* Proofs about StallClock, for every width of a cursor (2^32 among them), *)
(* every ring that is at most half of it, every limit and every history.   *)
(*                                                                         *)
(*   ClockTypes         Spec => []TypeOK                                   *)
(*   AssertsNeverFail   Spec => []AssertsHold                              *)
(*   WrapIsHarmless     Spec => []ComparisonsSurviveTheWrap                *)
(*   StallsAreReal      Spec => StallIsReal                                *)
(*                                                                         *)
(* The code only ever sees words.  The proof puts a number under each of   *)
(* them, those of `count` and, for the two words no ghost counts (the head *)
(* and the acknowledgement in hand), numbers that exist: they lie within   *)
(* one ring of each other, and within half a width a wrapping difference   *)
(* is the difference of the numbers.                                       *)
(***************************************************************************)
EXTENDS StallClock, TLAPS

-----------------------------------------------------------------------------
(* Remainders: what the proofs need to know of cursors that are kept       *)
(* modulo a width (`wrapping_sub`).  The provers know that                 *)
(* x = n * (x \div n) + x % n and little more.                             *)

\* Less than one multiple is no multiple.
LEMMA SmallMultiple ==
    ASSUME NEW n \in Nat \ {0}, NEW k \in Int, NEW d \in Int,
           d = n * k, d < n, 0 - n < d
    PROVE  k = 0 /\ d = 0
<1>1. ASSUME k >= 1 PROVE FALSE
  <2>1. n * k >= n
    BY <1>1
  <2>2. QED
    BY <2>1
<1>2. ASSUME k <= -1 PROVE FALSE
  <2>1. n * k <= 0 - n
    BY <1>2
  <2>2. QED
    BY <2>1
<1>3. k = 0
  BY <1>1, <1>2
<1> QED
  BY <1>3

\* A number is so many laps and a remainder.
LEMMA Laps ==
    ASSUME NEW n \in Nat \ {0}, NEW x \in Int
    PROVE  /\ x % n \in 0 .. n - 1
           /\ \E a \in Int : n * a \in Int /\ x = (n * a) + (x % n)
<1>1. /\ x \div n \in Int /\ x % n \in 0 .. n - 1
      /\ x = (n * (x \div n)) + (x % n)
  OBVIOUS
<1>2. n * (x \div n) \in Int
  BY <1>1
<1> QED
  BY <1>1, <1>2

\* Whole laps do not change the remainder.
LEMMA WholeLaps ==
    ASSUME NEW n \in Nat \ {0}, NEW x \in Int, NEW y \in Int, NEW k \in Int,
           y = x + (n * k)
    PROVE  y % n = x % n
<1> DEFINE r == x % n
           s == y % n
           d == s - r
<1>1. PICK a \in Int : n * a \in Int /\ x = (n * a) + r
  BY Laps
<1>2. PICK b \in Int : n * b \in Int /\ y = (n * b) + s
  BY Laps
<1>3. r \in 0 .. n - 1 /\ s \in 0 .. n - 1
  BY Laps
<1> HIDE DEF r, s
<1>4. d = n * ((a + k) - b)
  <2>1. n * ((a + k) - b) = ((n * a) + (n * k)) - (n * b) /\ n * k \in Int
    OBVIOUS
  <2> DEFINE u == n * a
             v == n * b
             w == n * k
  <2>2. /\ u \in Int /\ v \in Int /\ w \in Int
        /\ x = u + r /\ y = v + s /\ y = x + w
    BY <1>1, <1>2, <2>1
  <2> HIDE DEF u, v, w
  <2>3. d = (u + w) - v
    BY <1>3, <2>2
  <2>4. QED
    BY <2>1, <2>3 DEF u, v, w
<1>5. d = 0
  <2>1. (a + k) - b \in Int /\ d \in Int /\ d < n /\ 0 - n < d
    BY <1>3
  <2> HIDE DEF d
  <2>2. QED
    BY <1>4, <2>1, SmallMultiple
<1>6. s = r
  BY <1>3, <1>5
<1> QED
  BY <1>6 DEF r, s

\* A small number is its own remainder.
LEMMA SmallRemainder ==
    ASSUME NEW n \in Nat \ {0}, NEW d \in 0 .. n - 1
    PROVE  d % n = d
<1> DEFINE r == d % n
<1>0. d \in Int
  OBVIOUS
<1>1. PICK a \in Int : n * a \in Int /\ d = (n * a) + r
  BY <1>0, Laps
<1>2. r \in 0 .. n - 1
  BY <1>0, Laps
<1> HIDE DEF r
<1> DEFINE e == d - r
<1>3. e = n * a
  <2> DEFINE u == n * a
  <2>1. u \in Int /\ d = u + r
    BY <1>1
  <2> HIDE DEF u
  <2>2. e = u
    BY <1>2, <2>1
  <2>3. QED
    BY <2>2 DEF u
<1>4. e \in Int /\ e < n /\ 0 - n < e
  BY <1>2
<1>5. e = 0
  <2> HIDE DEF e
  <2> QED
    BY <1>3, <1>4, SmallMultiple
<1>6. d = r
  BY <1>2, <1>5
<1> QED
  BY <1>6 DEF r

\* Taking a remainder before a subtraction is as good as after it.
LEMMA RemainderLeft ==
    ASSUME NEW n \in Nat \ {0}, NEW x \in Int, NEW y \in Int
    PROVE  ((x % n) - y) % n = (x - y) % n
<1> DEFINE r == x % n
<1>1. PICK a \in Int : n * a \in Int /\ x = (n * a) + r
  BY Laps
<1>2. r \in Int
  BY Laps
<1> HIDE DEF r
<1>3. x - y = (r - y) + (n * a)
  <2> DEFINE u == n * a
  <2>1. u \in Int /\ x = u + r
    BY <1>1
  <2> HIDE DEF u
  <2>2. x - y = (r - y) + u
    BY <1>2, <2>1
  <2>3. QED
    BY <2>2 DEF u
<1>4. (x - y) % n = (r - y) % n
  <2>1. r - y \in Int /\ x - y \in Int
    BY <1>2
  <2>2. QED
    BY <1>3, <2>1, WholeLaps
<1> QED
  BY <1>4 DEF r

\* The same on the other side.
LEMMA RemainderRight ==
    ASSUME NEW n \in Nat \ {0}, NEW x \in Int, NEW y \in Int
    PROVE  (x - (y % n)) % n = (x - y) % n
<1> DEFINE r == y % n
<1>1. PICK a \in Int : n * a \in Int /\ y = (n * a) + r
  BY Laps
<1>2. r \in Int
  BY Laps
<1> HIDE DEF r
<1>3. x - r = (x - y) + (n * a)
  <2> DEFINE u == n * a
  <2>1. u \in Int /\ y = u + r
    BY <1>1
  <2> HIDE DEF u
  <2>2. x - r = (x - y) + u
    BY <1>2, <2>1
  <2>3. QED
    BY <2>2 DEF u
<1>4. (x - r) % n = (x - y) % n
  <2>1. x - r \in Int /\ x - y \in Int
    BY <1>2
  <2>2. QED
    BY <1>3, <2>1, WholeLaps
<1> QED
  BY <1>4 DEF r

\* The wrapping difference of two wrapped numbers is that of the numbers.
LEMMA WrappingDifference ==
    ASSUME NEW n \in Nat \ {0}, NEW x \in Int, NEW y \in Int
    PROVE  ((x % n) - (y % n)) % n = (x - y) % n
<1>1. x % n \in Int /\ y % n \in Int
  BY Laps
<1>2. ((x % n) - (y % n)) % n = (x - (y % n)) % n
  BY <1>1, RemainderLeft
<1> QED
  BY <1>2, RemainderRight

\* Two numbers less than a lap apart have different remainders.
LEMMA RemaindersApart ==
    ASSUME NEW n \in Nat \ {0}, NEW x \in Int, NEW y \in Int,
           x < y, y < x + n
    PROVE  x % n # y % n
<1> SUFFICES ASSUME x % n = y % n PROVE FALSE
  OBVIOUS
<1>1. ((y % n) - (x % n)) % n = (y - x) % n
  BY WrappingDifference
<1>2. (y % n) - (x % n) = 0 /\ 0 \in 0 .. n - 1 /\ y - x \in 0 .. n - 1
  <2>1. x % n \in Int
    BY Laps
  <2>2. QED
    BY <2>1
<1>3. 0 % n = 0 /\ (y - x) % n = y - x
  BY <1>2, SmallRemainder
<1>4. y - x = 0
  BY <1>1, <1>2, <1>3
<1> QED
  BY <1>4

-----------------------------------------------------------------------------
(* The clock's numbers.                                                    *)

Counts == [tail : Nat, drained : Nat, relayed : Nat, shipped : Nat, consumed : Nat]

\* The words are the numbers, wrapped.
Wrapped ==
    /\ tail = count.tail % Width /\ lastTail = count.drained % Width
    /\ relayed = count.relayed % Width /\ shipped = count.shipped % Width
    /\ consumed = count.consumed % Width

\* The numbers under all the words, in order, with h and a under head and ack:
\* the application is at most one ring ahead of the head.
Ordered(h, a) ==
    /\ head = h % Width /\ ack = a % Width
    /\ h <= a /\ a <= count.consumed /\ a <= count.shipped
    /\ count.consumed <= count.relayed /\ count.shipped <= count.relayed
    /\ count.relayed <= count.drained /\ count.drained <= count.tail
    /\ count.tail <= h + BufSize

\* What is drained is relayed and then shipped before the watcher goes on.
Phases ==
    /\ wpc \in {"take", "relay", "ship", "check", "publish", "gone"}
    /\ wpc # "relay" => count.relayed = count.drained
    /\ wpc # "ship" => count.shipped = count.relayed

\* The clock runs while something is outstanding, and S has been silent at
\* least as long as the clock says.
Clock ==
    /\ since \in Age \cup {None} /\ silence \in Age
    /\ since = None <=> count.relayed = count.consumed
    /\ since # None => since <= silence

IInv ==
    /\ count \in Counts
    /\ Wrapped
    /\ \E h, a \in Nat : Ordered(h, a)
    /\ Phases
    /\ Clock

-----------------------------------------------------------------------------
\* The width is a number, and a ring at most half of it.
LEMMA Widths ==
    /\ Width \in Nat \ {0} /\ BufSize \in Nat \ {0} /\ BufSize < Width
    /\ Width \div 2 \in Nat /\ Width = 2 * (Width \div 2)
    /\ BufSize <= Width \div 2 /\ 0 < Width \div 2
    /\ Limit \in Nat
<1>1. Width \in Nat /\ BufSize \in Nat \ {0} /\ 2 * BufSize <= Width /\ Width % 2 = 0
  BY ClockAssumption
<1>2. Width = 2 * (Width \div 2) /\ Width \div 2 \in Int
  BY <1>1
<1> QED
  BY <1>1, <1>2, ClockAssumption

\* Within a width, the wrapping difference of two words is the difference of
\* the numbers under them.
LEMMA DiffIs ==
    ASSUME NEW x \in Int, NEW y \in Int, x - y \in 0 .. Width - 1
    PROVE  Diff(x % Width, y % Width) = x - y
<1>1. Width \in Nat \ {0}
  BY Widths
<1>2. ((x % Width) - (y % Width)) % Width = (x - y) % Width
  BY <1>1, WrappingDifference, Zenon
<1>3. (x - y) % Width = x - y
  BY <1>1, SmallRemainder, Zenon
<1> QED
  BY <1>2, <1>3 DEF Diff

\* Numbers within a ring of each other are equal if their words are.
LEMMA SameWord ==
    ASSUME NEW x \in Nat, NEW y \in Nat, y <= x, x <= y + BufSize
    PROVE  x % Width = y % Width <=> x = y
<1>1. Width \in Nat \ {0} /\ BufSize < Width /\ x \in Int /\ y \in Int
  BY Widths
<1>2. ASSUME x # y PROVE y % Width # x % Width
  <2>1. y < x /\ x < y + Width
    BY <1>1, <1>2, Widths
  <2>2. QED
    BY <1>1, <2>1, RemaindersApart, Zenon
<1> QED
  BY <1>2

\* Words are words.
LEMMA WordOf ==
    ASSUME NEW x \in Int
    PROVE  x % Width \in Word
<1>1. Width \in Nat \ {0}
  BY Widths
<1> QED
  BY <1>1, Laps, Zenon DEF Word

\* Counting on from a number by the difference to a word reaches that word.
LEMMA CountOn ==
    ASSUME NEW x \in Int, NEW t \in Word
    PROVE  (x + Diff(t, x % Width)) % Width = t /\ Diff(t, x % Width) \in 0 .. Width - 1
<1>1. Width \in Nat \ {0} /\ t \in Int /\ t \in 0 .. Width - 1
  BY Widths DEF Word
<1>2. x % Width \in Int /\ x % Width \in 0 .. Width - 1
  BY <1>1, Laps
<1> DEFINE d == Diff(t, x % Width)
<1>3. d \in 0 .. Width - 1 /\ d \in Int
  <2>1. t - (x % Width) \in Int
    BY <1>1, <1>2
  <2>2. (t - (x % Width)) % Width \in 0 .. Width - 1
    BY <1>1, <2>1, Laps, Zenon
  <2>3. QED
    BY <1>1, <2>2 DEF Diff
<1>4. d = (t - x) % Width
  BY <1>1, RemainderRight, Zenon DEF Diff
<1> HIDE DEF d
<1>5. ((x + d) - x) % Width = d % Width /\ d % Width = d
  <2>1. (x + d) - x = d
    BY <1>3
  <2>2. d % Width = d
    BY <1>1, <1>3, SmallRemainder, Zenon
  <2>3. QED
    BY <2>1, <2>2
<1>6. (x + d) % Width = t
  \* both are x more than something with remainder d
  <2>1. PICK k \in Int : Width * k \in Int /\ t - x = (Width * k) + d
    <3>1. t - x \in Int
      BY <1>1
    <3>2. QED
      BY <1>1, <1>4, <3>1, Laps
  <2>2. t = (x + d) + (Width * k)
    <3> DEFINE u == Width * k
    <3>1. u \in Int /\ t - x = u + d
      BY <2>1
    <3> HIDE DEF u
    <3>2. t = (x + d) + u
      BY <1>1, <1>3, <3>1
    <3>3. QED
      BY <3>2 DEF u
  <2>3. x + d \in Int
    BY <1>3
  <2>4. t % Width = (x + d) % Width
    BY <1>1, <2>2, <2>3, WholeLaps, Zenon
  <2>5. t % Width = t
    BY <1>1, SmallRemainder, Zenon
  <2>6. QED
    BY <2>4, <2>5
<1> QED
  BY <1>3, <1>6 DEF d

-----------------------------------------------------------------------------
\* The acknowledgements that count are those of something relayed and not
\* acknowledged yet.
LEMMA AdvancesIs ==
    ASSUME IInv, NEW t \in Word
    PROVE  /\ Diff(relayed, consumed) = count.relayed - count.consumed
           /\ Advances(t) =>
                /\ count.consumed + Diff(t, consumed) \in count.consumed + 1 .. count.relayed
                /\ (count.consumed + Diff(t, consumed)) % Width = t
           /\ \A n \in count.consumed + 1 .. count.relayed : t = n % Width => Advances(t)
<1>1. PICK h \in Nat, a \in Nat : Ordered(h, a)
  BY DEF IInv
<1> DEFINE C == count.consumed
           R == count.relayed
<1>2. /\ C \in Nat /\ R \in Nat /\ C <= R /\ R <= C + BufSize
      /\ consumed = C % Width /\ relayed = R % Width
  BY <1>1, Widths DEF IInv, Counts, Ordered, Wrapped
<1> HIDE DEF C, R
<1>3. Diff(relayed, consumed) = R - C
  <2>1. R - C \in 0 .. Width - 1
    BY <1>2, Widths
  <2>2. QED
    BY <1>2, <2>1, DiffIs
<1>4. /\ (C + Diff(t, consumed)) % Width = t
      /\ Diff(t, consumed) \in 0 .. Width - 1
  <2>1. C \in Int
    BY <1>2
  <2>2. QED
    BY <1>2, <2>1, CountOn
<1>5. ASSUME Advances(t)
      PROVE  C + Diff(t, consumed) \in C + 1 .. R
  BY <1>2, <1>3, <1>4, <1>5, Widths DEF Advances
<1>6. ASSUME NEW n \in C + 1 .. R, t = n % Width
      PROVE  Advances(t)
  <2>1. n \in Int /\ C \in Int /\ n - C \in 1 .. R - C /\ n - C \in 0 .. Width - 1
    BY <1>2, Widths
  <2>2. Diff(t, consumed) = n - C
    BY <1>2, <1>6, <2>1, DiffIs
  <2>3. QED
    BY <1>3, <2>1, <2>2 DEF Advances
<1> QED
  BY <1>3, <1>4, <1>5, <1>6 DEF C, R

\* Nothing is outstanding in the words when nothing is in the numbers.
LEMMA Outstanding ==
    ASSUME IInv
    PROVE  /\ relayed = consumed <=> count.relayed = count.consumed
           /\ lastTail = consumed <=> count.drained = count.consumed
           /\ tail = lastTail <=> count.tail = count.drained
<1>1. PICK h \in Nat, a \in Nat : Ordered(h, a)
  BY DEF IInv
<1>2. /\ count.consumed \in Nat /\ count.relayed \in Nat /\ count.drained \in Nat
      /\ count.tail \in Nat
      /\ count.consumed <= count.relayed /\ count.consumed <= count.drained
      /\ count.drained <= count.tail
      /\ count.relayed <= count.consumed + BufSize
      /\ count.drained <= count.consumed + BufSize
      /\ count.tail <= count.drained + BufSize
  BY <1>1, Widths DEF IInv, Counts, Ordered
<1>3. count.relayed % Width = count.consumed % Width <=> count.relayed = count.consumed
  BY <1>2, SameWord
<1>4. count.drained % Width = count.consumed % Width <=> count.drained = count.consumed
  BY <1>2, SameWord
<1>5. count.tail % Width = count.drained % Width <=> count.tail = count.drained
  BY <1>2, SameWord
<1> QED
  BY <1>3, <1>4, <1>5 DEF IInv, Wrapped

-----------------------------------------------------------------------------
\* Nothing has happened in the initial state.
LEMMA InvInit == Init => IInv
<1> SUFFICES ASSUME Init PROVE IInv
  OBVIOUS
<1>1. 0 % Width = 0 /\ BufSize \in Nat /\ Limit \in Nat
  <2>1. Width \in Nat \ {0} /\ 0 \in 0 .. Width - 1 /\ BufSize \in Nat /\ Limit \in Nat
    BY Widths
  <2>2. QED
    BY <2>1, SmallRemainder, Zenon
<1>2. count \in Counts /\ Wrapped
  BY <1>1 DEF Init, Counts, Wrapped
<1>3. Ordered(0, 0)
  BY <1>1 DEF Init, Ordered
<1>4. Phases /\ Clock
  BY <1>1 DEF Init, Phases, Clock, Age, None
<1> QED
  BY <1>2, <1>3, <1>4 DEF IInv

\* A tick makes both ages older, the clock's never more than the silence.
LEMMA OlderIs ==
    ASSUME NEW x \in Age, NEW y \in Age
    PROVE  Older(x) \in Age /\ (x <= y => Older(x) <= Older(y))
  BY Widths DEF Age, Older

\* The application issues one more command.
LEMMA IssueStep == IInv /\ AppIssue => IInv'
<1> SUFFICES ASSUME IInv, AppIssue PROVE IInv'
  OBVIOUS
<1>1. PICK h \in Nat, a \in Nat : Ordered(h, a)
  BY DEF IInv
<1>2. /\ count \in Counts /\ count.tail \in Nat /\ BufSize \in Nat \ {0}
      /\ h <= count.tail /\ count.tail <= h + BufSize
  BY <1>1, Widths DEF IInv, Counts, Ordered
<1>3. count.tail + 1 <= h + BufSize
  <2>1. count.tail - h \in 0 .. Width - 1 /\ count.tail \in Int /\ h \in Int
    BY <1>2, Widths
  <2>2. Diff(tail, head) = count.tail - h
    BY <1>1, <2>1, DiffIs DEF IInv, Wrapped, Ordered
  <2>3. Diff(tail, head) + 1 <= BufSize
    BY DEF AppIssue
  <2>4. QED
    BY <1>2, <2>2, <2>3
<1>4. /\ count' \in Counts /\ count'.tail = count.tail + 1
      /\ count'.drained = count.drained /\ count'.relayed = count.relayed
      /\ count'.shipped = count.shipped /\ count'.consumed = count.consumed
  BY <1>2 DEF AppIssue, Counts
<1>5. (tail + 1) % Width = count'.tail % Width
  <2>1. Width \in Nat \ {0} /\ count.tail \in Int /\ 0 - 1 \in Int
    BY <1>2, Widths
  <2>2. ((count.tail % Width) - (0 - 1)) % Width = (count.tail - (0 - 1)) % Width
    BY <2>1, RemainderLeft, Zenon
  <2>3. /\ count.tail - (0 - 1) = count.tail + 1
        /\ (count.tail % Width) - (0 - 1) = (count.tail % Width) + 1
    <3>1. count.tail % Width \in Int
      BY <2>1, WordOf DEF Word
    <3>2. QED
      BY <2>1, <3>1
  <2>4. tail = count.tail % Width
    BY DEF IInv, Wrapped
  <2>5. QED
    BY <1>4, <2>2, <2>3, <2>4
<1>6. Wrapped'
  BY <1>4, <1>5 DEF IInv, Wrapped, AppIssue
<1>7. Ordered(h, a)'
  <2>1. /\ count.drained \in Nat
        /\ count.drained <= count.tail
    BY <1>1 DEF IInv, Counts, Ordered
  <2>2. UNCHANGED <<head, ack>>
    BY DEF AppIssue
  <2>3. QED
    BY <1>1, <1>2, <1>3, <1>4, <2>1, <2>2 DEF Ordered
<1>8. Phases' /\ Clock'
  BY <1>4 DEF IInv, Phases, Clock, AppIssue
<1> QED
  BY <1>4, <1>6, <1>7, <1>8 DEF IInv

\* S says anything at all.
LEMMA AcknowledgeStep == IInv /\ Acknowledge => IInv'
<1> SUFFICES ASSUME IInv, Acknowledge PROVE IInv'
  OBVIOUS
<1>1. PICK h \in Nat, a \in Nat : Ordered(h, a)
  BY DEF IInv
<1>2. PICK t \in Word : NoteConsumed(t)
  BY DEF Acknowledge
<1>3. /\ count \in Counts /\ count.consumed \in Nat /\ count.relayed \in Nat
      /\ count.consumed <= count.relayed /\ Limit \in Nat
  BY <1>1, Widths DEF IInv, Counts, Ordered
<1>4. UNCHANGED <<tail, head, lastTail, ack, relayed, shipped, wpc>>
  BY DEF Acknowledge
<1>5. CASE ~Advances(t)
  <2>1. UNCHANGED <<consumed, since, silence>>
    BY <1>2, <1>5 DEF NoteConsumed, Acknowledge
  <2>2. Diff(consumed', consumed) = 0
    <3>1. count.consumed - count.consumed \in 0 .. Width - 1 /\ count.consumed \in Int
          /\ count.consumed - count.consumed = 0
      BY <1>3, Widths
    <3>2. consumed = count.consumed % Width
      BY DEF IInv, Wrapped
    <3>3. QED
      BY <2>1, <3>1, <3>2, DiffIs
  <2>3. count' = count
    BY <1>3, <2>2 DEF Acknowledge, Counts
  <2>4. QED
    BY <1>4, <2>1, <2>3 DEF IInv, Wrapped, Ordered, Phases, Clock
<1>6. CASE Advances(t)
  <2> DEFINE c == count.consumed + Diff(t, consumed)
  <2>1. consumed' = t /\ since' = IF t = relayed THEN None ELSE 0
    BY <1>2, <1>6 DEF NoteConsumed
  <2>2. /\ c \in count.consumed + 1 .. count.relayed /\ c % Width = t
    BY <1>6, AdvancesIs
  <2>3. count' = [count EXCEPT !.consumed = c]
    BY <2>1 DEF Acknowledge
  <2> HIDE DEF c
  <2>4. /\ count' \in Counts /\ count'.consumed = c
        /\ count'.tail = count.tail
        /\ count'.drained = count.drained /\ count'.relayed = count.relayed
        /\ count'.shipped = count.shipped
    BY <1>3, <2>2, <2>3 DEF Counts
  <2>5. Wrapped'
    BY <1>4, <2>1, <2>2, <2>4 DEF IInv, Wrapped
  <2>6. Ordered(h, a)'
    BY <1>1, <1>3, <1>4, <2>2, <2>4 DEF Ordered
  <2>7. Phases'
    BY <1>4, <2>4 DEF IInv, Phases
  <2>8. t = relayed <=> c = count.relayed
    <3>1. count.relayed <= c + BufSize /\ c \in Nat /\ c <= count.relayed
      <4>1. /\ count.drained \in Nat /\ count.tail \in Nat
            /\ count.relayed <= count.drained /\ count.drained <= count.tail
            /\ count.tail <= h + BufSize /\ h <= count.consumed
        BY <1>1 DEF IInv, Counts, Ordered
      <4>2. QED
        BY <1>3, <2>2, <4>1, Widths
    <3>2. count.relayed % Width = c % Width <=> count.relayed = c
      BY <1>3, <3>1, SameWord
    <3>3. relayed = count.relayed % Width
      BY DEF IInv, Wrapped
    <3>4. QED
      BY <2>2, <3>2, <3>3
  <2>9. Clock'
    <3>1. silence' \in Age /\ (silence' = 0 \/ silence' = silence) /\ 0 <= silence'
      BY <1>3 DEF Acknowledge, IInv, Clock, Age
    <3>2. 0 \in Age /\ None # 0
      BY <1>3 DEF Age, None
    <3>3. since' = None <=> count'.relayed = count'.consumed
      BY <2>1, <2>4, <2>8, <3>2
    <3>4. since' \in Age \cup {None} /\ (since' # None => since' <= silence')
      BY <2>1, <3>1, <3>2
    <3>5. QED
      BY <3>1, <3>3, <3>4 DEF Clock
  <2>10. QED
    BY <2>4, <2>5, <2>6, <2>7, <2>9 DEF IInv
<1> QED
  BY <1>5, <1>6

\* Time passes.
LEMMA TickStep == IInv /\ Tick => IInv'
<1> SUFFICES ASSUME IInv, Tick PROVE IInv'
  OBVIOUS
<1>1. UNCHANGED <<words, wpc, count>>
  BY DEF Tick
<1>2. Clock'
  <2>1. Limit \in Nat
    BY Widths
  <2>2. CASE since = None
    BY <1>1, <2>1, <2>2, OlderIs DEF Tick, IInv, Clock, Age
  <2>3. CASE since # None
    <3>1. /\ since \in Age /\ silence \in Age /\ since <= silence
          /\ since' = Older(since) /\ silence' = Older(silence)
      BY <2>3 DEF IInv, Clock, Tick
    <3>2. Older(since) \in Age /\ Older(silence) \in Age /\ Older(since) <= Older(silence)
      BY <3>1, OlderIs
    <3>3. Older(since) # None
      BY <2>1, <3>2 DEF Age, None
    <3>4. QED
      BY <1>1, <2>3, <3>1, <3>2, <3>3 DEF IInv, Clock
  <2>4. QED
    BY <2>2, <2>3
<1> QED
  BY <1>1, <1>2 DEF IInv, Wrapped, Ordered, Phases, words

\* The watcher takes what the application has issued.
LEMMA TakeStep == IInv /\ Take => IInv'
<1> SUFFICES ASSUME IInv, Take PROVE IInv'
  OBVIOUS
<1>1. PICK h \in Nat, a \in Nat : Ordered(h, a)
  BY DEF IInv
<1>2. /\ count' \in Counts /\ count'.tail = count.tail
      /\ count'.drained = count.tail /\ count'.relayed = count.relayed
      /\ count'.shipped = count.shipped /\ count'.consumed = count.consumed
  BY DEF Take, IInv, Counts
<1>3. wpc' = "check" => count.tail = count.drained
  BY Outstanding DEF Take
<1>4. Wrapped'
  BY <1>2 DEF IInv, Wrapped, Take
<1>5. Ordered(h, a)'
  BY <1>1, <1>2 DEF IInv, Counts, Ordered, Take
<1>6. Phases'
  BY <1>2, <1>3 DEF IInv, Phases, Take
<1>7. Clock'
  BY <1>2 DEF IInv, Clock, Take
<1> QED
  BY <1>2, <1>4, <1>5, <1>6, <1>7 DEF IInv

\* What was taken counts as relayed, and the clock starts if it was stopped.
LEMMA RelayStep == IInv /\ NoteRelayed => IInv'
<1> SUFFICES ASSUME IInv, NoteRelayed PROVE IInv'
  OBVIOUS
<1>1. PICK h \in Nat, a \in Nat : Ordered(h, a)
  BY DEF IInv
<1>2. /\ count' \in Counts /\ count'.tail = count.tail
      /\ count'.drained = count.drained /\ count'.relayed = count.drained
      /\ count'.shipped = count.shipped /\ count'.consumed = count.consumed
  BY DEF NoteRelayed, IInv, Counts
<1>3. Wrapped'
  BY <1>2 DEF IInv, Wrapped, NoteRelayed
<1>4. Ordered(h, a)'
  BY <1>1, <1>2 DEF IInv, Counts, Ordered, NoteRelayed
<1>5. Phases'
  BY <1>2 DEF IInv, Phases, NoteRelayed
<1>6. Clock'
  <2>1. /\ Limit \in Nat /\ 0 \in Age /\ None # 0
        /\ count.consumed \in Nat /\ count.relayed \in Nat /\ count.drained \in Nat
        /\ count.consumed <= count.relayed /\ count.relayed <= count.drained
    BY <1>1, Widths DEF IInv, Counts, Ordered, Age, None
  <2>2. lastTail = consumed <=> count.drained = count.consumed
    BY Outstanding
  <2>3. CASE since # None
    <3>1. count.relayed # count.consumed /\ since' = since /\ silence' = silence
      BY <2>3 DEF IInv, Clock, NoteRelayed
    <3>2. count.drained # count.consumed
      BY <2>1, <3>1
    <3>3. QED
      BY <1>2, <2>3, <3>1, <3>2 DEF IInv, Clock
  <2>4. CASE since = None
    <3>1. /\ silence' = 0
          /\ since' = IF lastTail # consumed THEN 0 ELSE None
      BY <2>4 DEF IInv, Clock, NoteRelayed
    <3>2. QED
      BY <1>2, <2>1, <2>2, <3>1 DEF Clock
  <2>5. QED
    BY <2>3, <2>4
<1> QED
  BY <1>2, <1>3, <1>4, <1>5, <1>6 DEF IInv

\* What was relayed is shipped.
LEMMA ShipStep == IInv /\ NoteShipped => IInv'
<1> SUFFICES ASSUME IInv, NoteShipped PROVE IInv'
  OBVIOUS
<1>1. PICK h \in Nat, a \in Nat : Ordered(h, a)
  BY DEF IInv
<1>2. /\ count' \in Counts /\ count'.tail = count.tail
      /\ count'.drained = count.drained /\ count'.relayed = count.relayed
      /\ count'.shipped = count.drained /\ count'.consumed = count.consumed
  BY DEF NoteShipped, IInv, Counts
<1>3. Wrapped'
  BY <1>2 DEF IInv, Wrapped, NoteShipped
<1>4. wpc = "ship" /\ wpc' = "take" /\ count.relayed = count.drained
  BY DEF NoteShipped, IInv, Phases
<1>5. Ordered(h, a)'
  BY <1>1, <1>2, <1>4 DEF IInv, Counts, Ordered, NoteShipped
<1>6. Phases'
  BY <1>2, <1>4 DEF IInv, Phases, NoteShipped
<1>7. Clock'
  BY <1>2 DEF IInv, Clock, NoteShipped
<1> QED
  BY <1>2, <1>3, <1>5, <1>6, <1>7 DEF IInv

\* The stall check takes the newest acknowledgement in hand, and the head
\* follows what is in hand.
LEMMA HeadStep == IInv /\ (CheckStall \/ PublishHead) => IInv'
<1> SUFFICES ASSUME IInv, CheckStall \/ PublishHead PROVE IInv'
  OBVIOUS
<1>1. PICK h \in Nat, a \in Nat : Ordered(h, a)
  BY DEF IInv
<1>2. /\ count' = count
      /\ UNCHANGED <<tail, lastTail, relayed, shipped, consumed, since, silence>>
  BY DEF CheckStall, PublishHead
<1>3. Wrapped' /\ Phases' /\ Clock'
  BY <1>2 DEF IInv, Wrapped, Phases, Clock, CheckStall, PublishHead
<1>4. \E x, y \in Nat : Ordered(x, y)'
  <2>1. CASE CheckStall
    <3>1. count.consumed \in Nat /\ count.shipped = count.relayed
      BY <2>1 DEF IInv, Counts, Phases, CheckStall
    <3>2. PICK c \in Nat : c = count.consumed
      BY <3>1
    <3>3. ack' = c % Width /\ head' = head
      BY <2>1, <3>2 DEF IInv, Wrapped, CheckStall
    <3>4. Ordered(h, c)'
      BY <1>1, <1>2, <3>1, <3>2, <3>3 DEF IInv, Counts, Ordered
    <3>5. QED
      BY <3>4
  <2>2. CASE PublishHead
    <3>1. head' = ack /\ ack' = ack
      BY <2>2 DEF PublishHead
    <3>2. Ordered(a, a)'
      BY <1>1, <1>2, <3>1, Widths DEF IInv, Counts, Ordered
    <3>3. QED
      BY <3>2
  <2>3. QED
    BY <2>1, <2>2
<1> QED
  BY <1>2, <1>3, <1>4 DEF IInv

\* The invariant of the clock: whatever S sends, the words are numbers in order
\* and the clock tells the truth.
THEOREM ClockInvariant == Spec => []IInv
<1>1. IInv /\ [Next]_vars => IInv'
  <2> SUFFICES ASSUME IInv, [Next]_vars PROVE IInv'
    OBVIOUS
  <2>1. CASE UNCHANGED vars
    BY <2>1 DEF vars, words, IInv, Wrapped, Ordered, Phases, Clock
  <2>2. QED
    BY <2>1, IssueStep, TickStep, AcknowledgeStep, TakeStep, RelayStep,
       ShipStep, HeadStep DEF Next, Watcher
<1> QED
  BY <1>1, InvInit, PTL DEF Spec

\* Every variable has its type, every word is its number wrapped, and the clock
\* runs exactly while something is outstanding.
THEOREM ClockTypes == Spec => []TypeOK
<1>1. IInv => TypeOK
  <2> SUFFICES ASSUME IInv PROVE TypeOK
    OBVIOUS
  <2>1. PICK h \in Nat, a \in Nat : Ordered(h, a)
    BY DEF IInv
  <2>2. {tail, head, lastTail, ack, relayed, shipped, consumed} \subseteq Word
    <3>1. /\ count.tail \in Int /\ count.drained \in Int /\ count.relayed \in Int
          /\ count.shipped \in Int /\ count.consumed \in Int
          /\ h \in Int /\ a \in Int
      BY DEF IInv, Counts
    <3>2. QED
      BY <2>1, <3>1, WordOf DEF IInv, Wrapped, Ordered
  <2>3. since = None <=> relayed = consumed
    BY Outstanding DEF IInv, Clock
  <2>4. QED
    BY <2>2, <2>3 DEF IInv, Wrapped, Phases, Clock, TypeOK
<1> QED
  BY <1>1, ClockInvariant, PTL

\* No assert of ring.rs can fail, whatever S sends.
THEOREM AssertsNeverFail == Spec => []AssertsHold
<1>1. IInv => AssertsHold
  <2> SUFFICES ASSUME IInv PROVE AssertsHold
    OBVIOUS
  <2>1. PICK h \in Nat, a \in Nat : Ordered(h, a)
    BY DEF IInv
  <2>2. /\ count.tail \in Int /\ count.drained \in Int /\ h \in Int /\ a \in Int
        /\ count.tail - count.drained \in 0 .. BufSize
        /\ count.drained - a \in 0 .. BufSize
        /\ BufSize < Width /\ BufSize \in Nat /\ Width \in Nat
    BY <2>1, Widths DEF IInv, Counts, Ordered
  <2>3. Diff(tail, lastTail) = count.tail - count.drained
    <3>1. count.tail - count.drained \in 0 .. Width - 1
      BY <2>2
    <3>2. QED
      BY <2>2, <3>1, DiffIs DEF IInv, Wrapped
  <2>4. Diff(lastTail, ack) = count.drained - a
    <3>1. count.drained - a \in 0 .. Width - 1
      BY <2>2
    <3>2. QED
      BY <2>1, <2>2, <3>1, DiffIs DEF IInv, Wrapped, Ordered
  <2>5. QED
    BY <2>2, <2>3, <2>4 DEF AssertsHold
<1> QED
  BY <1>1, ClockInvariant, PTL

\* The barrier's signed comparison is the comparison of the numbers, for every
\* target up to the tail that is less than half the range behind.
LEMMA FlushedIs ==
    ASSUME IInv, NEW n \in Nat, n <= count.tail,
           count.shipped < n + (Width \div 2)
    PROVE  Flushed(n % Width) <=> count.shipped >= n
<1>1. PICK h \in Nat, a \in Nat : Ordered(h, a)
  BY DEF IInv
<1> DEFINE S == count.shipped
           half == Width \div 2
<1>2. /\ S \in Nat /\ n <= S + BufSize /\ S < n + half
      /\ shipped = S % Width
      /\ half \in Nat /\ Width = 2 * half /\ BufSize <= half /\ BufSize \in Nat
  BY <1>1, Widths DEF IInv, Counts, Ordered, Wrapped
<1> HIDE DEF S, half
<1>3. CASE S >= n
  <2>1. S - n \in 0 .. Width - 1 /\ S - n < half /\ S \in Int /\ n \in Int
    BY <1>2, <1>3
  <2>2. Diff(shipped, n % Width) = S - n
    BY <1>2, <2>1, DiffIs
  <2>3. QED
    BY <1>3, <2>1, <2>2 DEF Flushed, S, half
<1>4. CASE S < n
  <2> DEFINE y == n - Width
  <2>1. /\ S - y \in 0 .. Width - 1 /\ S - y >= half /\ S \in Int /\ y \in Int
        /\ n = y + (Width * 1) /\ Width \in Nat \ {0} /\ n \in Int /\ 1 \in Int
    BY <1>2, <1>4, Widths
  <2> HIDE DEF y
  <2>2. n % Width = y % Width
    BY <2>1, WholeLaps, Zenon
  <2>3. Diff(shipped, n % Width) = S - y
    BY <1>2, <2>1, <2>2, DiffIs
  <2>4. QED
    BY <1>2, <1>4, <2>1, <2>3 DEF Flushed, S, half
<1> QED
  BY <1>2, <1>3, <1>4

\* Comparing wrapped cursors is comparing the cursors: for every width, ring
\* and history, a wrap never makes an acknowledgement count that should not,
\* nor the barrier end early or late.
THEOREM WrapIsHarmless == Spec => []ComparisonsSurviveTheWrap
<1>1. IInv => ComparisonsSurviveTheWrap
  <2> SUFFICES ASSUME IInv PROVE ComparisonsSurviveTheWrap
    OBVIOUS
  <2>1. ASSUME NEW t \in Word
        PROVE  Advances(t) <=> \E n \in count.consumed + 1 .. count.relayed : t = n % Width
    BY AdvancesIs
  <2>2. ASSUME NEW n \in count.shipped - Width \div 2 + 1 .. count.tail, n >= 0
        PROVE  Flushed(n % Width) <=> count.shipped >= n
    <3>1. n \in Nat /\ n <= count.tail /\ count.shipped < n + (Width \div 2)
      BY <2>2, Widths DEF IInv, Counts
    <3>2. QED
      BY <3>1, FlushedIs
  <2>3. QED
    BY <2>1, <2>2 DEF ComparisonsSurviveTheWrap
<1> QED
  BY <1>1, ClockInvariant, PTL

\* C gives up only on an S that was silent for longer than the limit while
\* something was outstanding.
THEOREM StallsAreReal == Spec => StallIsReal
<1>1. IInv /\ [Next]_vars => [wpc # "gone" /\ wpc' = "gone" => silence > Limit]_vars
  <2> SUFFICES ASSUME IInv, Next, wpc # "gone", wpc' = "gone"
               PROVE  silence > Limit
    OBVIOUS
  <2>1. CheckStall
    BY DEF Next, Watcher, AppIssue, Tick, Acknowledge, Take, NoteRelayed,
           NoteShipped, PublishHead
  <2>2. since # None /\ since > Limit
    BY <2>1 DEF CheckStall
  <2>3. since \in Int /\ silence \in Int /\ since <= silence /\ Limit \in Int
    BY <2>2, Widths DEF IInv, Clock, Age
  <2>4. QED
    BY <2>2, <2>3
<1> QED
  BY <1>1, ClockInvariant, PTL DEF Spec, StallIsReal
=============================================================================
