--------------------------- MODULE BlobSyncProofs ---------------------------
(***************************************************************************)
(* Proofs about one mirrored blob, for every size of blob, every division  *)
(* of its cells between the two sides, every gap and every history length. *)
(*                                                                         *)
(*   MirrorInvariant    Spec => []IInv                                     *)
(*   MirrorTypes        Spec => []TypeOK                                   *)
(*   NothingEchoed      Spec => []NoEcho                                   *)
(*   KnownFirst         Spec => []KnownBeforeFed                           *)
(*   MappingsAgree      GapIsTheirs: Spec => []AgreeWhenQuiet              *)
(*   NothingRolledBack  GapIsTheirs: Spec => NoRollback                    *)
(*                                                                         *)
(* The heart of the invariant is Feeds: what a link says of a cell begins  *)
(* at what the receiver holds, never goes back, and ends at what the       *)
(* sender takes the receiver to hold.  ToC and ToS chain it, for each      *)
(* cell, from the other side's mapping over the link and the thread that   *)
(* is about to send, up to the shadow or the baseline; Versions continues  *)
(* it to the writer.  Around them, Handshake is the creation and the       *)
(* giving up, Ownership says where a mapping may differ from its copy, and *)
(* Untouched why the late baseline of Venus's own shmems hides nothing.    *)
(***************************************************************************)
EXTENDS BlobSync, FiniteSetTheorems, NaturalsInduction, TLAPS

\* Cells are natural numbers.
LEMMA CellsAre ==
    /\ Size \in Nat \ {0} /\ Cells = 0 .. Size - 1 /\ Cells \subseteq Nat
    /\ CpuCells \subseteq Cells /\ GpuCells = Cells \ CpuCells
    /\ Gap \in Nat /\ MaxVer \in Nat /\ Internals \subseteq BOOLEAN
  BY BlobAssumption DEF Cells, GpuCells

\* A set of numbers that is not empty has a least one.
LEMMA LeastOf ==
    ASSUME NEW S \in SUBSET Nat, S # {}
    PROVE  \E m \in S : \A n \in S : m <= n
<1> DEFINE less == OpToRel(<, Nat)
<1>1. \A m, n \in Nat : m < n => <<m, n>> \in less
  BY DEF OpToRel
<1>2. IsWellFoundedOn(less, Nat)
  BY NatLessThanWellFounded
<1> HIDE DEF less
<1>3. PICK m \in S : \A n \in S : ~ (<<n, m>> \in less)
  BY <1>2, WFMin
<1>4. \A n \in S : m <= n
  <2> SUFFICES ASSUME NEW n \in S PROVE m <= n
    OBVIOUS
  <2>1. m \in Nat /\ n \in Nat
    OBVIOUS
  <2>2. ~ (n < m)
    BY <1>1, <1>3, <2>1
  <2>3. QED
    BY <2>1, <2>2
<1> QED
  BY <1>4

-----------------------------------------------------------------------------
(* The runs of a diff.                                                     *)

Firsts(cells) == {c \in cells : c - 1 \notin cells}
Rank(S, s) == Cardinality({t \in S : t <= s})
Stretch(cells, s) == {c \in cells : s <= c /\ s .. c \subseteq cells}
FirstOf(cells, i) == CHOOSE s \in Firsts(cells) : Rank(Firsts(cells), s) = i

\* Every number up to the size of a set is the rank of one of its members.
LEMMA RankOnto ==
    ASSUME NEW S \in SUBSET Nat, IsFiniteSet(S)
    PROVE  /\ Cardinality(S) \in Nat
           /\ \A s \in S : Rank(S, s) \in 1 .. Cardinality(S)
           /\ \A i \in 1 .. Cardinality(S) : \E s \in S : Rank(S, s) = i
           /\ \A s, t \in S : Rank(S, s) = Rank(S, t) => s = t
<1> DEFINE upTo(s) == {t \in S : t <= s}
<1>1. Cardinality(S) \in Nat
  BY FS_CardinalityType
<1>2. ASSUME NEW s \in S
      PROVE  IsFiniteSet(upTo(s)) /\ Rank(S, s) \in 1 .. Cardinality(S)
  <2>1. upTo(s) \in SUBSET S /\ s \in upTo(s)
    OBVIOUS
  <2>2. IsFiniteSet(upTo(s)) /\ Cardinality(upTo(s)) <= Cardinality(S)
    BY <2>1, FS_Subset
  <2>3. Cardinality(upTo(s)) \in Nat /\ Cardinality(upTo(s)) # 0
    BY <2>1, <2>2, FS_CardinalityType, FS_EmptySet
  <2>4. QED
    BY <1>1, <2>2, <2>3 DEF Rank
<1>3. ASSUME NEW s \in S, NEW t \in S, s < t
      PROVE  Rank(S, s) # Rank(S, t)
  <2>0. S \subseteq Nat /\ s \in Nat /\ t \in Nat
    OBVIOUS
  <2>a. \A u \in upTo(s) : u \in upTo(t)
    BY <1>3, <2>0
  <2>b. t \in upTo(t) /\ t \notin upTo(s)
    BY <1>3, <2>0
  <2>1. upTo(s) \in SUBSET upTo(t) /\ t \in upTo(t) /\ t \notin upTo(s)
    BY <2>a, <2>b
  <2>2. Cardinality(upTo(t)) = Cardinality(upTo(s)) => upTo(t) = upTo(s)
    BY <1>2, <2>1, FS_Subset
  <2>3. QED
    BY <2>1, <2>2 DEF Rank
<1>4. \A s, t \in S : Rank(S, s) = Rank(S, t) => s = t
  <2> SUFFICES ASSUME NEW s \in S, NEW t \in S, s # t PROVE Rank(S, s) # Rank(S, t)
    OBVIOUS
  <2>1. s < t \/ t < s
    OBVIOUS
  <2>2. QED
    BY <1>3, <2>1
<1> DEFINE rank == [s \in S |-> Rank(S, s)]
<1>5. rank \in Injection(S, 1 .. Cardinality(S))
  <2>1. rank \in [S -> 1 .. Cardinality(S)]
    BY <1>2
  <2>2. \A s, t \in S : rank[s] = rank[t] => s = t
    BY <1>4
  <2>3. QED
    BY <2>1, <2>2 DEF Injection, IsInjective
<1>6. IsFiniteSet(1 .. Cardinality(S)) /\ Cardinality(1 .. Cardinality(S)) = Cardinality(S)
  BY <1>1, FS_Interval
<1>7. rank \in Surjection(S, 1 .. Cardinality(S))
  BY <1>5, <1>6, FS_Injection
<1>8. \A i \in 1 .. Cardinality(S) : \E s \in S : Rank(S, s) = i
  BY <1>7 DEF Surjection
<1> QED
  BY <1>1, <1>2, <1>4, <1>8

\* A set of cells is finite, and so are the cells where its stretches begin.
LEMMA FirstsAre ==
    ASSUME NEW cells \in SUBSET Cells
    PROVE  /\ cells \in SUBSET Nat /\ Firsts(cells) \in SUBSET Nat
           /\ IsFiniteSet(cells) /\ IsFiniteSet(Firsts(cells))
<1>1. IsFiniteSet(Cells) /\ Cells \subseteq Nat
  BY CellsAre, FS_Interval
<1>2. Firsts(cells) \in SUBSET Cells
  BY DEF Firsts
<1> QED
  BY <1>1, <1>2, FS_Subset

\* Every cell of a set lies in a stretch of it.
LEMMA InAStretch ==
    ASSUME NEW cells \in SUBSET Cells, NEW c \in cells
    PROVE  \E s \in Firsts(cells) : c \in Stretch(cells, s)
<1> DEFINE from == {s \in cells : s <= c /\ s .. c \subseteq cells}
<1>0. cells \in SUBSET Nat
  BY FirstsAre
<1>1. c \in from /\ from \in SUBSET Nat
  <2>1. c \in Nat
    BY <1>0
  <2>2. c .. c \subseteq cells
    BY <2>1
  <2>3. c \in from
    BY <2>1, <2>2
  <2>4. from \subseteq cells
    OBVIOUS
  <2>5. QED
    BY <1>0, <2>3, <2>4
<1>2. PICK s \in from : \A t \in from : s <= t
  BY <1>1, LeastOf
<1>3. s - 1 \notin cells
  <2> SUFFICES ASSUME s - 1 \in cells PROVE FALSE
    OBVIOUS
  <2>1. (s - 1) .. c \subseteq cells
    BY <1>0, <1>2
  <2>2. s - 1 \in from
    BY <1>0, <1>2, <2>1
  <2>3. QED
    BY <1>0, <1>2, <2>2
<1> QED
  BY <1>2, <1>3 DEF Firsts, Stretch

\* A stretch is an interval.
LEMMA StretchIs ==
    ASSUME NEW cells \in SUBSET Cells, NEW s \in cells
    PROVE  \E b \in Cells : s <= b /\ Stretch(cells, s) = s .. b
<1>0. cells \in SUBSET Nat /\ Cells = 0 .. Size - 1 /\ Size \in Nat
  BY FirstsAre, CellsAre
<1> DEFINE beyond == {n \in Nat : s < n /\ n \notin cells}
<1>1. Size \in beyond
  BY <1>0
<1>2. PICK n \in beyond : \A m \in beyond : n <= m
  BY <1>1, LeastOf
<1>3. n <= Size /\ n - 1 \in Cells /\ s <= n - 1
  BY <1>0, <1>1, <1>2
<1>4. s .. n - 1 \subseteq cells
  <2> SUFFICES ASSUME NEW m \in s .. n - 1, m \notin cells PROVE FALSE
    OBVIOUS
  <2>1. m \in beyond
    BY <1>0
  <2>2. QED
    BY <1>0, <1>2, <2>1
<1>5. Stretch(cells, s) = s .. n - 1
  <2>1. ASSUME NEW c \in s .. n - 1 PROVE c \in Stretch(cells, s)
    BY <1>0, <1>4 DEF Stretch
  <2>2. ASSUME NEW c \in Stretch(cells, s) PROVE c \in s .. n - 1
    <3>1. c \in Nat /\ s <= c /\ s .. c \subseteq cells
      BY <1>0 DEF Stretch
    <3>2. n <= c => n \in s .. c
      BY <1>0, <1>2, <3>1
    <3>3. QED
      BY <1>0, <1>2, <3>1, <3>2
  <2>3. QED
    BY <2>1, <2>2
<1> QED
  BY <1>3, <1>5

Version == 0 .. MaxVer
Run == {run \in UNION {[D -> Version] : D \in SUBSET Cells} : IsRun(run)}

\* The runs of a diff are runs, hold the diff's cells and no others, and what
\* they say of a cell is what it holds.
LEMMA RunsAre ==
    ASSUME NEW live \in Memory, NEW cells \in SUBSET Cells
    PROVE  /\ Runs(live, cells) \in Seq(Run)
           /\ cells = {} => Runs(live, cells) = << >>
           /\ \A i \in 1 .. Len(Runs(live, cells)) :
                /\ DOMAIN Runs(live, cells)[i] \subseteq cells
                /\ \A c \in DOMAIN Runs(live, cells)[i] : Runs(live, cells)[i][c] = live[c]
           /\ \A c \in cells : \E i \in 1 .. Len(Runs(live, cells)) :
                c \in DOMAIN Runs(live, cells)[i]
<1> DEFINE firsts == Firsts(cells)
           n == Cardinality(firsts)
           first(i) == FirstOf(cells, i)
           runs == [i \in 1 .. n |-> [c \in Stretch(cells, first(i)) |-> live[c]]]
<1>1. Runs(live, cells) = runs
  BY Zenon DEF Runs, Firsts, Rank, Stretch, FirstOf
<1>2. n \in Nat /\ \A i \in 1 .. n : first(i) \in firsts /\ Rank(firsts, first(i)) = i
  BY FirstsAre, RankOnto DEF FirstOf
<1>3. \A s \in firsts : \E i \in 1 .. n : first(i) = s
  <2> SUFFICES ASSUME NEW s \in firsts PROVE \E i \in 1 .. n : first(i) = s
    OBVIOUS
  <2> DEFINE i == Rank(firsts, s)
  <2>1. i \in 1 .. n
    BY FirstsAre, RankOnto
  <2>2. first(i) \in firsts /\ Rank(firsts, first(i)) = Rank(firsts, s)
    BY <1>2, <2>1
  <2>3. first(i) = s
    BY <2>2, FirstsAre, RankOnto
  <2>4. QED
    BY <2>1, <2>3
<1>4. firsts \subseteq cells
  BY DEF Firsts
<1>5. cells = {} => n = 0
  BY <1>4, FS_EmptySet
<1> HIDE DEF firsts, n, first
<1>6. ASSUME NEW i \in 1 .. n
      PROVE  /\ runs[i] = [c \in Stretch(cells, first(i)) |-> live[c]]
             /\ Stretch(cells, first(i)) \subseteq cells
             /\ runs[i] \in Run
  <2>1. first(i) \in cells
    BY <1>2, <1>4
  <2>2. PICK b \in Cells : first(i) <= b /\ Stretch(cells, first(i)) = first(i) .. b
    BY <2>1, StretchIs
  <2>3. Stretch(cells, first(i)) \subseteq cells
    BY DEF Stretch
  <2>4. \A c \in cells : live[c] \in Version
    BY DEF Memory, Version
  <2>5. runs[i] = [c \in Stretch(cells, first(i)) |-> live[c]]
    OBVIOUS
  <2>6. runs[i] \in [Stretch(cells, first(i)) -> Version]
    BY <2>3, <2>4, <2>5
  <2>7. IsRun(runs[i])
    BY <2>1, <2>2, <2>6 DEF IsRun, Version
  <2>8. Stretch(cells, first(i)) \in SUBSET Cells
    BY <2>3
  <2>9. runs[i] \in UNION {[D -> Version] : D \in SUBSET Cells}
    BY <2>6, <2>8
  <2>10. QED
    BY <2>3, <2>5, <2>7, <2>9 DEF Run
<1>7. runs \in Seq(Run) /\ Len(runs) = n
  BY <1>2, <1>6
<1>8. \A c \in cells : \E i \in 1 .. n : c \in DOMAIN runs[i]
  BY <1>3, <1>6, InAStretch DEF firsts
<1>9. \A i \in 1 .. n : DOMAIN runs[i] \subseteq cells /\ \A c \in DOMAIN runs[i] : runs[i][c] = live[c]
  BY <1>6
<1>10. n = 0 => runs = << >>
  BY <1>2
<1> HIDE DEF runs
<1> QED
  BY <1>1, <1>5, <1>7, <1>8, <1>9, <1>10

-----------------------------------------------------------------------------
(* Messages and links.                                                     *)

C2SMessage ==
    {CreateBlob, UnrefResource} \cup {BlobData(run) : run \in Run}
      \cup {RingDelta(n) : n \in BOOLEAN}

S2CMessage ==
    {BlobData(run) : run \in Run} \cup {BlobCreated(runs) : runs \in Seq(Run)}

\* What each kind of message from C is.
LEMMA C2SMessageIs ==
    /\ \A m \in C2SMessage :
         /\ m.type \in {"CreateBlob", "UnrefResource", "BlobData", "RingDelta"}
         /\ m.type = "BlobData" => m.run \in Run
         /\ m.type = "RingDelta" => m.names \in BOOLEAN
         /\ m.type = "CreateBlob" => m = CreateBlob
         /\ m.type = "UnrefResource" => m = UnrefResource
    /\ CreateBlob \in C2SMessage /\ CreateBlob.type = "CreateBlob"
    /\ UnrefResource \in C2SMessage /\ UnrefResource.type = "UnrefResource"
    /\ \A n \in BOOLEAN : /\ RingDelta(n) \in C2SMessage
                          /\ RingDelta(n).type = "RingDelta"
                          /\ RingDelta(n).names = n
    /\ \A run \in Run : /\ BlobData(run) \in C2SMessage
                        /\ BlobData(run).type = "BlobData" /\ BlobData(run).run = run
<1>1. \A run : BlobData(run).type = "BlobData" /\ BlobData(run).run = run
  BY DEF BlobData
<1>2. \A n : RingDelta(n).type = "RingDelta" /\ RingDelta(n).names = n
  BY DEF RingDelta
<1>3. CreateBlob.type = "CreateBlob" /\ UnrefResource.type = "UnrefResource"
  BY DEF CreateBlob, UnrefResource
<1>4. ASSUME NEW m \in C2SMessage
      PROVE  \/ m = CreateBlob \/ m = UnrefResource
             \/ \E run \in Run : m = BlobData(run)
             \/ \E n \in BOOLEAN : m = RingDelta(n)
  BY Zenon DEF C2SMessage
<1>5. /\ CreateBlob \in C2SMessage /\ UnrefResource \in C2SMessage
      /\ \A n \in BOOLEAN : RingDelta(n) \in C2SMessage
      /\ \A run \in Run : BlobData(run) \in C2SMessage
  BY Zenon DEF C2SMessage
<1> QED
  BY <1>1, <1>2, <1>3, <1>4, <1>5

\* What each kind of message from S is.
LEMMA S2CMessageIs ==
    /\ \A m \in S2CMessage :
         /\ m.type \in {"BlobData", "BlobCreated"}
         /\ m.type = "BlobData" => m.run \in Run
         /\ m.type = "BlobCreated" => m.initial \in Seq(Run)
    /\ \A run \in Run : /\ BlobData(run) \in S2CMessage
                        /\ BlobData(run).type = "BlobData" /\ BlobData(run).run = run
    /\ \A runs \in Seq(Run) : /\ BlobCreated(runs) \in S2CMessage
                              /\ BlobCreated(runs).type = "BlobCreated"
                              /\ BlobCreated(runs).initial = runs
<1>1. \A run : BlobData(run).type = "BlobData" /\ BlobData(run).run = run
  BY DEF BlobData
<1>2. \A runs : BlobCreated(runs).type = "BlobCreated" /\ BlobCreated(runs).initial = runs
  BY DEF BlobCreated
<1>3. ASSUME NEW m \in S2CMessage
      PROVE  (\E run \in Run : m = BlobData(run)) \/ \E runs \in Seq(Run) : m = BlobCreated(runs)
  BY Zenon DEF S2CMessage
<1>4. /\ \A run \in Run : BlobData(run) \in S2CMessage
      /\ \A runs \in Seq(Run) : BlobCreated(runs) \in S2CMessage
  BY Zenon DEF S2CMessage
<1> QED
  BY <1>1, <1>2, <1>3, <1>4

\* A run says numbers of cells.
LEMMA RunIs ==
    ASSUME NEW run \in Run
    PROVE  /\ IsRun(run) /\ DOMAIN run \subseteq Cells
           /\ \A c \in DOMAIN run : run[c] \in Version
  BY DEF Run

\* A message put at the end of a link.
LEMMA AppendIs ==
    ASSUME NEW M, NEW s \in Seq(M), NEW m \in M
    PROVE  /\ Append(s, m) \in Seq(M) /\ Len(Append(s, m)) = Len(s) + 1
           /\ Len(s) \in Nat /\ Append(s, m)[Len(s) + 1] = m
           /\ \A i \in 1 .. Len(s) : Append(s, m)[i] = s[i] /\ s[i] \in M
  OBVIOUS

\* A message taken from the front of a link.
LEMMA TailIs ==
    ASSUME NEW M, NEW s \in Seq(M), s # << >>
    PROVE  /\ Tail(s) \in Seq(M) /\ Len(Tail(s)) = Len(s) - 1
           /\ Len(s) \in Nat \ {0} /\ 1 \in 1 .. Len(s) /\ Head(s) = s[1]
           /\ \A i \in 1 .. Len(s) : s[i] \in M
           /\ \A i \in 1 .. Len(s) - 1 : Tail(s)[i] = s[i + 1] /\ i + 1 \in 1 .. Len(s)
  OBVIOUS

\* One sequence of messages put behind another.
LEMMA ConcatIs ==
    ASSUME NEW M, NEW s \in Seq(M), NEW t \in Seq(M)
    PROVE  /\ s \o t \in Seq(M) /\ Len(s \o t) = Len(s) + Len(t)
           /\ Len(s) \in Nat /\ Len(t) \in Nat
           /\ \A i \in 1 .. Len(s) : (s \o t)[i] = s[i]
           /\ \A i \in 1 .. Len(t) : (s \o t)[Len(s) + i] = t[i]
           /\ \A i \in 1 .. Len(s \o t) :
                \/ i \in 1 .. Len(s) /\ (s \o t)[i] = s[i]
                \/ i - Len(s) \in 1 .. Len(t) /\ (s \o t)[i] = t[i - Len(s)]
  OBVIOUS

\* The messages of a diff carry its runs.
LEMMA DataMessagesAre ==
    ASSUME NEW runs \in Seq(Run)
    PROVE  /\ DataMessages(runs) \in Seq(C2SMessage)
           /\ DataMessages(runs) \in Seq(S2CMessage)
           /\ Len(DataMessages(runs)) = Len(runs) /\ Len(runs) \in Nat
           /\ \A i \in 1 .. Len(runs) :
                /\ DataMessages(runs)[i] = BlobData(runs[i])
                /\ DataMessages(runs)[i].type = "BlobData"
                /\ DataMessages(runs)[i].run = runs[i]
<1>1. Len(runs) \in Nat /\ \A i \in 1 .. Len(runs) : runs[i] \in Run
  OBVIOUS
<1>2. DataMessages(runs) = [i \in 1 .. Len(runs) |-> BlobData(runs[i])]
  BY DEF DataMessages
<1>3. \A i \in 1 .. Len(runs) : BlobData(runs[i]) \in C2SMessage /\ BlobData(runs[i]) \in S2CMessage
  BY <1>1, C2SMessageIs, S2CMessageIs
<1>4. \A i \in 1 .. Len(runs) : BlobData(runs[i]).type = "BlobData" /\ BlobData(runs[i]).run = runs[i]
  BY <1>1, C2SMessageIs
<1> QED
  BY <1>1, <1>2, <1>3, <1>4

-----------------------------------------------------------------------------
(* What a link says of a cell.                                             *)

\* A message says that a cell holds v.
Says(m, c, v) ==
    \/ m.type = "BlobData" /\ c \in DOMAIN m.run /\ m.run[c] = v
    \/ /\ m.type = "BlobCreated"
       /\ \E k \in 1 .. Len(m.initial) : c \in DOMAIN m.initial[k] /\ m.initial[k][c] = v

Silent(m, c) == \A v \in Version : ~Says(m, c, v)

\* What a link says of a cell never goes back; it begins at what the receiver
\* has and ends at what the sender takes the receiver to have.
Feeds(link, c, lo, hi) ==
    /\ \A i \in 1 .. Len(link), v \in Version :
         Says(link[i], c, v) => lo <= v /\ v <= hi
    /\ \A i, j \in 1 .. Len(link), v, w \in Version :
         i <= j /\ Says(link[i], c, v) /\ Says(link[j], c, w) => v <= w
    /\ lo = hi \/ \E i \in 1 .. Len(link) : Says(link[i], c, hi)

\* Nothing is on the link.
LEMMA FeedsNothing ==
    ASSUME NEW c, NEW lo \in Version, NEW hi \in Version
    PROVE  Feeds(<< >>, c, lo, hi) <=> lo = hi
  BY DEF Feeds

\* A message of something else joins it.
LEMMA FeedsPush ==
    ASSUME NEW M, NEW link \in Seq(M), NEW m \in M, NEW c,
           NEW lo \in Version, NEW hi \in Version,
           Feeds(link, c, lo, hi), Silent(m, c)
    PROVE  Feeds(Append(link, m), c, lo, hi)
<1> DEFINE new == Append(link, m)
<1>1. /\ Len(new) = Len(link) + 1 /\ Len(link) \in Nat
      /\ \A i \in 1 .. Len(link) : new[i] = link[i]
      /\ new[Len(link) + 1] = m
  BY AppendIs
<1> HIDE DEF new
<1>2. ASSUME NEW i \in 1 .. Len(new), NEW v \in Version, Says(new[i], c, v)
      PROVE  i \in 1 .. Len(link) /\ new[i] = link[i] /\ Says(link[i], c, v)
  BY <1>1, <1>2 DEF Silent
<1>3. \A i \in 1 .. Len(new), v \in Version : Says(new[i], c, v) => lo <= v /\ v <= hi
  BY <1>2 DEF Feeds
<1>4. \A i, j \in 1 .. Len(new), v, w \in Version :
         i <= j /\ Says(new[i], c, v) /\ Says(new[j], c, w) => v <= w
  BY <1>2 DEF Feeds
<1>5. lo = hi \/ \E i \in 1 .. Len(new) : Says(new[i], c, hi)
  BY <1>1 DEF Feeds
<1>6. Feeds(new, c, lo, hi)
  BY <1>3, <1>4, <1>5 DEF Feeds
<1> QED
  BY <1>6 DEF new

\* What is in hand joins what is on the link.
LEMMA FeedsJoin ==
    ASSUME NEW M, NEW s \in Seq(M), NEW t \in Seq(M), NEW c,
           NEW lo \in Version, NEW mid \in Version, NEW hi \in Version,
           lo <= mid, mid <= hi,
           Feeds(s, c, lo, mid), Feeds(t, c, mid, hi)
    PROVE  Feeds(s \o t, c, lo, hi)
<1> DEFINE new == s \o t
<1>0. lo \in Nat /\ mid \in Nat /\ hi \in Nat /\ Version \subseteq Nat
  BY CellsAre DEF Version
<1>1. /\ Len(new) = Len(s) + Len(t) /\ Len(s) \in Nat /\ Len(t) \in Nat
      /\ \A i \in 1 .. Len(s) : new[i] = s[i]
      /\ \A i \in 1 .. Len(t) : new[Len(s) + i] = t[i]
      /\ \A i \in 1 .. Len(new) :
           \/ i \in 1 .. Len(s) /\ new[i] = s[i]
           \/ i - Len(s) \in 1 .. Len(t) /\ new[i] = t[i - Len(s)]
  BY ConcatIs
<1> HIDE DEF new
<1>2. ASSUME NEW i \in 1 .. Len(new), NEW v \in Version, Says(new[i], c, v)
      PROVE  \/ /\ i \in 1 .. Len(s) /\ Says(s[i], c, v)
                /\ lo <= v /\ v <= mid
             \/ /\ i - Len(s) \in 1 .. Len(t) /\ Says(t[i - Len(s)], c, v)
                /\ mid <= v /\ v <= hi
  <2>1. CASE i \in 1 .. Len(s) /\ new[i] = s[i]
    BY <1>2, <2>1 DEF Feeds
  <2>2. CASE i - Len(s) \in 1 .. Len(t) /\ new[i] = t[i - Len(s)]
    BY <1>2, <2>2 DEF Feeds
  <2>3. QED
    BY <1>1, <2>1, <2>2
<1>3. \A i \in 1 .. Len(new), v \in Version : Says(new[i], c, v) => lo <= v /\ v <= hi
  BY <1>0, <1>2
<1>4. ASSUME NEW i \in 1 .. Len(new), NEW j \in 1 .. Len(new),
             NEW v \in Version, NEW w \in Version,
             i <= j, Says(new[i], c, v), Says(new[j], c, w)
      PROVE  v <= w
  <2>0. v \in Nat /\ w \in Nat
    BY <1>0
  <2>1. CASE i \in 1 .. Len(s) /\ Says(s[i], c, v) /\ v <= mid
    <3>1. CASE j \in 1 .. Len(s) /\ Says(s[j], c, w)
      BY <1>4, <2>1, <3>1 DEF Feeds
    <3>2. CASE mid <= w
      BY <1>0, <2>0, <2>1, <3>2
    <3>3. QED
      BY <1>2, <1>4, <3>1, <3>2
  <2>2. CASE i - Len(s) \in 1 .. Len(t) /\ Says(t[i - Len(s)], c, v)
    <3>1. j - Len(s) \in 1 .. Len(t) /\ Says(t[j - Len(s)], c, w)
      <4>1. j \notin 1 .. Len(s)
        BY <1>1, <1>4, <2>2
      <4>2. QED
        BY <1>2, <1>4, <4>1
    <3>2. i - Len(s) <= j - Len(s)
      BY <1>1, <1>4
    <3>3. QED
      BY <2>2, <3>1, <3>2 DEF Feeds
  <2>3. QED
    BY <1>2, <1>4, <2>1, <2>2
<1>5. lo = hi \/ \E i \in 1 .. Len(new) : Says(new[i], c, hi)
  <2>1. CASE mid = hi
    BY <1>1, <2>1 DEF Feeds
  <2>2. ASSUME NEW i \in 1 .. Len(t), Says(t[i], c, hi)
        PROVE  \E k \in 1 .. Len(new) : Says(new[k], c, hi)
    <3>1. Len(s) + i \in 1 .. Len(new) /\ new[Len(s) + i] = t[i]
      BY <1>1
    <3>2. QED
      BY <2>2, <3>1
  <2>3. QED
    BY <2>1, <2>2 DEF Feeds
<1>6. Feeds(new, c, lo, hi)
  BY <1>3, <1>4, <1>5 DEF Feeds
<1> QED
  BY <1>6 DEF new

\* The first message leaves it, and the receiver has what it says.
LEMMA FeedsPop ==
    ASSUME NEW M, NEW link \in Seq(M), link # << >>, NEW c,
           NEW lo \in Version, NEW hi \in Version, NEW new \in Version,
           Feeds(link, c, lo, hi),
           Says(Head(link), c, new) \/ (Silent(Head(link), c) /\ new = lo)
    PROVE  lo <= new /\ Feeds(Tail(link), c, new, hi)
<1> DEFINE rest == Tail(link)
<1>0. lo \in Nat /\ new \in Nat /\ hi \in Nat /\ Version \subseteq Nat
  BY CellsAre DEF Version
<1>1. /\ Len(rest) = Len(link) - 1 /\ Len(link) \in Nat \ {0}
      /\ 1 \in 1 .. Len(link) /\ Head(link) = link[1]
      /\ \A i \in 1 .. Len(link) - 1 : rest[i] = link[i + 1] /\ i + 1 \in 1 .. Len(link)
  BY TailIs
<1> HIDE DEF rest
<1>2. lo <= new
  BY <1>0, <1>1 DEF Feeds
<1>3. ASSUME NEW i \in 1 .. Len(rest), NEW v \in Version, Says(rest[i], c, v)
      PROVE  new <= v /\ v <= hi
  <2>1. rest[i] = link[i + 1] /\ i + 1 \in 1 .. Len(link) /\ 1 <= i + 1
    BY <1>1
  <2>2. lo <= v /\ v <= hi
    BY <1>3, <2>1 DEF Feeds
  <2>3. Says(link[1], c, new) => new <= v
    BY <1>1, <1>3, <2>1 DEF Feeds
  <2>4. QED
    BY <1>1, <2>2, <2>3
<1>4. ASSUME NEW i \in 1 .. Len(rest), NEW j \in 1 .. Len(rest),
             NEW v \in Version, NEW w \in Version,
             i <= j, Says(rest[i], c, v), Says(rest[j], c, w)
      PROVE  v <= w
  <2>1. /\ rest[i] = link[i + 1] /\ i + 1 \in 1 .. Len(link)
        /\ rest[j] = link[j + 1] /\ j + 1 \in 1 .. Len(link) /\ i + 1 <= j + 1
    BY <1>1, <1>4
  <2>2. QED
    BY <1>4, <2>1 DEF Feeds
<1>5. new = hi \/ \E i \in 1 .. Len(rest) : Says(rest[i], c, hi)
  <2>1. ASSUME NEW i \in 1 .. Len(link), Says(link[i], c, hi)
        PROVE  new = hi \/ \E k \in 1 .. Len(rest) : Says(rest[k], c, hi)
    <3>1. CASE i = 1
      <4>1. ~Silent(link[1], c)
        BY <2>1, <3>1 DEF Silent
      <4>2. Says(link[1], c, new)
        BY <1>1, <4>1
      <4>3. new <= hi /\ hi <= new
        BY <1>1, <2>1, <3>1, <4>2 DEF Feeds
      <4>4. QED
        BY <1>0, <4>3
    <3>2. CASE i # 1
      <4>1. i - 1 \in 1 .. Len(rest) /\ rest[i - 1] = link[i]
        BY <1>1, <3>2
      <4>2. QED
        BY <2>1, <4>1
    <3>3. QED
      BY <3>1, <3>2
  <2>2. CASE lo = hi
    <3>1. Says(link[1], c, new) => new <= hi
      BY <1>1 DEF Feeds
    <3>2. QED
      BY <1>0, <1>1, <1>2, <2>2, <3>1
  <2>3. QED
    BY <2>1, <2>2 DEF Feeds
<1>6. Feeds(rest, c, new, hi)
  BY <1>3, <1>4, <1>5 DEF Feeds
<1> QED
  BY <1>2, <1>6 DEF rest

\* A diff says of a cell what it holds, and adopts just that: laid end to end
\* with what was known, its messages feed the other side.
LEMMA DiffFeeds ==
    ASSUME NEW live \in Memory, NEW known \in Memory, NEW cells \in SUBSET Cells,
           NEW c \in Cells, known[c] <= live[c]
    PROVE  LET sent == DataMessages(Runs(live, cells))
               hi == Adopt(known, live, cells)[c]
           IN /\ known[c] <= hi /\ hi <= live[c] /\ hi \in Version
              /\ Feeds(sent, c, known[c], hi)
<1> DEFINE runs == Runs(live, cells)
           sent == DataMessages(runs)
           hi == Adopt(known, live, cells)[c]
<1>0. /\ live[c] \in Version /\ known[c] \in Version
      /\ live[c] \in Nat /\ known[c] \in Nat
  BY CellsAre DEF Memory, Version
<1>1. hi = IF c \in cells THEN live[c] ELSE known[c]
  BY DEF Adopt
<1>2. /\ runs \in Seq(Run)
      /\ \A i \in 1 .. Len(runs) :
           /\ DOMAIN runs[i] \subseteq cells
           /\ \A d \in DOMAIN runs[i] : runs[i][d] = live[d]
      /\ \A d \in cells : \E i \in 1 .. Len(runs) : d \in DOMAIN runs[i]
  BY RunsAre
<1>3. /\ Len(sent) = Len(runs)
      /\ \A i \in 1 .. Len(runs) : sent[i].type = "BlobData" /\ sent[i].run = runs[i]
  BY <1>2, DataMessagesAre
<1> HIDE DEF runs, sent, hi
<1>4. \A i \in 1 .. Len(sent), v \in Version :
         Says(sent[i], c, v) <=> c \in DOMAIN runs[i] /\ v = live[c]
  <2> SUFFICES ASSUME NEW i \in 1 .. Len(sent), NEW v \in Version
               PROVE  Says(sent[i], c, v) <=> c \in DOMAIN runs[i] /\ v = live[c]
    OBVIOUS
  <2>1. sent[i].type = "BlobData" /\ sent[i].run = runs[i]
    BY <1>3
  <2>2. c \in DOMAIN runs[i] => runs[i][c] = live[c]
    BY <1>2, <1>3
  <2>3. QED
    BY <2>1, <2>2 DEF Says
<1>5. ASSUME c \in cells PROVE Feeds(sent, c, known[c], hi)
  <2>1. \E i \in 1 .. Len(sent) : Says(sent[i], c, hi)
    BY <1>0, <1>1, <1>2, <1>3, <1>4, <1>5
  <2>2. Feeds(sent, c, known[c], hi)
    BY <1>0, <1>1, <1>4, <1>5, <2>1 DEF Feeds
  <2>3. QED
    BY <2>2
<1>6. ASSUME c \notin cells PROVE Feeds(sent, c, known[c], hi)
  <2>1. \A i \in 1 .. Len(sent), v \in Version : ~Says(sent[i], c, v)
    BY <1>2, <1>3, <1>4, <1>6
  <2>2. Feeds(sent, c, known[c], hi)
    BY <1>0, <1>1, <1>6, <2>1 DEF Feeds
  <2>3. QED
    BY <2>2
<1>7. known[c] <= hi /\ hi <= live[c] /\ hi \in Version
  BY <1>0, <1>1
<1>8. Feeds(sent, c, known[c], hi)
  BY <1>5, <1>6
<1> QED
  BY <1>7, <1>8, Zenon DEF hi, sent, runs

\* The answer to a creation does the same in one message.
LEMMA CreatedFeeds ==
    ASSUME NEW live \in Memory, NEW known \in Memory, NEW cells \in SUBSET Cells,
           NEW c \in Cells, known[c] <= live[c]
    PROVE  Feeds(<< BlobCreated(Runs(live, cells)) >>, c, known[c],
                 Adopt(known, live, cells)[c])
<1> DEFINE runs == Runs(live, cells)
           m == BlobCreated(runs)
           hi == Adopt(known, live, cells)[c]
<1>0. /\ live[c] \in Version /\ known[c] \in Version
      /\ live[c] \in Nat /\ known[c] \in Nat
  BY CellsAre DEF Memory, Version
<1>1. hi = IF c \in cells THEN live[c] ELSE known[c]
  BY DEF Adopt
<1>2. /\ runs \in Seq(Run)
      /\ \A i \in 1 .. Len(runs) :
           /\ DOMAIN runs[i] \subseteq cells
           /\ \A d \in DOMAIN runs[i] : runs[i][d] = live[d]
      /\ \A d \in cells : \E i \in 1 .. Len(runs) : d \in DOMAIN runs[i]
  BY RunsAre
<1>3. m.type = "BlobCreated" /\ m.initial = runs
  BY <1>2, S2CMessageIs
<1> HIDE DEF runs, m, hi
<1>4. \A v \in Version : Says(m, c, v) <=> c \in cells /\ v = live[c]
  <2> SUFFICES ASSUME NEW v \in Version PROVE Says(m, c, v) <=> c \in cells /\ v = live[c]
    OBVIOUS
  <2>1. Says(m, c, v) => c \in cells /\ v = live[c]
    BY <1>2, <1>3 DEF Says
  <2>2. ASSUME c \in cells, v = live[c] PROVE Says(m, c, v)
    <3>1. PICK i \in 1 .. Len(runs) : c \in DOMAIN runs[i]
      BY <1>2, <2>2
    <3>2. runs[i][c] = v
      BY <1>2, <2>2, <3>1
    <3>3. QED
      BY <1>3, <3>1, <3>2 DEF Says
  <2>3. QED
    BY <2>1, <2>2
<1>5. Feeds(<< m >>, c, known[c], hi)
  <2>1. Len(<< m >>) = 1 /\ << m >>[1] = m /\ \A i \in 1 .. 1 : i = 1
    OBVIOUS
  <2>2. \A i \in 1 .. Len(<< m >>), v \in Version :
           Says(<< m >>[i], c, v) <=> c \in cells /\ v = live[c]
    BY <1>4, <2>1
  <2>3. \A i \in 1 .. Len(<< m >>), v \in Version :
           Says(<< m >>[i], c, v) => known[c] <= v /\ v <= hi
    BY <1>0, <1>1, <2>2
  <2>4. \A i, j \in 1 .. Len(<< m >>), v, w \in Version :
           i <= j /\ Says(<< m >>[i], c, v) /\ Says(<< m >>[j], c, w) => v <= w
    BY <1>0, <2>2
  <2>5. known[c] = hi \/ \E i \in 1 .. Len(<< m >>) : Says(<< m >>[i], c, hi)
    <3>1. CASE c \in cells
      <4>1. hi = live[c] /\ hi \in Version /\ 1 \in 1 .. Len(<< m >>)
        BY <1>0, <1>1, <2>1, <3>1
      <4>2. Says(<< m >>[1], c, hi)
        BY <2>2, <3>1, <4>1
      <4>3. QED
        BY <4>1, <4>2
    <3>2. CASE c \notin cells
      BY <1>1, <3>2
    <3>3. QED
      BY <3>1, <3>2
  <2>6. QED
    BY <2>3, <2>4, <2>5 DEF Feeds
<1> QED
  BY <1>5 DEF runs, m, hi

\* A run laid over a mapping.
LEMMA OverIs ==
    ASSUME NEW run \in Run, NEW mem \in Memory
    PROVE  /\ Over(run, mem) \in Memory
           /\ \A c \in Cells :
                Over(run, mem)[c] = IF c \in DOMAIN run THEN run[c] ELSE mem[c]
<1>1. \A c \in Cells : (IF c \in DOMAIN run THEN run[c] ELSE mem[c]) \in Version
  BY RunIs DEF Memory, Version
<1> QED
  BY <1>1 DEF Over, Memory, Version

\* What a diff's runs do to a mapping: each cell they hold gets what one of
\* them says.
LEMMA LaidIs ==
    ASSUME NEW runs \in Seq(Run), NEW mem \in Memory
    PROVE  /\ Laid(runs, mem) \in Memory
           /\ \A c \in Cells :
                \/ Says(BlobCreated(runs), c, Laid(runs, mem)[c])
                \/ /\ \A i \in 1 .. Len(runs) : c \notin DOMAIN runs[i]
                   /\ Laid(runs, mem)[c] = mem[c]
           /\ \A other \in Memory, c \in Cells :
                mem[c] = other[c] => Laid(runs, mem)[c] = Laid(runs, other)[c]
<1> DEFINE holding(c) == {i \in 1 .. Len(runs) : c \in DOMAIN runs[i]}
           last(c) == CHOOSE i \in holding(c) : TRUE
<1>1. \A m, c : c \in Cells =>
         Laid(runs, m)[c] = IF holding(c) = {} THEN m[c] ELSE runs[last(c)][c]
  BY DEF Laid
<1>2. \A c : holding(c) # {} => last(c) \in 1 .. Len(runs) /\ c \in DOMAIN runs[last(c)]
  OBVIOUS
<1>3. Laid(runs, mem) = [c \in Cells |-> Laid(runs, mem)[c]]
  BY DEF Laid
<1>4. \A c \in Cells : mem[c] \in Version
  BY DEF Memory, Version
<1>5. \A c : holding(c) = {} => \A i \in 1 .. Len(runs) : c \notin DOMAIN runs[i]
  OBVIOUS
<1> HIDE DEF holding, last
<1>6. ASSUME NEW c \in Cells, holding(c) # {}
      PROVE  /\ Laid(runs, mem)[c] \in Version
             /\ Says(BlobCreated(runs), c, Laid(runs, mem)[c])
  <2>1. runs[last(c)] \in Run /\ last(c) \in 1 .. Len(runs) /\ c \in DOMAIN runs[last(c)]
    BY <1>2, <1>6
  <2>2. Laid(runs, mem)[c] = runs[last(c)][c]
    BY <1>1, <1>6
  <2>3. QED
    BY <2>1, <2>2, RunIs, S2CMessageIs DEF Says
<1>7. ASSUME NEW c \in Cells PROVE Laid(runs, mem)[c] \in Version
  BY <1>1, <1>4, <1>6
<1>8. Laid(runs, mem) \in [Cells -> Version]
  BY <1>3, <1>7
<1>9. ASSUME NEW c \in Cells
      PROVE  \/ Says(BlobCreated(runs), c, Laid(runs, mem)[c])
             \/ /\ \A i \in 1 .. Len(runs) : c \notin DOMAIN runs[i]
                /\ Laid(runs, mem)[c] = mem[c]
  BY <1>1, <1>5, <1>6
<1>10. \A other \in Memory, c \in Cells :
         mem[c] = other[c] => Laid(runs, mem)[c] = Laid(runs, other)[c]
  BY <1>1
<1> QED
  BY <1>8, <1>9, <1>10 DEF Memory, Version

-----------------------------------------------------------------------------
(* The invariant.                                                          *)

Types ==
    /\ internal \in Internals
    /\ phase \in {"none", "asked", "live", "gone"}
    /\ pending \in BOOLEAN /\ reply \in BOOLEAN /\ inTable \in BOOLEAN
    /\ hasBase \in BOOLEAN /\ names \in BOOLEAN /\ named \in BOOLEAN
    /\ cRefused \in BOOLEAN /\ sRefused \in BOOLEAN
    /\ cmem \in Memory /\ base \in Memory /\ smem \in Memory /\ shadow \in Memory
    /\ written \in Memory
    /\ wpc \in {"take", "diff", "ship"} /\ relays \in 0 .. MaxRelay
    /\ spc \in {"recv", "answer"} /\ sphase \in {"none", "live", "gone"}
    /\ ppc \in {"poll", "ship"}
    /\ c2s \in Seq(C2SMessage) /\ batch \in Seq(C2SMessage)
    /\ s2c \in Seq(S2CMessage) /\ news \in Seq(S2CMessage)
    /\ answer \in Seq(Run)

\* A message of a type is on a link.
Carries(link, type) == \E i \in 1 .. Len(link) : link[i].type = type

\* How far the creation has come, and the giving up.
Stages ==
    /\ pending <=> phase = "asked" /\ ~reply
    /\ reply => phase = "asked"
    /\ inTable <=> phase = "live" \/ reply
    /\ sphase = "none" <=> phase = "none" \/ Carries(c2s, "CreateBlob")
    /\ sphase = "gone" => phase = "gone"
    /\ phase = "gone" => sphase = "gone" \/ Carries(c2s, "UnrefResource")

\* What is on the link to S and in the watcher's hands.
Outbound ==
    /\ \A i \in 1 .. Len(c2s) : c2s[i].type = "CreateBlob" =>
         pending /\ \A j \in 1 .. Len(c2s) : c2s[j].type = "CreateBlob" => i = j
    /\ Carries(c2s, "UnrefResource") => phase = "gone"
    /\ ~Carries(batch, "CreateBlob") /\ ~Carries(batch, "UnrefResource")
    /\ Carries(c2s, "BlobData") \/ Carries(batch, "BlobData")
         => phase # "none" /\ ~pending
    /\ wpc # "ship" => batch = << >>

\* What is on the link to C and in the hands of S's threads: BlobCreated is
\* ahead of the blob's data.
Inbound ==
    /\ sphase = "none" => spc = "recv" /\ s2c = << >> /\ news = << >>
    /\ spc = "answer" => sphase = "live" /\ pending /\ s2c = << >> /\ news = << >>
    /\ pending /\ sphase # "none" /\ spc = "recv"
         => s2c # << >> /\ s2c[1].type = "BlobCreated"
    /\ \A i \in 1 .. Len(s2c) : s2c[i].type = "BlobCreated" => i = 1 /\ pending
    /\ \A i \in 1 .. Len(news) : news[i].type = "BlobData"
    /\ ppc = "poll" => news = << >>

Handshake == Stages /\ Outbound /\ Inbound /\ KnownBeforeFed

\* The delta that names the blob.
Naming == RingDelta(TRUE)

\* What the watcher and S's message thread have still to do with a blob that
\* has no baseline: only a blob given up is named.
Unnamed ==
    /\ named => sphase = "gone"
    /\ wpc = "diff" /\ names => phase \in {"live", "gone"}
    /\ \A i \in 1 .. Len(batch) : batch[i] = Naming => phase = "gone"
    /\ \A i \in 1 .. Len(c2s) : c2s[i] = Naming =>
         sphase = "gone" \/ \E j \in 1 .. i - 1 : c2s[j].type = "UnrefResource"

\* ... and S has said nothing of it.
Unwritten ==
    /\ \A c \in GpuCells : smem[c] = 0 /\ shadow[c] = 0
    /\ ~Carries(s2c, "BlobData") /\ news = << >> /\ answer = << >>
    /\ \A i \in 1 .. Len(s2c) : s2c[i].type = "BlobCreated" => s2c[i].initial = << >>

\* A blob without a baseline is an internal one nobody has touched: S runs no
\* command that names it before the watcher has diffed it, unless the
\* application gave it up first.
Untouched == ~hasBase => internal /\ base = Zeros /\ Unwritten /\ Unnamed

\* Whose cells are whose: C's mapping differs from its baseline, and S's from
\* its shadow, only where that side writes.
Ownership ==
    /\ \A c \in CpuCells : smem[c] = shadow[c]
    /\ sphase = "none" => shadow = Zeros
    /\ \A c \in GpuCells : cmem[c] = Baseline[c]
    /\ \A i \in 1 .. Len(c2s) : c2s[i].type = "BlobData" => DOMAIN c2s[i].run \subseteq CpuCells
    /\ \A i \in 1 .. Len(batch) : batch[i].type = "BlobData" => DOMAIN batch[i].run \subseteq CpuCells

\* Where coalescing ships no cell of the application's.
Apart ==
    internal \/ \A a, b \in GpuCells :
                  a < b /\ b - a - 1 <= Gap => a + 1 .. b - 1 \subseteq GpuCells

\* What is on its way to C; the answer in hand is as good as sent.
Way == IF spc = "answer" THEN << BlobCreated(answer) >> ELSE s2c

\* S sends nothing of the application's cells.
Theirs ==
    \A c \in CpuCells :
      /\ \A i \in 1 .. Len(Way) : Silent(Way[i], c)
      /\ \A i \in 1 .. Len(news) : Silent(news[i], c)

\* Each cell's versions, from its writer to the other side's mapping.
Versions ==
    /\ \A c \in GpuCells : written[c] = smem[c] /\ shadow[c] <= smem[c]
    /\ \A c \in CpuCells : written[c] = cmem[c] /\ Baseline[c] <= cmem[c]

ToC ==
    phase # "gone" => \A c \in GpuCells : \E mid \in Version :
      /\ cmem[c] <= mid /\ mid <= shadow[c]
      /\ Feeds(Way, c, cmem[c], mid) /\ Feeds(news, c, mid, shadow[c])

ToS ==
    sphase # "gone" => \A c \in CpuCells : \E mid \in Version :
      /\ smem[c] <= mid /\ mid <= Baseline[c]
      /\ Feeds(c2s, c, smem[c], mid) /\ Feeds(batch, c, mid, Baseline[c])

Mirror == Apart => Theirs /\ Versions /\ ToC /\ ToS

IInv == Types /\ Handshake /\ Untouched /\ Ownership /\ Mirror

-----------------------------------------------------------------------------
(* Types.                                                                  *)

\* What a link carries once a message has joined it ...
LEMMA CarriesPush ==
    ASSUME NEW M, NEW s \in Seq(M), NEW m \in M, NEW type
    PROVE  Carries(Append(s, m), type) <=> Carries(s, type) \/ m.type = type
<1>1. /\ Len(Append(s, m)) = Len(s) + 1 /\ Len(s) \in Nat
      /\ Append(s, m)[Len(s) + 1] = m
      /\ \A i \in 1 .. Len(s) : Append(s, m)[i] = s[i]
  BY AppendIs
<1> QED
  BY <1>1 DEF Carries

\* ... what it carried before its first message left it ...
LEMMA CarriesPop ==
    ASSUME NEW M, NEW s \in Seq(M), s # << >>, NEW type
    PROVE  Carries(s, type) <=> Head(s).type = type \/ Carries(Tail(s), type)
<1>1. /\ Len(Tail(s)) = Len(s) - 1 /\ Len(s) \in Nat \ {0}
      /\ 1 \in 1 .. Len(s) /\ Head(s) = s[1]
      /\ \A i \in 1 .. Len(s) - 1 : Tail(s)[i] = s[i + 1] /\ i + 1 \in 1 .. Len(s)
  BY TailIs
<1>2. ASSUME NEW i \in 1 .. Len(s), s[i].type = type, i # 1
      PROVE  Carries(Tail(s), type)
  <2>1. i - 1 \in 1 .. Len(Tail(s)) /\ Tail(s)[i - 1] = s[i]
    BY <1>1, <1>2
  <2>2. QED
    BY <1>2, <2>1 DEF Carries
<1>3. Carries(s, type) => Head(s).type = type \/ Carries(Tail(s), type)
  BY <1>1, <1>2 DEF Carries
<1>4. Head(s).type = type \/ Carries(Tail(s), type) => Carries(s, type)
  BY <1>1 DEF Carries
<1> QED
  BY <1>3, <1>4

\* ... and what it carries once a batch has joined it.
LEMMA CarriesJoin ==
    ASSUME NEW M, NEW s \in Seq(M), NEW t \in Seq(M), NEW type
    PROVE  Carries(s \o t, type) <=> Carries(s, type) \/ Carries(t, type)
<1>1. /\ Len(s \o t) = Len(s) + Len(t) /\ Len(s) \in Nat /\ Len(t) \in Nat
      /\ \A i \in 1 .. Len(s) : (s \o t)[i] = s[i]
      /\ \A i \in 1 .. Len(t) : (s \o t)[Len(s) + i] = t[i]
      /\ \A i \in 1 .. Len(s \o t) :
                \/ i \in 1 .. Len(s) /\ (s \o t)[i] = s[i]
                \/ i - Len(s) \in 1 .. Len(t) /\ (s \o t)[i] = t[i - Len(s)]
  BY ConcatIs
<1>2. \A i \in 1 .. Len(t) : Len(s) + i \in 1 .. Len(s \o t)
  BY <1>1
<1>3. \A i \in 1 .. Len(s) : i \in 1 .. Len(s \o t)
  BY <1>1
<1> QED
  BY <1>1, <1>2, <1>3 DEF Carries

\* An empty link carries nothing.
LEMMA CarriesNothing == \A type : ~Carries(<< >>, type)
  BY DEF Carries

\* What a diff is computed from and what it adopts are mappings.
LEMMA MappingsAre ==
    /\ Zeros \in Memory
    /\ \A live, known : /\ Changed(live, known) \in SUBSET Cells
                        /\ \A gap : Shipped(Changed(live, known), gap) \in SUBSET Cells
    /\ \A live, known \in Memory, cells \in SUBSET Cells : Adopt(known, live, cells) \in Memory
    /\ Types => Baseline \in Memory
<1>1. Zeros \in Memory
  BY CellsAre DEF Zeros, Memory
<1>2. \A live, known : Changed(live, known) \in SUBSET Cells
  BY DEF Changed
<1>3. \A live, known, gap : Shipped(Changed(live, known), gap) \in SUBSET Cells
  BY <1>2 DEF Shipped
<1>4. \A live, known \in Memory, cells \in SUBSET Cells : Adopt(known, live, cells) \in Memory
  BY DEF Adopt, Memory
<1>5. Types => Baseline \in Memory
  BY <1>1 DEF Types, Baseline
<1> QED
  BY <1>1, <1>2, <1>3, <1>4, <1>5

\* Every step keeps every variable's type.
LEMMA TypesStep == Types /\ [Next]_vars => Types'
<1> SUFFICES ASSUME Types, [Next]_vars PROVE Types'
  OBVIOUS
<1> USE DEF Types, vars, vtestVars, tableVars, watcherVars, messageVars,
            sharedVars, progressVars
<1>0. internal \in BOOLEAN
  BY CellsAre
<1>m. \A c \in Cells : cmem[c] \in 0 .. MaxVer /\ smem[c] \in 0 .. MaxVer /\ written[c] \in 0 .. MaxVer
  BY DEF Memory
<1>1. CASE AskForBlob /\ UNCHANGED internal
  BY <1>1, AppendIs, C2SMessageIs DEF AskForBlob
<1>2. CASE ReceiveBlob /\ UNCHANGED internal
  <2>1. /\ reply' = FALSE /\ phase' = "live"
        /\ UNCHANGED <<internal, pending, tableVars, watcherVars, c2s, s2c, messageVars,
                       sharedVars, progressVars, cRefused, sRefused, written>>
    BY <1>2 DEF ReceiveBlob
  <2>2. reply' \in BOOLEAN
    BY <2>1
  <2>3. QED
    BY <2>1, <2>2
<1>3. CASE CpuWrite /\ UNCHANGED internal
  <2>1. PICK c \in CpuCells :
          /\ written[c] < MaxVer
          /\ written' = [written EXCEPT ![c] = @ + 1]
          /\ cmem' = [cmem EXCEPT ![c] = written[c] + 1]
    BY <1>3 DEF CpuWrite
  <2>2. c \in Cells /\ written[c] + 1 \in 0 .. MaxVer
    BY <1>m, <2>1, CellsAre
  <2>3. written' \in Memory /\ cmem' \in Memory
    BY <2>1, <2>2 DEF Memory
  <2>4. QED
    BY <1>3, <2>3 DEF CpuWrite
<1>4. CASE UnrefBlob /\ UNCHANGED internal
  <2>1. /\ phase' = "gone" /\ inTable' = FALSE /\ c2s' = Append(c2s, UnrefResource)
        /\ UNCHANGED <<internal, pending, reply, cmem, base, hasBase, watcherVars, s2c,
                       messageVars, sharedVars, progressVars, cRefused, sRefused, written>>
    BY <1>4 DEF UnrefBlob
  <2>2. inTable' \in BOOLEAN
    BY <2>1
  <2>3. c2s' \in Seq(C2SMessage)
    BY <2>1, AppendIs, C2SMessageIs
  <2>4. QED
    BY <2>1, <2>2, <2>3
<1>5. CASE TakeDelta /\ UNCHANGED internal
  <2>1. names' \in BOOLEAN
    BY <1>5 DEF TakeDelta
  <2>2. relays' \in 0 .. MaxRelay
    BY <1>5, BlobAssumption DEF TakeDelta
  <2>3. /\ wpc' = "diff"
        /\ UNCHANGED <<internal, batch, vtestVars, tableVars, c2s, s2c, messageVars,
                       sharedVars, progressVars, cRefused, sRefused, written>>
    BY <1>5 DEF TakeDelta
  <2>4. QED
    BY <2>1, <2>2, <2>3
<1>6. CASE MessagesForDelta /\ UNCHANGED internal
  <2>1. RingDelta(names) \in C2SMessage
    BY C2SMessageIs
  <2> DEFINE changed == Changed(cmem, Baseline)
             runs == Runs(cmem, changed)
  <2>2. Baseline \in Memory /\ changed \in SUBSET Cells
    BY MappingsAre, Zenon
  <2>3. runs \in Seq(Run)
    BY <2>2, RunsAre
  <2>4. DataMessages(runs) \in Seq(C2SMessage)
    BY <2>3, DataMessagesAre
  <2>5. Append(DataMessages(runs), RingDelta(names)) \in Seq(C2SMessage)
    BY <2>1, <2>4, AppendIs
  <2>6. Adopt(Baseline, cmem, changed) \in Memory
    BY <2>2, MappingsAre
  <2> HIDE DEF changed, runs
  <2>7. << RingDelta(names) >> \in Seq(C2SMessage)
    BY <2>1
  <2>8. batch' \in Seq(C2SMessage) /\ base' \in Memory /\ hasBase' \in BOOLEAN
    <3>1. CASE inTable
      BY <1>6, <2>5, <2>6, <3>1 DEF MessagesForDelta, changed, runs
    <3>2. CASE ~inTable
      BY <1>6, <2>7, <3>2 DEF MessagesForDelta
    <3>3. QED
      BY <3>1, <3>2
  <2>9. /\ wpc' = "ship"
        /\ UNCHANGED <<internal, names, relays, inTable, cmem, vtestVars, c2s, s2c,
                       messageVars, sharedVars, progressVars, cRefused, sRefused, written>>
    BY <1>6 DEF MessagesForDelta
  <2>10. QED
    BY <2>8, <2>9
<1>7. CASE ShipBatch /\ UNCHANGED internal
  <2>1. c2s' \in Seq(C2SMessage) /\ batch' \in Seq(C2SMessage)
    BY <1>7, ConcatIs DEF ShipBatch
  <2>2. QED
    BY <1>7, <2>1 DEF ShipBatch
<1>8. CASE CommitPendingBlob /\ UNCHANGED internal
  <2>1. s2c # << >> /\ Head(s2c).type = "BlobCreated"
    BY <1>8 DEF CommitPendingBlob, Incoming
  <2>2. Tail(s2c) \in Seq(S2CMessage) /\ Head(s2c) \in S2CMessage
    BY <2>1, TailIs
  <2>3. Head(s2c).initial \in Seq(Run)
    BY <2>1, <2>2, S2CMessageIs
  <2>4. Laid(Head(s2c).initial, cmem) \in Memory /\ Laid(Head(s2c).initial, base) \in Memory
    BY <2>3, LaidIs
  <2>5. cmem' \in Memory /\ base' \in Memory /\ s2c' \in Seq(S2CMessage)
    BY <1>8, <2>2, <2>4 DEF CommitPendingBlob
  <2>6. /\ inTable' = pending /\ pending' = FALSE /\ reply' = TRUE
        /\ UNCHANGED <<internal, phase, hasBase, watcherVars, c2s, messageVars, sharedVars,
                       progressVars, cRefused, sRefused, written>>
    BY <1>8 DEF CommitPendingBlob
  <2>7. inTable' \in BOOLEAN /\ pending' \in BOOLEAN /\ reply' \in BOOLEAN
    BY <2>6
  <2>8. UNCHANGED <<internal, phase, hasBase, watcherVars, c2s, messageVars, sharedVars,
                    progressVars, cRefused, sRefused, written>>
    BY <2>6
  <2>9. QED
    BY <2>5, <2>7, <2>8
<1>9. CASE ApplyBlobData /\ UNCHANGED internal
  <2>1. s2c # << >> /\ Head(s2c).type = "BlobData"
    BY <1>9 DEF ApplyBlobData, Incoming
  <2>2. Tail(s2c) \in Seq(S2CMessage) /\ Head(s2c) \in S2CMessage
    BY <2>1, TailIs
  <2>3. Head(s2c).run \in Run
    BY <2>1, <2>2, S2CMessageIs
  <2>4. Over(Head(s2c).run, cmem) \in Memory /\ Over(Head(s2c).run, base) \in Memory
    BY <2>3, OverIs
  <2>5. cmem' \in Memory /\ base' \in Memory /\ s2c' \in Seq(S2CMessage)
    BY <1>9, <2>2, <2>4 DEF ApplyBlobData
  <2>6. /\ cRefused' \in BOOLEAN
        /\ UNCHANGED <<internal, inTable, hasBase, vtestVars, watcherVars, c2s, messageVars,
                       sharedVars, progressVars, sRefused, written>>
    BY <1>9 DEF ApplyBlobData
  <2>7. QED
    BY <2>5, <2>6
<1>10. CASE ReceiveCreate /\ UNCHANGED internal
  <2>1. c2s # << >> /\ Tail(c2s) \in Seq(C2SMessage)
    BY <1>10, TailIs DEF ReceiveCreate, Requested
  <2> DEFINE changed == Changed(smem, Zeros)
  <2>2. changed \in SUBSET Cells /\ Zeros \in Memory
    BY MappingsAre
  <2>3. Runs(smem, changed) \in Seq(Run)
    BY <2>2, RunsAre
  <2>4. Adopt(Zeros, smem, changed) \in Memory
    BY <2>2, MappingsAre
  <2>5. answer' \in Seq(Run) /\ shadow' \in Memory
    BY <1>10, <2>3, <2>4 DEF ReceiveCreate
  <2>6. QED
    BY <1>10, <2>1, <2>5 DEF ReceiveCreate
<1>11. CASE AnswerCreate /\ UNCHANGED internal
  <2>1. BlobCreated(answer) \in S2CMessage
    BY S2CMessageIs
  <2>2. s2c' \in Seq(S2CMessage)
    BY <1>11, <2>1, AppendIs DEF AnswerCreate
  <2>3. << >> \in Seq(Run)
    OBVIOUS
  <2>4. QED
    BY <1>11, <2>2, <2>3 DEF AnswerCreate
<1>12. CASE CopyIn /\ UNCHANGED internal
  <2>1. c2s # << >> /\ Head(c2s).type = "BlobData"
    BY <1>12 DEF CopyIn, Requested
  <2>2. Tail(c2s) \in Seq(C2SMessage) /\ Head(c2s) \in C2SMessage
    BY <2>1, TailIs
  <2>3. Head(c2s).run \in Run
    BY <2>1, <2>2, C2SMessageIs
  <2>4. Over(Head(c2s).run, smem) \in Memory /\ Over(Head(c2s).run, shadow) \in Memory
    BY <2>3, OverIs
  <2>5. smem' \in Memory /\ shadow' \in Memory /\ sRefused' \in BOOLEAN
    BY <1>12, <2>4 DEF CopyIn
  <2>6. /\ c2s' = Tail(c2s)
        /\ UNCHANGED <<internal, spc, answer, sphase, named, vtestVars, tableVars, watcherVars,
                       s2c, progressVars, cRefused, written>>
    BY <1>12 DEF CopyIn
  <2>7. QED
    BY <2>2, <2>5, <2>6
<1>13. CASE ReceiveDelta /\ UNCHANGED internal
  <2>1. c2s # << >> /\ Head(c2s).type = "RingDelta"
    BY <1>13 DEF ReceiveDelta, Requested
  <2>2. Tail(c2s) \in Seq(C2SMessage) /\ Head(c2s) \in C2SMessage
    BY <2>1, TailIs
  <2>3. Head(c2s).names \in BOOLEAN
    BY <2>1, <2>2, C2SMessageIs
  <2>4. named' \in BOOLEAN
    BY <1>13, <2>3 DEF ReceiveDelta
  <2>5. QED
    BY <1>13, <2>2, <2>4 DEF ReceiveDelta
<1>14. CASE ReceiveUnref /\ UNCHANGED internal
  <2>1. c2s # << >> /\ Tail(c2s) \in Seq(C2SMessage)
    BY <1>14, TailIs DEF ReceiveUnref, Requested
  <2>2. QED
    BY <1>14, <2>1 DEF ReceiveUnref
<1>15. CASE EngineWrite /\ UNCHANGED internal
  <2>1. PICK c \in GpuCells :
          /\ written[c] < MaxVer
          /\ written' = [written EXCEPT ![c] = @ + 1]
          /\ smem' = [smem EXCEPT ![c] = written[c] + 1]
    BY <1>15 DEF EngineWrite
  <2>2. c \in Cells /\ written[c] + 1 \in 0 .. MaxVer
    BY <1>m, <2>1, CellsAre
  <2>3. written' \in Memory /\ smem' \in Memory
    BY <2>1, <2>2 DEF Memory
  <2>4. QED
    BY <1>15, <2>3 DEF EngineWrite
<1>16. CASE TakeBytesSWrote /\ UNCHANGED internal
  <2> DEFINE cells == Shipped(Changed(smem, shadow), CoalesceGap)
  <2>1. cells \in SUBSET Cells
    BY MappingsAre
  <2>2. Runs(smem, cells) \in Seq(Run)
    BY <2>1, RunsAre
  <2>3. DataMessages(Runs(smem, cells)) \in Seq(S2CMessage)
    BY <2>2, DataMessagesAre
  <2>4. Adopt(shadow, smem, cells) \in Memory
    BY <2>1, MappingsAre
  <2>5. news' \in Seq(S2CMessage) /\ shadow' \in Memory
    BY <1>16, <2>3, <2>4 DEF TakeBytesSWrote
  <2>6. QED
    BY <1>16, <2>5 DEF TakeBytesSWrote
<1>17. CASE ShipNews /\ UNCHANGED internal
  <2>1. s2c' \in Seq(S2CMessage) /\ news' \in Seq(S2CMessage)
    BY <1>17, ConcatIs DEF ShipNews
  <2>2. QED
    BY <1>17, <2>1 DEF ShipNews
<1>18. CASE UNCHANGED vars
  BY <1>18
<1> QED
  BY <1>1, <1>2, <1>3, <1>4, <1>5, <1>6, <1>7, <1>8, <1>9, <1>10, <1>11, <1>12,
     <1>13, <1>14, <1>15, <1>16, <1>17, <1>18 DEF Next, Step

-----------------------------------------------------------------------------
(* The creation and the giving up.                                         *)

\* Every step keeps the creation and the giving up in step on both machines.
LEMMA HandshakeStep == Types /\ Handshake /\ [Next]_vars => Handshake'
<1> SUFFICES ASSUME Types, Handshake, [Next]_vars PROVE Handshake'
  OBVIOUS
<1> USE DEF vars, vtestVars, tableVars, watcherVars, messageVars, sharedVars, progressVars
<1>t. /\ pending \in BOOLEAN /\ reply \in BOOLEAN /\ inTable \in BOOLEAN
      /\ cRefused \in BOOLEAN /\ sRefused \in BOOLEAN
      /\ phase \in {"none", "asked", "live", "gone"}
      /\ spc \in {"recv", "answer"} /\ sphase \in {"none", "live", "gone"}
      /\ c2s \in Seq(C2SMessage) /\ batch \in Seq(C2SMessage)
      /\ s2c \in Seq(S2CMessage) /\ news \in Seq(S2CMessage)
      /\ answer \in Seq(Run)
  BY DEF Types
<1>h. Stages /\ Outbound /\ Inbound /\ KnownBeforeFed
  BY DEF Handshake
<1>1. CASE AskForBlob
  <2>1. /\ phase = "none" /\ phase' = "asked" /\ pending' = TRUE
        /\ c2s' = Append(c2s, CreateBlob)
        /\ UNCHANGED <<reply, inTable, wpc, batch, s2c, spc, answer, sphase, ppc, news,
                       cRefused, sRefused>>
    BY <1>1 DEF AskForBlob
  <2>2. /\ \A type : Carries(c2s', type) <=> Carries(c2s, type) \/ type = "CreateBlob"
        /\ Len(c2s') = Len(c2s) + 1 /\ Len(c2s) \in Nat
        /\ \A i \in 1 .. Len(c2s) : c2s'[i] = c2s[i]
    BY <1>t, <2>1, CarriesPush, AppendIs, C2SMessageIs
  <2>3. \A i \in 1 .. Len(c2s) : c2s[i].type # "CreateBlob"
    BY <1>t, <1>h, <2>1 DEF Outbound, Stages
  <2>4. Stages'
    BY <1>t, <1>h, <2>1, <2>2 DEF Stages
  <2>5. Outbound'
    <3>1. ~Carries(c2s, "BlobData") /\ ~Carries(batch, "BlobData")
      BY <1>h, <2>1 DEF Outbound
    <3>2. \A i \in 1 .. Len(c2s') : c2s'[i].type = "CreateBlob" => i = Len(c2s) + 1
      BY <2>2, <2>3
    <3>3. \A i \in 1 .. Len(c2s') : c2s'[i].type = "CreateBlob" =>
             pending' /\ \A j \in 1 .. Len(c2s') : c2s'[j].type = "CreateBlob" => i = j
      BY <2>1, <3>2
    <3>4. \A type : Carries(batch', type) <=> Carries(batch, type)
      BY <2>1 DEF Carries
    <3>5. QED
      BY <1>h, <2>1, <2>2, <3>1, <3>3, <3>4 DEF Outbound
  <2>6. Inbound'
    BY <1>t, <1>h, <2>1 DEF Inbound, Stages
  <2>7. KnownBeforeFed'
    BY <1>h, <2>1 DEF KnownBeforeFed
  <2>8. QED
    BY <2>4, <2>5, <2>6, <2>7 DEF Handshake
<1>2. CASE ReceiveBlob
  <2>1. /\ phase = "asked" /\ reply /\ reply' = FALSE /\ phase' = "live"
        /\ UNCHANGED <<pending, inTable, wpc, batch, c2s, s2c, spc, answer, sphase, ppc, news,
                       cRefused, sRefused>>
    BY <1>2 DEF ReceiveBlob
  <2>2. Stages'
    BY <1>t, <1>h, <2>1 DEF Stages, Carries
  <2>3. Outbound'
    BY <1>t, <1>h, <2>1 DEF Outbound, Stages, Carries
  <2>4. Inbound'
    BY <1>t, <1>h, <2>1 DEF Inbound
  <2>5. KnownBeforeFed'
    BY <1>h, <2>1 DEF KnownBeforeFed
  <2>6. QED
    BY <2>2, <2>3, <2>4, <2>5 DEF Handshake
<1>3. CASE CpuWrite \/ TakeDelta \/ EngineWrite \/ UNCHANGED vars
  <2>1. UNCHANGED <<phase, pending, reply, inTable, batch, c2s, s2c, spc, answer, sphase,
                    ppc, news, cRefused, sRefused>>
    BY <1>3 DEF CpuWrite, TakeDelta, EngineWrite
  <2>2. wpc' = wpc \/ wpc = "take"
    BY <1>3 DEF CpuWrite, TakeDelta, EngineWrite
  <2>3. Stages' /\ Inbound' /\ KnownBeforeFed'
    BY <1>h, <2>1 DEF Stages, Inbound, KnownBeforeFed, Carries
  <2>4. Outbound'
    BY <1>h, <2>1, <2>2 DEF Outbound, Carries
  <2>5. QED
    BY <2>3, <2>4 DEF Handshake
<1>4. CASE UnrefBlob
  <2>1. /\ phase = "live" /\ phase' = "gone" /\ inTable' = FALSE
        /\ c2s' = Append(c2s, UnrefResource)
        /\ UNCHANGED <<pending, reply, wpc, batch, s2c, spc, answer, sphase, ppc, news,
                       cRefused, sRefused>>
    BY <1>4 DEF UnrefBlob
  <2>2. /\ \A type : Carries(c2s', type) <=> Carries(c2s, type) \/ type = "UnrefResource"
        /\ Len(c2s') = Len(c2s) + 1 /\ Len(c2s) \in Nat
        /\ c2s'[Len(c2s) + 1].type = "UnrefResource"
        /\ \A i \in 1 .. Len(c2s) : c2s'[i] = c2s[i]
    BY <1>t, <2>1, CarriesPush, AppendIs, C2SMessageIs
  <2>3. Stages'
    BY <1>t, <1>h, <2>1, <2>2 DEF Stages
  <2>4. Outbound'
    <3>1. \A i \in 1 .. Len(c2s') : c2s'[i].type = "CreateBlob" =>
             i \in 1 .. Len(c2s) /\ c2s'[i] = c2s[i]
      BY <2>2
    <3>2. \A i \in 1 .. Len(c2s') : c2s'[i].type # "CreateBlob"
      BY <1>t, <1>h, <2>1, <3>1 DEF Outbound, Stages
    <3>3. QED
      BY <1>t, <1>h, <2>1, <2>2, <3>2 DEF Outbound, Stages, Carries
  <2>5. Inbound'
    BY <1>t, <1>h, <2>1 DEF Inbound
  <2>6. KnownBeforeFed'
    BY <1>h, <2>1 DEF KnownBeforeFed
  <2>7. QED
    BY <2>3, <2>4, <2>5, <2>6 DEF Handshake
<1>5. CASE MessagesForDelta
  <2>1. /\ wpc' = "ship"
        /\ UNCHANGED <<phase, pending, reply, inTable, c2s, s2c, spc, answer, sphase, ppc,
                       news, cRefused, sRefused>>
    BY <1>5 DEF MessagesForDelta
  <2> DEFINE runs == Runs(cmem, Changed(cmem, Baseline))
  <2>2. /\ batch' = IF inTable THEN Append(DataMessages(runs), RingDelta(names))
                    ELSE << RingDelta(names) >>
    BY <1>5 DEF MessagesForDelta
  <2>3. runs \in Seq(Run)
    BY RunsAre, MappingsAre DEF Types
  <2> HIDE DEF runs
  <2>4. RingDelta(names) \in C2SMessage /\ RingDelta(names).type = "RingDelta"
    BY C2SMessageIs DEF Types
  <2>5. /\ DataMessages(runs) \in Seq(C2SMessage)
        /\ ~Carries(DataMessages(runs), "CreateBlob")
        /\ ~Carries(DataMessages(runs), "UnrefResource")
    BY <2>3, DataMessagesAre DEF Carries
  <2>6. ~Carries(batch', "CreateBlob") /\ ~Carries(batch', "UnrefResource")
    <3>1. CASE inTable
      BY <2>2, <2>4, <2>5, <3>1, CarriesPush
    <3>2. CASE ~inTable
      <4>1. Len(batch') = 1 /\ batch'[1] = RingDelta(names)
        BY <2>2, <3>2
      <4>2. QED
        BY <2>4, <4>1 DEF Carries
    <3>3. QED
      BY <3>1, <3>2
  <2>7. Carries(batch', "BlobData") => inTable
    <3>1. CASE ~inTable
      <4>1. Len(batch') = 1 /\ batch'[1] = RingDelta(names)
        BY <2>2, <3>1
      <4>2. QED
        BY <2>4, <4>1 DEF Carries
    <3>2. QED
      BY <3>1
  <2>8. Stages' /\ Inbound' /\ KnownBeforeFed'
    BY <1>h, <2>1 DEF Stages, Inbound, KnownBeforeFed, Carries
  <2>9. inTable => phase # "none" /\ ~pending
    BY <1>t, <1>h DEF Stages
  <2>10. Outbound'
    <3>1. \A type : Carries(c2s', type) <=> Carries(c2s, type)
      BY <2>1 DEF Carries
    <3>2. QED
      BY <1>h, <2>1, <2>6, <2>7, <2>9, <3>1 DEF Outbound
  <2>11. QED
    BY <2>8, <2>10 DEF Handshake
<1>6. CASE ShipBatch
  <2>1. /\ wpc = "ship" /\ wpc' = "take" /\ batch' = << >> /\ c2s' = c2s \o batch
        /\ UNCHANGED <<phase, pending, reply, inTable, s2c, spc, answer, sphase, ppc,
                       news, cRefused, sRefused>>
    BY <1>6 DEF ShipBatch
  <2>2. \A type : Carries(c2s', type) <=> Carries(c2s, type) \/ Carries(batch, type)
    BY <1>t, <2>1, CarriesJoin
  <2>3. /\ \A i \in 1 .. Len(c2s') :
                \/ i \in 1 .. Len(c2s) /\ c2s'[i] = c2s[i]
                \/ i - Len(c2s) \in 1 .. Len(batch) /\ c2s'[i] = batch[i - Len(c2s)]
    BY <1>t, <2>1, ConcatIs
  <2>4. ~Carries(batch, "CreateBlob") /\ ~Carries(batch, "UnrefResource")
    BY <1>h DEF Outbound
  <2>5. \A i \in 1 .. Len(c2s') : c2s'[i].type = "CreateBlob" =>
             i \in 1 .. Len(c2s) /\ c2s'[i] = c2s[i]
    BY <2>3, <2>4 DEF Carries
  <2>6. Stages'
    BY <1>h, <2>1, <2>2, <2>4 DEF Stages
  <2>7. Outbound'
    <3>1. \A i \in 1 .. Len(c2s') : c2s'[i].type = "CreateBlob" =>
            pending /\ \A j \in 1 .. Len(c2s') : c2s'[j].type = "CreateBlob" => i = j
      BY <1>h, <2>5 DEF Outbound
    <3>2. QED
      BY <1>h, <2>1, <2>2, <2>4, <3>1, CarriesNothing DEF Outbound
  <2>8. Inbound' /\ KnownBeforeFed'
    BY <1>h, <2>1 DEF Inbound, KnownBeforeFed
  <2>9. QED
    BY <2>6, <2>7, <2>8 DEF Handshake
<1>7. CASE CommitPendingBlob
  <2>1. /\ s2c # << >> /\ Head(s2c).type = "BlobCreated"
        /\ inTable' = pending /\ pending' = FALSE /\ reply' = TRUE /\ s2c' = Tail(s2c)
        /\ UNCHANGED <<phase, wpc, batch, c2s, spc, answer, sphase, ppc, news,
                       cRefused, sRefused>>
    BY <1>7 DEF CommitPendingBlob, Incoming
  <2>2. /\ Len(s2c') = Len(s2c) - 1 /\ Len(s2c) \in Nat \ {0} /\ 1 \in 1 .. Len(s2c)
        /\ Head(s2c) = s2c[1]
        /\ \A i \in 1 .. Len(s2c') : s2c'[i] = s2c[i + 1] /\ i + 1 \in 1 .. Len(s2c)
    BY <1>t, <2>1, TailIs
  <2>3. pending /\ phase = "asked" /\ ~reply
    BY <1>h, <2>1, <2>2 DEF Inbound, Stages
  <2>4. spc = "recv" /\ sphase # "none"
    BY <1>t, <1>h, <2>1 DEF Inbound
  <2>5. \A i \in 1 .. Len(s2c') : s2c'[i].type # "BlobCreated"
    BY <1>h, <2>2 DEF Inbound
  <2>6. \A type : Carries(c2s', type) <=> Carries(c2s, type)
    BY <2>1 DEF Carries
  <2>7. ~Carries(c2s, "BlobData") /\ ~Carries(batch, "BlobData") /\ ~Carries(c2s, "CreateBlob")
    BY <1>t, <1>h, <2>3, <2>4 DEF Outbound, Stages
  <2>8. Stages'
    BY <1>t, <1>h, <2>1, <2>3, <2>6 DEF Stages
  <2>9. Outbound'
    BY <1>t, <1>h, <2>1, <2>3, <2>7 DEF Outbound, Carries
  <2>10. Inbound'
    BY <1>t, <1>h, <2>1, <2>4, <2>5 DEF Inbound
  <2>11. KnownBeforeFed'
    BY <1>h, <2>1 DEF KnownBeforeFed
  <2>12. QED
    BY <2>8, <2>9, <2>10, <2>11 DEF Handshake
<1>8. CASE ApplyBlobData
  <2>1. /\ s2c # << >> /\ Head(s2c).type = "BlobData" /\ s2c' = Tail(s2c)
        /\ cRefused' = cRefused \/ ~inTable
        /\ UNCHANGED <<phase, pending, reply, inTable, wpc, batch, c2s, spc, answer, sphase,
                       ppc, news, sRefused>>
    BY <1>8 DEF ApplyBlobData, Incoming
  <2>2. /\ Len(s2c') = Len(s2c) - 1 /\ Len(s2c) \in Nat \ {0} /\ 1 \in 1 .. Len(s2c)
        /\ Head(s2c) = s2c[1]
        /\ \A i \in 1 .. Len(s2c') : s2c'[i] = s2c[i + 1] /\ i + 1 \in 1 .. Len(s2c)
    BY <1>t, <2>1, TailIs
  <2>3. sphase # "none" /\ spc = "recv" /\ ~pending
    BY <1>t, <1>h, <2>1, <2>2 DEF Inbound
  <2>4. phase # "none"
    BY <1>h, <2>3 DEF Stages
  <2>5. inTable \/ phase = "gone"
    BY <1>t, <1>h, <2>3, <2>4 DEF Stages
  <2>6. Stages' /\ Outbound'
    BY <1>h, <2>1 DEF Stages, Outbound, Carries
  <2>7. \A i \in 1 .. Len(s2c') : s2c'[i].type # "BlobCreated"
    BY <1>h, <2>2, <2>3 DEF Inbound
  <2>8. Inbound'
    BY <1>t, <1>h, <2>1, <2>3, <2>7 DEF Inbound
  <2>9. KnownBeforeFed'
    BY <1>t, <1>h, <2>1, <2>5 DEF KnownBeforeFed
  <2>10. QED
    BY <2>6, <2>8, <2>9 DEF Handshake
<1>9. CASE ReceiveCreate
  <2>1. /\ spc = "recv" /\ c2s # << >> /\ Head(c2s).type = "CreateBlob"
        /\ sphase' = "live" /\ spc' = "answer" /\ c2s' = Tail(c2s)
        /\ UNCHANGED <<phase, pending, reply, inTable, wpc, batch, s2c, ppc, news,
                       cRefused, sRefused>>
    BY <1>9 DEF ReceiveCreate, Requested
  <2>2. /\ Len(c2s') = Len(c2s) - 1 /\ Len(c2s) \in Nat \ {0} /\ 1 \in 1 .. Len(c2s)
        /\ Head(c2s) = c2s[1]
        /\ \A i \in 1 .. Len(c2s') : c2s'[i] = c2s[i + 1] /\ i + 1 \in 1 .. Len(c2s)
    BY <1>t, <2>1, TailIs
  <2>3. \A type : Carries(c2s, type) <=> type = "CreateBlob" \/ Carries(c2s', type)
    BY <1>t, <2>1, CarriesPop
  <2>4. pending /\ sphase = "none"
    BY <1>h, <2>1, <2>2, <2>3 DEF Outbound, Stages
  <2>5. \A i \in 1 .. Len(c2s') : c2s'[i].type # "CreateBlob"
    <3> SUFFICES ASSUME NEW i \in 1 .. Len(c2s'), c2s'[i].type = "CreateBlob" PROVE FALSE
      OBVIOUS
    <3>1. c2s[i + 1].type = "CreateBlob" /\ i + 1 \in 1 .. Len(c2s) /\ i \in Nat \ {0}
      BY <2>2
    <3>2. 1 = i + 1
      BY <1>h, <2>1, <2>2, <3>1 DEF Outbound
    <3>3. QED
      BY <3>1, <3>2
  <2>6. s2c = << >> /\ news = << >> /\ phase = "asked"
    BY <1>t, <1>h, <2>4 DEF Inbound, Stages
  <2>7. Stages'
    BY <1>t, <1>h, <2>1, <2>3, <2>4, <2>5, <2>6 DEF Stages, Carries
  <2>8. Outbound'
    BY <1>t, <1>h, <2>1, <2>3, <2>5 DEF Outbound, Carries
  <2>9. Inbound'
    BY <1>t, <1>h, <2>1, <2>4, <2>6 DEF Inbound
  <2>10. KnownBeforeFed'
    BY <1>t, <1>h, <2>1, <2>4 DEF KnownBeforeFed
  <2>11. QED
    BY <2>7, <2>8, <2>9, <2>10 DEF Handshake
<1>10. CASE AnswerCreate
  <2>1. /\ spc = "answer" /\ spc' = "recv" /\ s2c' = Append(s2c, BlobCreated(answer))
        /\ UNCHANGED <<phase, pending, reply, inTable, wpc, batch, c2s, sphase, ppc, news,
                       cRefused, sRefused>>
    BY <1>10 DEF AnswerCreate
  <2>2. sphase = "live" /\ pending /\ s2c = << >> /\ news = << >>
    BY <1>h, <2>1 DEF Inbound
  <2>3. BlobCreated(answer).type = "BlobCreated"
    BY <1>t, S2CMessageIs
  <2>4. Len(s2c') = 1 /\ s2c'[1].type = "BlobCreated" /\ s2c' # << >>
    BY <2>1, <2>2, <2>3
  <2>5. Stages' /\ Outbound' /\ KnownBeforeFed'
    BY <1>h, <2>1 DEF Stages, Outbound, KnownBeforeFed, Carries
  <2>6. Inbound'
    BY <1>t, <1>h, <2>1, <2>2, <2>4 DEF Inbound
  <2>7. QED
    BY <2>5, <2>6 DEF Handshake
<1>11. CASE CopyIn \/ ReceiveDelta
  <2>1. /\ spc = "recv" /\ c2s # << >> /\ c2s' = Tail(c2s)
        /\ Head(c2s).type \in {"BlobData", "RingDelta"}
        /\ sRefused' = sRefused \/ (Head(c2s).type = "BlobData" /\ sphase # "live")
        /\ UNCHANGED <<phase, pending, reply, inTable, wpc, batch, s2c, spc, answer, sphase,
                       ppc, news, cRefused>>
    <3>1. CASE CopyIn
      BY <1>t, <3>1 DEF CopyIn, Requested
    <3>2. CASE ReceiveDelta
      BY <1>t, <3>2 DEF ReceiveDelta, Requested
    <3>3. QED
      BY <1>11, <3>1, <3>2
  <2>2. /\ Len(c2s') = Len(c2s) - 1 /\ Len(c2s) \in Nat \ {0} /\ 1 \in 1 .. Len(c2s)
        /\ Head(c2s) = c2s[1]
        /\ \A i \in 1 .. Len(c2s') : c2s'[i] = c2s[i + 1] /\ i + 1 \in 1 .. Len(c2s)
    BY <1>t, <2>1, TailIs
  <2>3. \A type : Carries(c2s, type) <=> type = Head(c2s).type \/ Carries(c2s', type)
    BY <1>t, <2>1, CarriesPop
  <2>4. \A i \in 1 .. Len(c2s') : c2s'[i].type = "CreateBlob" =>
           pending /\ \A j \in 1 .. Len(c2s') : c2s'[j].type = "CreateBlob" => i = j
    <3> SUFFICES ASSUME NEW i \in 1 .. Len(c2s'), c2s'[i].type = "CreateBlob"
                 PROVE  /\ pending
                        /\ \A j \in 1 .. Len(c2s') : c2s'[j].type = "CreateBlob" => i = j
      OBVIOUS
    <3>1. c2s[i + 1].type = "CreateBlob" /\ i + 1 \in 1 .. Len(c2s)
      BY <2>2
    <3>2. \A j \in 1 .. Len(c2s') : c2s'[j].type = "CreateBlob" => i + 1 = j + 1
      BY <1>h, <2>2, <3>1 DEF Outbound
    <3>3. QED
      BY <1>h, <3>1, <3>2 DEF Outbound
  <2>5. Head(c2s).type = "BlobData" => sphase # "none"
    <3>1. Head(c2s).type = "BlobData" => phase # "none" /\ ~pending
      BY <1>h, <2>3 DEF Outbound
    <3>2. Carries(c2s, "CreateBlob") => pending
      BY <1>h DEF Outbound, Carries
    <3>3. QED
      BY <1>h, <3>1, <3>2 DEF Stages
  <2>6. Stages'
    BY <1>t, <1>h, <2>1, <2>3 DEF Stages
  <2>7. Outbound'
    <3>1. \A type : Carries(batch', type) <=> Carries(batch, type)
      BY <2>1 DEF Carries
    <3>2. QED
      BY <1>t, <1>h, <2>1, <2>3, <2>4, <3>1 DEF Outbound
  <2>8. Inbound'
    BY <1>h, <2>1 DEF Inbound
  <2>9. KnownBeforeFed'
    BY <1>t, <1>h, <2>1, <2>5 DEF KnownBeforeFed
  <2>10. QED
    BY <2>6, <2>7, <2>8, <2>9 DEF Handshake
<1>12. CASE ReceiveUnref
  <2>1. /\ spc = "recv" /\ c2s # << >> /\ c2s' = Tail(c2s)
        /\ Head(c2s).type = "UnrefResource" /\ sphase' = "gone"
        /\ UNCHANGED <<phase, pending, reply, inTable, wpc, batch, s2c, spc, answer, ppc,
                       news, cRefused, sRefused>>
    BY <1>12 DEF ReceiveUnref, Requested
  <2>2. \A type : Carries(c2s, type) <=> type = "UnrefResource" \/ Carries(c2s', type)
    BY <1>t, <2>1, CarriesPop
  <2>3. phase = "gone"
    BY <1>h, <2>2 DEF Outbound
  <2>4. ~pending /\ ~Carries(c2s, "CreateBlob")
    BY <1>t, <1>h, <2>3 DEF Stages, Outbound, Carries
  <2>5. \A i \in 1 .. Len(c2s') : c2s'[i].type # "CreateBlob"
    BY <2>2, <2>4 DEF Carries
  <2>6. Stages'
    BY <1>t, <1>h, <2>1, <2>2, <2>3, <2>4 DEF Stages
  <2>7. Outbound'
    <3>1. \A type : Carries(batch', type) <=> Carries(batch, type)
      BY <2>1 DEF Carries
    <3>2. QED
      BY <1>t, <1>h, <2>1, <2>2, <2>3, <2>5, <3>1 DEF Outbound
  <2>8. Inbound'
    BY <1>t, <1>h, <2>1, <2>4 DEF Inbound
  <2>9. KnownBeforeFed'
    BY <1>t, <1>h, <2>1 DEF KnownBeforeFed
  <2>10. QED
    BY <2>6, <2>7, <2>8, <2>9 DEF Handshake
<1>13. CASE TakeBytesSWrote
  <2> DEFINE runs == Runs(smem, Shipped(Changed(smem, shadow), CoalesceGap))
  <2>1. /\ spc = "recv" /\ sphase = "live" /\ ppc' = "ship" /\ news' = DataMessages(runs)
        /\ UNCHANGED <<phase, pending, reply, inTable, wpc, batch, c2s, s2c, spc, answer,
                       sphase, cRefused, sRefused>>
    BY <1>13 DEF TakeBytesSWrote
  <2>2. runs \in Seq(Run)
    BY RunsAre, MappingsAre DEF Types
  <2> HIDE DEF runs
  <2>3. \A i \in 1 .. Len(news') : news'[i].type = "BlobData"
    BY <2>1, <2>2, DataMessagesAre
  <2>4. Stages' /\ Outbound' /\ KnownBeforeFed'
    BY <1>h, <2>1 DEF Stages, Outbound, KnownBeforeFed, Carries
  <2>5. Inbound'
    BY <1>h, <2>1, <2>3 DEF Inbound
  <2>6. QED
    BY <2>4, <2>5 DEF Handshake
<1>14. CASE ShipNews
  <2>1. /\ s2c' = s2c \o news /\ news' = << >> /\ ppc' = "poll"
        /\ UNCHANGED <<phase, pending, reply, inTable, wpc, batch, c2s, spc, answer,
                       sphase, cRefused, sRefused>>
    BY <1>14 DEF ShipNews
  <2>2. /\ Len(s2c') = Len(s2c) + Len(news) /\ Len(s2c) \in Nat /\ Len(news) \in Nat
        /\ \A i \in 1 .. Len(s2c) : s2c'[i] = s2c[i]
        /\ \A i \in 1 .. Len(s2c') :
                \/ i \in 1 .. Len(s2c) /\ s2c'[i] = s2c[i]
                \/ i - Len(s2c) \in 1 .. Len(news) /\ s2c'[i] = news[i - Len(s2c)]
    BY <1>t, <2>1, ConcatIs
  <2>3. \A i \in 1 .. Len(s2c') : s2c'[i].type = "BlobCreated" =>
           i \in 1 .. Len(s2c) /\ s2c'[i] = s2c[i]
    BY <1>h, <2>2 DEF Inbound
  <2>4. s2c = << >> /\ news = << >> => s2c' = << >>
    BY <2>1
  <2>5. s2c # << >> => s2c' # << >> /\ s2c'[1] = s2c[1]
    <3>1. s2c # << >> => Len(s2c) # 0
      BY <1>t
    <3>2. QED
      BY <2>2, <3>1
  <2>6. Stages' /\ Outbound' /\ KnownBeforeFed'
    BY <1>h, <2>1 DEF Stages, Outbound, KnownBeforeFed, Carries
  <2>7. Inbound'
    BY <1>t, <1>h, <2>1, <2>3, <2>4, <2>5 DEF Inbound
  <2>8. QED
    BY <2>6, <2>7 DEF Handshake
<1> QED
  BY <1>1, <1>2, <1>3, <1>4, <1>5, <1>6, <1>7, <1>8, <1>9, <1>10, <1>11, <1>12,
     <1>13, <1>14 DEF Next, Step

-----------------------------------------------------------------------------
(* The blob without a baseline.                                            *)

\* A message is a delta that names the blob exactly when it says so.
LEMMA NamingIs ==
    /\ \A m \in C2SMessage : m = Naming <=> m.type = "RingDelta" /\ m.names
    /\ CreateBlob # Naming /\ UnrefResource # Naming
    /\ \A n \in BOOLEAN : RingDelta(n) = Naming => n
<1>1. Naming.type = "RingDelta" /\ Naming.names = TRUE
  BY C2SMessageIs DEF Naming
<1>2. ASSUME NEW m \in C2SMessage, m.type = "RingDelta", m.names
      PROVE  m = Naming
  <2>1. /\ CreateBlob.type = "CreateBlob" /\ UnrefResource.type = "UnrefResource"
        /\ \A run : BlobData(run).type = "BlobData"
    BY DEF CreateBlob, UnrefResource, BlobData
  <2>2. \E n \in BOOLEAN : m = RingDelta(n)
    BY <1>2, <2>1 DEF C2SMessage
  <2>3. PICK n \in BOOLEAN : m = RingDelta(n)
    BY <2>2
  <2>4. RingDelta(n).names = n
    BY C2SMessageIs
  <2>5. n = TRUE
    BY <1>2, <2>3, <2>4
  <2>6. QED
    BY <2>3, <2>5, Zenon DEF Naming
<1>3. \A n \in BOOLEAN : RingDelta(n) = Naming => n
  <2> SUFFICES ASSUME NEW n \in BOOLEAN, RingDelta(n) = Naming PROVE n
    OBVIOUS
  <2>1. RingDelta(n).names = n
    BY C2SMessageIs
  <2>2. n = TRUE
    BY <1>1, <2>1
  <2>3. QED
    BY <2>2
<1>4. CreateBlob.type # "RingDelta" /\ UnrefResource.type # "RingDelta"
  BY C2SMessageIs
<1> QED
  BY <1>1, <1>2, <1>3, <1>4

\* A diff of nothing.
LEMMA NothingChanged ==
    ASSUME NEW live, NEW known, \A c \in Cells : live[c] = known[c]
    PROVE  /\ Changed(live, known) = {}
           /\ \A gap : Shipped(Changed(live, known), gap) = {}
  BY DEF Changed, Shipped

\* Until the watcher's first diff makes a baseline, no delta that names the blob
\* reaches S while the blob lives.
LEMMA UnnamedStep ==
    ASSUME Types, Handshake, Untouched, [Next]_vars, ~hasBase, ~hasBase'
    PROVE  Unnamed'
<1> USE DEF vars, vtestVars, tableVars, watcherVars, messageVars, sharedVars, progressVars
<1>t. /\ internal \in BOOLEAN /\ names \in BOOLEAN /\ named \in BOOLEAN
      /\ phase \in {"none", "asked", "live", "gone"}
      /\ wpc \in {"take", "diff", "ship"}
      /\ sphase \in {"none", "live", "gone"}
      /\ c2s \in Seq(C2SMessage) /\ batch \in Seq(C2SMessage)
  BY CellsAre DEF Types
<1>h. Stages
  BY DEF Handshake
<1>u. Unnamed
  BY DEF Untouched
<1>1. CASE AskForBlob \/ UnrefBlob
  <2>1. /\ phase' # "gone" => phase # "gone"
        /\ phase \in {"none", "live"} /\ (phase = "live" => phase' = "gone")
        /\ c2s' = Append(c2s, CreateBlob) \/ c2s' = Append(c2s, UnrefResource)
        /\ UNCHANGED <<named, sphase, wpc, names, batch>>
    BY <1>1 DEF AskForBlob, UnrefBlob
  <2>m. PICK m \in C2SMessage : m # Naming /\ c2s' = Append(c2s, m)
    BY <2>1, C2SMessageIs, NamingIs
  <2>2. /\ Len(c2s') = Len(c2s) + 1 /\ Len(c2s) \in Nat
        /\ \A i \in 1 .. Len(c2s) : c2s'[i] = c2s[i]
        /\ c2s'[Len(c2s) + 1] # Naming
    BY <1>t, <2>m, AppendIs
  <2>3. \A i \in 1 .. Len(c2s') : c2s'[i] = Naming =>
          sphase = "gone" \/ \E j \in 1 .. i - 1 : c2s'[j].type = "UnrefResource"
    <3> SUFFICES ASSUME NEW i \in 1 .. Len(c2s'), c2s'[i] = Naming, sphase # "gone"
                 PROVE  \E j \in 1 .. i - 1 : c2s'[j].type = "UnrefResource"
      OBVIOUS
    <3>1. i # Len(c2s) + 1 /\ i \in 1 .. Len(c2s) + 1
      BY <2>2
    <3>a. i \in 1 .. Len(c2s) /\ c2s[i] = Naming
      BY <2>2, <3>1
    <3>2. PICK j \in 1 .. i - 1 : c2s[j].type = "UnrefResource"
      BY <1>u, <3>a DEF Unnamed
    <3>3. j \in 1 .. Len(c2s)
      BY <2>2, <3>a
    <3>4. QED
      BY <2>2, <3>2, <3>3
  <2>4. \A i \in 1 .. Len(batch') : batch'[i] = Naming => phase' = "gone"
    BY <1>u, <2>1 DEF Unnamed
  <2>5. wpc' = "diff" /\ names' => phase' \in {"live", "gone"}
    BY <1>u, <2>1 DEF Unnamed
  <2>6. QED
    BY <1>u, <2>1, <2>3, <2>4, <2>5 DEF Unnamed
<1>2. CASE ReceiveBlob
  <2>1. /\ phase = "asked" /\ phase' = "live"
        /\ UNCHANGED <<named, sphase, wpc, names, batch, c2s>>
    BY <1>2 DEF ReceiveBlob
  <2>2. QED
    BY <1>u, <2>1 DEF Unnamed
<1>3. CASE CpuWrite \/ CommitPendingBlob \/ ApplyBlobData \/ AnswerCreate
             \/ EngineWrite \/ TakeBytesSWrote \/ ShipNews \/ UNCHANGED vars
  <2>1. UNCHANGED <<phase, named, sphase, wpc, names, batch, c2s>>
    BY <1>3 DEF CpuWrite, CommitPendingBlob, ApplyBlobData, AnswerCreate, EngineWrite,
                TakeBytesSWrote, ShipNews
  <2>2. QED
    BY <1>u, <2>1 DEF Unnamed
<1>4. CASE TakeDelta
  <2>1. /\ names' => phase = "live"
        /\ UNCHANGED <<phase, named, sphase, batch, c2s>>
    BY <1>t, <1>4 DEF TakeDelta
  <2>2. QED
    BY <1>u, <2>1 DEF Unnamed
<1>5. CASE MessagesForDelta
  <2>1. /\ wpc = "diff" /\ wpc' = "ship" /\ ~inTable /\ batch' = << RingDelta(names) >>
        /\ UNCHANGED <<phase, named, sphase, names, c2s>>
    BY <1>5 DEF MessagesForDelta
  <2>2. names => phase = "gone"
    BY <1>h, <1>u, <2>1 DEF Stages, Unnamed
  <2>3. \A i \in 1 .. Len(batch') : batch'[i] = RingDelta(names)
    BY <2>1
  <2>4. \A i \in 1 .. Len(batch') : batch'[i] = Naming => phase' = "gone"
    BY <1>t, <2>1, <2>2, <2>3, NamingIs
  <2>5. QED
    BY <1>u, <2>1, <2>4 DEF Unnamed
<1>6. CASE ShipBatch
  <2>1. /\ wpc' = "take" /\ batch' = << >> /\ c2s' = c2s \o batch
        /\ UNCHANGED <<phase, named, sphase, names>>
    BY <1>6 DEF ShipBatch
  <2>2. /\ Len(c2s) \in Nat
        /\ \A i \in 1 .. Len(c2s) : c2s'[i] = c2s[i]
        /\ \A i \in 1 .. Len(c2s') :
                \/ i \in 1 .. Len(c2s) /\ c2s'[i] = c2s[i]
                \/ i - Len(c2s) \in 1 .. Len(batch) /\ c2s'[i] = batch[i - Len(c2s)]
    BY <1>t, <2>1, ConcatIs
  <2>3. ASSUME NEW i \in 1 .. Len(c2s'), c2s'[i] = Naming, sphase # "gone"
        PROVE  \E j \in 1 .. i - 1 : c2s'[j].type = "UnrefResource"
    <3>1. CASE i \in 1 .. Len(c2s) /\ c2s'[i] = c2s[i]
      <4>1. PICK j \in 1 .. i - 1 : c2s[j].type = "UnrefResource"
        BY <1>u, <2>3, <3>1 DEF Unnamed
      <4>2. j \in 1 .. Len(c2s)
        BY <2>2, <3>1
      <4>3. QED
        BY <2>2, <4>1, <4>2
    <3>2. CASE i - Len(c2s) \in 1 .. Len(batch) /\ c2s'[i] = batch[i - Len(c2s)]
      <4>1. phase = "gone"
        BY <1>u, <2>3, <3>2 DEF Unnamed
      <4>2. Carries(c2s, "UnrefResource")
        BY <1>h, <2>3, <4>1 DEF Stages
      <4>3. PICK j \in 1 .. Len(c2s) : c2s[j].type = "UnrefResource"
        BY <4>2 DEF Carries
      <4>4. j \in 1 .. i - 1
        BY <2>2, <3>2
      <4>5. QED
        BY <2>2, <4>3, <4>4
    <3>3. QED
      BY <2>2, <3>1, <3>2
  <2>4. \A i \in 1 .. Len(batch') : batch'[i] = Naming => phase' = "gone"
    BY <2>1
  <2>5. QED
    BY <1>u, <2>1, <2>3, <2>4 DEF Unnamed
<1>7. CASE ReceiveCreate \/ CopyIn \/ ReceiveDelta \/ ReceiveUnref
  <2>1. /\ c2s # << >> /\ c2s' = Tail(c2s)
        /\ sphase' = "gone" \/ Head(c2s).type # "UnrefResource"
        /\ UNCHANGED <<phase, wpc, names, batch>>
    BY <1>7 DEF ReceiveCreate, CopyIn, ReceiveDelta, ReceiveUnref, Requested
  <2>2. /\ Len(c2s') = Len(c2s) - 1 /\ Len(c2s) \in Nat \ {0} /\ 1 \in 1 .. Len(c2s)
        /\ Head(c2s) = c2s[1] /\ c2s[1] \in C2SMessage
        /\ \A i \in 1 .. Len(c2s') : c2s'[i] = c2s[i + 1] /\ i + 1 \in 1 .. Len(c2s)
    BY <1>t, <2>1, TailIs
  <2>3. sphase = "gone" => sphase' = "gone"
    <3>1. CASE ReceiveCreate
      <4>1. Carries(c2s, "CreateBlob")
        BY <2>2, <3>1 DEF Carries, ReceiveCreate, Requested
      <4>2. sphase = "none"
        BY <1>h, <4>1 DEF Stages
      <4>3. QED
        BY <4>2
    <3>2. CASE CopyIn \/ ReceiveDelta \/ ReceiveUnref
      BY <3>2 DEF CopyIn, ReceiveDelta, ReceiveUnref
    <3>3. QED
      BY <1>7, <3>1, <3>2
  <2>4. ASSUME NEW i \in 1 .. Len(c2s'), c2s'[i] = Naming, sphase' # "gone"
        PROVE  \E j \in 1 .. i - 1 : c2s'[j].type = "UnrefResource"
    <3>1. c2s[i + 1] = Naming /\ i + 1 \in 1 .. Len(c2s) /\ i \in Nat /\ Len(c2s) \in Nat
      BY <2>2, <2>4
    <3>2. PICK j \in 1 .. (i + 1) - 1 : c2s[j].type = "UnrefResource"
      BY <1>u, <2>3, <2>4, <3>1 DEF Unnamed
    <3>3. j # 1
      BY <2>1, <2>2, <2>4, <3>2
    <3>4. j - 1 \in 1 .. i - 1 /\ j - 1 \in 1 .. Len(c2s') /\ (j - 1) + 1 = j
      BY <2>2, <3>1, <3>3
    <3>5. c2s'[j - 1] = c2s[j]
      BY <2>2, <3>4
    <3>6. QED
      BY <3>2, <3>4, <3>5
  <2>5. named' => sphase' = "gone"
    <3>1. CASE ReceiveDelta
      <4>1. /\ Head(c2s).type = "RingDelta" /\ sphase' = sphase
            /\ named' = (named \/ Head(c2s).names)
        BY <3>1 DEF ReceiveDelta, Requested
      <4>2. Head(c2s).names => sphase = "gone"
        <5> SUFFICES ASSUME Head(c2s).names PROVE sphase = "gone"
          OBVIOUS
        <5>1. c2s[1] = Naming
          BY <2>2, <4>1, NamingIs
        <5>2. sphase = "gone" \/ \E j \in 1 .. 1 - 1 : c2s[j].type = "UnrefResource"
          BY <1>u, <2>2, <5>1 DEF Unnamed
        <5>3. QED
          BY <5>2
      <4>3. QED
        BY <1>u, <4>1, <4>2 DEF Unnamed
    <3>2. CASE ReceiveCreate \/ CopyIn \/ ReceiveUnref
      BY <1>u, <2>3, <3>2 DEF Unnamed, ReceiveCreate, CopyIn, ReceiveUnref
    <3>3. QED
      BY <1>7, <3>1, <3>2
  <2>6. QED
    BY <1>u, <2>1, <2>4, <2>5 DEF Unnamed
<1> QED
  BY <1>1, <1>2, <1>3, <1>4, <1>5, <1>6, <1>7 DEF Next, Step

\* ... so S, which writes only what a command names, writes nothing to it.
LEMMA UnwrittenStep ==
    ASSUME Types, Handshake, Untouched, Ownership, [Next]_vars, ~hasBase, ~hasBase'
    PROVE  base' = Zeros /\ Unwritten'
<1> USE DEF vars, vtestVars, tableVars, watcherVars, messageVars, sharedVars, progressVars
<1>t. /\ c2s \in Seq(C2SMessage) /\ s2c \in Seq(S2CMessage) /\ news \in Seq(S2CMessage)
      /\ smem \in Memory /\ shadow \in Memory
  BY DEF Types
<1>h. Stages /\ Inbound
  BY DEF Handshake
<1>u. base = Zeros /\ internal /\ Unwritten /\ Unnamed
  BY DEF Untouched
<1>o. Ownership
  OBVIOUS
<1>z. \A c \in Cells : Zeros[c] = 0
  BY DEF Zeros
<1>1. CASE AskForBlob \/ ReceiveBlob \/ CpuWrite \/ UnrefBlob \/ TakeDelta \/ ShipBatch
             \/ ReceiveDelta \/ ReceiveUnref \/ UNCHANGED vars
  <2>1. UNCHANGED <<base, smem, shadow, s2c, news, answer>>
    BY <1>1 DEF AskForBlob, ReceiveBlob, CpuWrite, UnrefBlob, TakeDelta, ShipBatch,
                ReceiveDelta, ReceiveUnref
  <2>2. QED
    BY <1>u, <2>1 DEF Unwritten, Carries
<1>2. CASE MessagesForDelta
  <2>1. UNCHANGED <<base, smem, shadow, s2c, news, answer>>
    BY <1>2 DEF MessagesForDelta
  <2>2. QED
    BY <1>u, <2>1 DEF Unwritten, Carries
<1>3. CASE CommitPendingBlob
  <2>1. /\ s2c # << >> /\ s2c' = Tail(s2c)
        /\ UNCHANGED <<base, smem, shadow, news, answer>>
    BY <1>3 DEF CommitPendingBlob, Incoming
  <2>2. \A i \in 1 .. Len(s2c') : s2c'[i] = s2c[i + 1] /\ i + 1 \in 1 .. Len(s2c)
    BY <1>t, <2>1, TailIs
  <2>3. QED
    BY <1>u, <2>1, <2>2 DEF Unwritten, Carries
<1>4. CASE ApplyBlobData
  <2>1. s2c # << >> /\ Head(s2c).type = "BlobData"
    BY <1>4 DEF ApplyBlobData, Incoming
  <2>2. Carries(s2c, "BlobData")
    BY <1>t, <2>1, CarriesPop
  <2>3. QED
    BY <1>u, <2>2 DEF Unwritten
<1>5. CASE ReceiveCreate
  <2> DEFINE changed == Changed(smem, Zeros)
  <2>1. /\ answer' = Runs(smem, changed) /\ shadow' = Adopt(Zeros, smem, changed)
        /\ Carries(c2s, "CreateBlob")
        /\ UNCHANGED <<base, smem, s2c, news>>
    BY <1>5, <1>t, CarriesPop DEF ReceiveCreate, Requested
  <2>2. shadow = Zeros
    BY <1>h, <1>o, <2>1 DEF Stages, Ownership
  <2>3. \A c \in Cells : smem[c] = Zeros[c]
    BY <1>o, <1>u, <1>z, <2>2, CellsAre DEF Ownership, Unwritten
  <2>4. changed = {}
    BY <2>3, NothingChanged
  <2>5. answer' = << >>
    BY <1>t, <2>1, <2>4, RunsAre
  <2>6. \A c \in Cells : shadow'[c] = 0
    BY <1>z, <2>1, <2>4 DEF Adopt
  <2> HIDE DEF changed
  <2>7. \A c \in GpuCells : smem'[c] = 0 /\ shadow'[c] = 0
    BY <1>u, <2>1, <2>6, CellsAre DEF Unwritten
  <2>8. QED
    BY <1>u, <2>1, <2>5, <2>7 DEF Unwritten, Carries
<1>6. CASE AnswerCreate
  <2>1. /\ s2c' = Append(s2c, BlobCreated(<< >>)) /\ answer' = << >>
        /\ UNCHANGED <<base, smem, shadow, news>>
    BY <1>6, <1>u DEF AnswerCreate, Unwritten
  <2>2. /\ BlobCreated(<< >>) \in S2CMessage
        /\ BlobCreated(<< >>).type = "BlobCreated" /\ BlobCreated(<< >>).initial = << >>
    <3>1. << >> \in Seq(Run)
      OBVIOUS
    <3>2. QED
      BY <3>1, S2CMessageIs
  <2>3. /\ Len(s2c') = Len(s2c) + 1 /\ Len(s2c) \in Nat
        /\ s2c'[Len(s2c) + 1] = BlobCreated(<< >>)
        /\ \A i \in 1 .. Len(s2c) : s2c'[i] = s2c[i]
    BY <1>t, <2>1, <2>2, AppendIs
  <2>4. ~Carries(s2c', "BlobData")
    BY <1>t, <1>u, <2>1, <2>2, CarriesPush DEF Unwritten
  <2>5. \A i \in 1 .. Len(s2c') : s2c'[i].type = "BlobCreated" => s2c'[i].initial = << >>
    <3> SUFFICES ASSUME NEW i \in 1 .. Len(s2c'), s2c'[i].type = "BlobCreated"
                 PROVE  s2c'[i].initial = << >>
      OBVIOUS
    <3>1. i = Len(s2c) + 1 \/ i \in 1 .. Len(s2c)
      BY <2>3
    <3>2. QED
      BY <1>u, <2>2, <2>3, <3>1 DEF Unwritten
  <2>6. QED
    BY <1>u, <2>1, <2>4, <2>5 DEF Unwritten
<1>7. CASE CopyIn
  <2>1. /\ c2s # << >> /\ Head(c2s).type = "BlobData"
        /\ UNCHANGED <<base, s2c, news, answer>>
    BY <1>7 DEF CopyIn, Requested
  <2>2. 1 \in 1 .. Len(c2s) /\ Head(c2s) = c2s[1] /\ c2s[1] \in C2SMessage
    BY <1>t, <2>1, TailIs
  <2>3. Head(c2s).run \in Run /\ DOMAIN Head(c2s).run \subseteq CpuCells
    BY <1>o, <2>1, <2>2, C2SMessageIs DEF Ownership
  <2>4. \A c \in GpuCells : smem'[c] = smem[c] /\ shadow'[c] = shadow[c]
    BY <1>7, <1>t, <2>3, OverIs, CellsAre DEF CopyIn
  <2>5. QED
    BY <1>u, <2>1, <2>4 DEF Unwritten, Carries
<1>8. CASE EngineWrite
  BY <1>8, <1>u DEF EngineWrite, Unnamed
<1>9. CASE TakeBytesSWrote
  <2>1. \A c \in Cells : smem[c] = shadow[c]
    BY <1>o, <1>u, CellsAre DEF Ownership, Unwritten
  <2>2. Shipped(Changed(smem, shadow), CoalesceGap) = {}
    BY <2>1, NothingChanged
  <2>3. QED
    BY <1>9, <2>2 DEF TakeBytesSWrote
<1>10. CASE ShipNews
  <2>1. s2c' = s2c \o << >> /\ news' = << >> /\ UNCHANGED <<base, smem, shadow, answer>>
    BY <1>10, <1>u DEF ShipNews, Unwritten
  <2>2. s2c' = s2c
    BY <1>t, <2>1
  <2>3. QED
    BY <1>u, <2>1, <2>2 DEF Unwritten, Carries
<1> QED
  BY <1>1, <1>2, <1>3, <1>4, <1>5, <1>6, <1>7, <1>8, <1>9, <1>10 DEF Next, Step

\* Every step leaves a blob without a baseline untouched.
LEMMA UntouchedStep ==
    Types /\ Handshake /\ Untouched /\ Ownership /\ [Next]_vars => Untouched'
<1> SUFFICES ASSUME Types, Handshake, Untouched, Ownership, [Next]_vars, ~hasBase'
             PROVE  internal' /\ base' = Zeros /\ Unwritten' /\ Unnamed'
  BY DEF Untouched
<1>1. internal' = internal
  BY DEF Next, vars
<1>2. ~hasBase
  BY DEF Next, Step, AskForBlob, ReceiveBlob, CpuWrite, UnrefBlob, TakeDelta,
         MessagesForDelta, ShipBatch, CommitPendingBlob, ApplyBlobData, ReceiveCreate,
         AnswerCreate, CopyIn, ReceiveDelta, ReceiveUnref, EngineWrite, TakeBytesSWrote,
         ShipNews, vars, tableVars
<1> QED
  BY <1>1, <1>2, UnnamedStep, UnwrittenStep DEF Untouched

-----------------------------------------------------------------------------
(* Whose cells are whose.                                                  *)

\* What a step does to C's mapping and baseline leaves the cells of S alone.
LEMMA OwnershipStep ==
    Types /\ Handshake /\ Untouched /\ Ownership /\ [Next]_vars => Ownership'
<1> SUFFICES ASSUME Types, Handshake, Untouched, Ownership, [Next]_vars PROVE Ownership'
  OBVIOUS
<1> USE DEF vars, vtestVars, tableVars, watcherVars, messageVars, sharedVars, progressVars
<1>t. /\ c2s \in Seq(C2SMessage) /\ s2c \in Seq(S2CMessage)
      /\ batch \in Seq(C2SMessage) /\ names \in BOOLEAN
      /\ smem \in Memory /\ shadow \in Memory /\ cmem \in Memory /\ base \in Memory
      /\ written \in Memory /\ hasBase \in BOOLEAN
      /\ Baseline \in Memory /\ Zeros \in Memory
  BY MappingsAre DEF Types
<1>o. Ownership
  OBVIOUS
<1>1. CASE AskForBlob \/ UnrefBlob
  <2>1. /\ c2s' = Append(c2s, CreateBlob) \/ c2s' = Append(c2s, UnrefResource)
        /\ UNCHANGED <<smem, shadow, sphase, cmem, base, hasBase, batch>>
    BY <1>1 DEF AskForBlob, UnrefBlob
  <2>2. PICK m \in C2SMessage : m.type # "BlobData" /\ c2s' = Append(c2s, m)
    BY <2>1, C2SMessageIs
  <2>3. /\ Len(c2s') = Len(c2s) + 1 /\ Len(c2s) \in Nat /\ c2s'[Len(c2s) + 1] = m
        /\ \A i \in 1 .. Len(c2s) : c2s'[i] = c2s[i]
    BY <1>t, <2>2, AppendIs
  <2>4. \A i \in 1 .. Len(c2s') : c2s'[i].type = "BlobData" => i \in 1 .. Len(c2s) /\ c2s'[i] = c2s[i]
    BY <2>2, <2>3
  <2>5. \A i \in 1 .. Len(c2s') : c2s'[i].type = "BlobData" => DOMAIN c2s'[i].run \subseteq CpuCells
    BY <1>o, <2>4 DEF Ownership
  <2>6. Baseline' = Baseline
    BY <2>1 DEF Baseline
  <2>7. QED
    BY <1>o, <2>1, <2>5, <2>6 DEF Ownership
<1>2. CASE ReceiveBlob \/ TakeDelta \/ AnswerCreate \/ ShipNews \/ UNCHANGED vars
  <2>1. UNCHANGED <<smem, shadow, sphase, cmem, base, hasBase, batch, c2s>>
    BY <1>2 DEF ReceiveBlob, TakeDelta, AnswerCreate, ShipNews
  <2>2. Baseline' = Baseline
    BY <2>1 DEF Baseline
  <2>3. QED
    BY <1>o, <2>1, <2>2 DEF Ownership
<1>3. CASE CpuWrite
  <2>1. UNCHANGED <<smem, shadow, sphase, base, hasBase, batch, c2s>>
    BY <1>3 DEF CpuWrite
  <2>2. Baseline' = Baseline
    BY <2>1 DEF Baseline
  <2>3. PICK d \in CpuCells : cmem' = [cmem EXCEPT ![d] = written[d] + 1]
    BY <1>3 DEF CpuWrite
  <2>4. \A c \in GpuCells : cmem'[c] = cmem[c]
    BY <1>t, <2>3, CellsAre DEF Memory
  <2>5. QED
    BY <1>o, <2>1, <2>2, <2>4 DEF Ownership
<1>4. CASE MessagesForDelta
  <2>1. UNCHANGED <<smem, shadow, sphase, cmem, c2s>>
    BY <1>4 DEF MessagesForDelta
  <2> DEFINE changed == Changed(cmem, Baseline)
             runs == Runs(cmem, changed)
  <2>2. changed \subseteq CpuCells /\ changed \in SUBSET Cells
    BY <1>o, CellsAre DEF Ownership, Changed
  <2>3. /\ runs \in Seq(Run)
        /\ \A i \in 1 .. Len(runs) : DOMAIN runs[i] \subseteq changed
    BY <1>t, <2>2, RunsAre
  <2>a. RingDelta(names) \in C2SMessage /\ RingDelta(names).type = "RingDelta"
    BY <1>t, C2SMessageIs
  <2>4. CASE inTable
    <3>1. /\ batch' = Append(DataMessages(runs), RingDelta(names))
          /\ base' = Adopt(Baseline, cmem, changed) /\ hasBase' = TRUE
      BY <1>4, <2>4 DEF MessagesForDelta
    <3> HIDE DEF runs
    <3>2. /\ DataMessages(runs) \in Seq(C2SMessage)
          /\ \A i \in 1 .. Len(DataMessages(runs)) :
                DOMAIN DataMessages(runs)[i].run \subseteq CpuCells
      BY <2>2, <2>3, DataMessagesAre
    <3>3. /\ Len(batch') = Len(DataMessages(runs)) + 1 /\ Len(DataMessages(runs)) \in Nat
          /\ batch'[Len(DataMessages(runs)) + 1] = RingDelta(names)
          /\ \A i \in 1 .. Len(DataMessages(runs)) : batch'[i] = DataMessages(runs)[i]
      BY <2>a, <3>1, <3>2, AppendIs
    <3>4. \A i \in 1 .. Len(batch') : batch'[i].type = "BlobData" => DOMAIN batch'[i].run \subseteq CpuCells
      <4> SUFFICES ASSUME NEW i \in 1 .. Len(batch'), batch'[i].type = "BlobData"
                   PROVE  DOMAIN batch'[i].run \subseteq CpuCells
        OBVIOUS
      <4>1. i = Len(DataMessages(runs)) + 1 \/ i \in 1 .. Len(DataMessages(runs))
        BY <3>3
      <4>2. QED
        BY <2>a, <3>2, <3>3, <4>1
    <3>5. \A c \in GpuCells : Baseline'[c] = cmem[c]
      BY <1>o, <3>1, CellsAre DEF Ownership, Baseline, Adopt
    <3>6. QED
      BY <1>o, <2>1, <3>4, <3>5 DEF Ownership
  <2>5. CASE ~inTable
    <3>1. /\ batch' = << RingDelta(names) >> /\ UNCHANGED <<base, hasBase>>
      BY <1>4, <2>5 DEF MessagesForDelta
    <3>2. \A i \in 1 .. Len(batch') : batch'[i] = RingDelta(names)
      BY <3>1
    <3>3. Baseline' = Baseline
      BY <3>1 DEF Baseline
    <3>4. QED
      BY <1>o, <2>1, <2>a, <3>2, <3>3 DEF Ownership
  <2>6. QED
    BY <2>4, <2>5
<1>5. CASE ShipBatch
  <2>1. /\ c2s' = c2s \o batch /\ batch' = << >>
        /\ UNCHANGED <<smem, shadow, sphase, cmem, base, hasBase>>
    BY <1>5 DEF ShipBatch
  <2>2. \A i \in 1 .. Len(c2s') :
           \/ i \in 1 .. Len(c2s) /\ c2s'[i] = c2s[i]
           \/ i - Len(c2s) \in 1 .. Len(batch) /\ c2s'[i] = batch[i - Len(c2s)]
    BY <1>t, <2>1, ConcatIs
  <2>3. \A i \in 1 .. Len(c2s') : c2s'[i].type = "BlobData" => DOMAIN c2s'[i].run \subseteq CpuCells
    BY <1>o, <2>2 DEF Ownership
  <2>4. Baseline' = Baseline
    BY <2>1 DEF Baseline
  <2>5. Len(batch') = 0
    BY <2>1
  <2>6. QED
    BY <1>o, <2>1, <2>3, <2>4, <2>5 DEF Ownership
<1>6. CASE CommitPendingBlob
  <2>1. /\ s2c # << >> /\ Head(s2c).type = "BlobCreated"
        /\ cmem' = Laid(Head(s2c).initial, cmem)
        /\ base' = IF hasBase THEN Laid(Head(s2c).initial, base) ELSE base
        /\ UNCHANGED <<smem, shadow, sphase, hasBase, batch, c2s>>
    BY <1>6 DEF CommitPendingBlob, Incoming
  <2>2. 1 \in 1 .. Len(s2c) /\ Head(s2c) = s2c[1] /\ s2c[1] \in S2CMessage
    BY <1>t, <2>1, TailIs
  <2>3. Head(s2c).initial \in Seq(Run)
    BY <2>1, <2>2, S2CMessageIs
  <2>4. \A c \in GpuCells : cmem'[c] = Baseline'[c]
    <3>1. CASE hasBase
      <4>1. Baseline = base /\ Baseline' = Laid(Head(s2c).initial, base)
        BY <2>1, <3>1 DEF Baseline
      <4>2. \A c \in GpuCells : c \in Cells /\ cmem[c] = base[c]
        BY <1>o, <4>1, CellsAre DEF Ownership
      <4>3. \A c \in GpuCells : Laid(Head(s2c).initial, cmem)[c] = Laid(Head(s2c).initial, base)[c]
        BY <1>t, <2>3, <4>2, LaidIs
      <4>4. QED
        BY <2>1, <4>1, <4>3
    <3>2. CASE ~hasBase
      <4>1. Head(s2c).initial = << >>
        BY <2>1, <2>2, <3>2 DEF Untouched, Unwritten
      <4>2. \A c \in Cells : Laid(<< >>, cmem)[c] = cmem[c]
        BY DEF Laid
      <4>3. Baseline' = Baseline
        BY <2>1, <3>2 DEF Baseline
      <4>4. QED
        BY <1>o, <2>1, <4>1, <4>2, <4>3, CellsAre DEF Ownership
    <3>3. QED
      BY <1>t, <3>1, <3>2
  <2>5. QED
    BY <1>o, <2>1, <2>4 DEF Ownership
<1>7. CASE ApplyBlobData
  <2>1. /\ s2c # << >> /\ Head(s2c).type = "BlobData"
        /\ UNCHANGED <<smem, shadow, sphase, hasBase, batch, c2s>>
    BY <1>7 DEF ApplyBlobData, Incoming
  <2>2. Head(s2c).run \in Run
    BY <1>t, <2>1, TailIs, S2CMessageIs
  <2>3. hasBase
    BY <1>t, <2>1, CarriesPop DEF Untouched, Unwritten
  <2>4. Baseline = base /\ Baseline' = base'
    BY <2>1, <2>3 DEF Baseline
  <2>5. \A c \in GpuCells : cmem'[c] = base'[c]
    <3>1. CASE inTable
      <4>1. cmem' = Over(Head(s2c).run, cmem) /\ base' = Over(Head(s2c).run, base)
        BY <1>7, <2>3, <3>1 DEF ApplyBlobData
      <4>2. QED
        BY <1>o, <1>t, <2>2, <2>4, <4>1, OverIs, CellsAre DEF Ownership
    <3>2. CASE ~inTable
      BY <1>7, <1>o, <2>4, <3>2 DEF ApplyBlobData, Ownership
    <3>3. QED
      BY <3>1, <3>2
  <2>6. QED
    BY <1>o, <2>1, <2>4, <2>5 DEF Ownership
<1>8. CASE ReceiveCreate
  <2>1. /\ c2s # << >> /\ c2s' = Tail(c2s) /\ sphase' = "live"
        /\ shadow' = Adopt(Zeros, smem, Changed(smem, Zeros))
        /\ UNCHANGED <<smem, cmem, base, hasBase, batch>>
    BY <1>8 DEF ReceiveCreate, Requested
  <2>2. \A c \in Cells : shadow'[c] = smem[c]
    BY <2>1 DEF Adopt, Changed
  <2>3. \A i \in 1 .. Len(c2s') : c2s'[i] = c2s[i + 1] /\ i + 1 \in 1 .. Len(c2s)
    BY <1>t, <2>1, TailIs
  <2>4. Baseline' = Baseline
    BY <2>1 DEF Baseline
  <2>5. QED
    BY <1>o, <2>1, <2>2, <2>3, <2>4, CellsAre DEF Ownership
<1>9. CASE CopyIn
  <2>1. /\ c2s # << >> /\ Head(c2s).type = "BlobData" /\ c2s' = Tail(c2s)
        /\ UNCHANGED <<sphase, cmem, base, hasBase, batch>>
    BY <1>9 DEF CopyIn, Requested
  <2>2. /\ Head(c2s) \in C2SMessage
        /\ \A i \in 1 .. Len(c2s') : c2s'[i] = c2s[i + 1] /\ i + 1 \in 1 .. Len(c2s)
    BY <1>t, <2>1, TailIs
  <2>3. Head(c2s).run \in Run
    BY <2>1, <2>2, C2SMessageIs
  <2>4. \A c \in CpuCells : smem'[c] = shadow'[c]
    BY <1>9, <1>o, <1>t, <2>3, OverIs, CellsAre DEF CopyIn, Ownership
  <2>5. sphase' = "none" => shadow' = Zeros
    BY <1>9, <1>o, <2>1 DEF CopyIn, Ownership
  <2>6. Baseline' = Baseline
    BY <2>1 DEF Baseline
  <2>7. QED
    BY <1>o, <2>1, <2>2, <2>4, <2>5, <2>6 DEF Ownership
<1>10. CASE ReceiveDelta \/ ReceiveUnref
  <2>1. /\ c2s # << >> /\ c2s' = Tail(c2s) /\ (sphase' = "none" => sphase = "none")
        /\ UNCHANGED <<smem, shadow, cmem, base, hasBase, batch>>
    BY <1>10 DEF ReceiveDelta, ReceiveUnref, Requested
  <2>2. \A i \in 1 .. Len(c2s') : c2s'[i] = c2s[i + 1] /\ i + 1 \in 1 .. Len(c2s)
    BY <1>t, <2>1, TailIs
  <2>3. Baseline' = Baseline
    BY <2>1 DEF Baseline
  <2>4. QED
    BY <1>o, <2>1, <2>2, <2>3 DEF Ownership
<1>11. CASE EngineWrite
  <2>1. UNCHANGED <<sphase, shadow, cmem, base, hasBase, batch, c2s>>
    BY <1>11 DEF EngineWrite
  <2>2. PICK d \in GpuCells : smem' = [smem EXCEPT ![d] = written[d] + 1]
    BY <1>11 DEF EngineWrite
  <2>3. \A c \in CpuCells : smem'[c] = smem[c]
    BY <1>t, <2>2, CellsAre DEF Memory
  <2>4. Baseline' = Baseline
    BY <2>1 DEF Baseline
  <2>5. QED
    BY <1>o, <2>1, <2>3, <2>4 DEF Ownership
<1>12. CASE TakeBytesSWrote
  <2> DEFINE cells == Shipped(Changed(smem, shadow), CoalesceGap)
  <2>1. /\ sphase = "live" /\ shadow' = Adopt(shadow, smem, cells)
        /\ UNCHANGED <<sphase, smem, cmem, base, hasBase, batch, c2s>>
    BY <1>12 DEF TakeBytesSWrote
  <2> HIDE DEF cells
  <2>2. \A c \in CpuCells : shadow'[c] = smem[c]
    BY <1>o, <2>1, CellsAre DEF Ownership, Adopt
  <2>3. Baseline' = Baseline
    BY <2>1 DEF Baseline
  <2>4. QED
    BY <1>o, <2>1, <2>2, <2>3 DEF Ownership
<1> QED
  BY <1>1, <1>2, <1>3, <1>4, <1>5, <1>6, <1>7, <1>8, <1>9, <1>10, <1>11, <1>12 DEF Next, Step

-----------------------------------------------------------------------------
(* Who says what of whose cells.                                           *)

\* A message that carries no data says nothing.
LEMMA SilentIs ==
    /\ \A m, c : m.type \notin {"BlobData", "BlobCreated"} => Silent(m, c)
    /\ \A runs \in Seq(Run) : \A c :
         (\A k \in 1 .. Len(runs) : c \notin DOMAIN runs[k]) => Silent(BlobCreated(runs), c)
    /\ \A run \in Run : \A c : c \notin DOMAIN run => Silent(BlobData(run), c)
<1>1. \A m, c : m.type \notin {"BlobData", "BlobCreated"} => Silent(m, c)
  BY DEF Silent, Says
<1>2. ASSUME NEW runs \in Seq(Run), NEW c, \A k \in 1 .. Len(runs) : c \notin DOMAIN runs[k]
      PROVE  Silent(BlobCreated(runs), c)
  BY <1>2, S2CMessageIs DEF Silent, Says
<1>3. ASSUME NEW run \in Run, NEW c, c \notin DOMAIN run
      PROVE  Silent(BlobData(run), c)
  BY <1>3, S2CMessageIs DEF Silent, Says
<1> QED
  BY <1>1, <1>2, <1>3

\* The steps that leave alone what is on its way to C and in the progress
\* thread's hands: the answer in hand is as good as sent.
LEMMA WayStays ==
    ASSUME Types, Handshake,
           \/ AskForBlob \/ ReceiveBlob \/ CpuWrite \/ UnrefBlob \/ TakeDelta
           \/ MessagesForDelta \/ ShipBatch \/ AnswerCreate \/ CopyIn \/ ReceiveDelta
           \/ ReceiveUnref \/ EngineWrite \/ UNCHANGED vars
    PROVE  Way' = Way /\ news' = news
<1> USE DEF vars, vtestVars, tableVars, watcherVars, messageVars, sharedVars, progressVars
<1>1. CASE AnswerCreate
  <2>1. /\ spc = "answer" /\ spc' = "recv" /\ s2c' = Append(s2c, BlobCreated(answer))
        /\ news' = news
    BY <1>1 DEF AnswerCreate
  <2>2. s2c = << >>
    BY <2>1 DEF Handshake, Inbound
  <2>3. s2c' = << BlobCreated(answer) >>
    BY <2>1, <2>2
  <2>4. QED
    BY <2>1, <2>3 DEF Way
<1>2. CASE MessagesForDelta
  BY <1>2 DEF MessagesForDelta, Way
<1>3. CASE CopyIn
  BY <1>3 DEF CopyIn, Way
<1>4. CASE \/ AskForBlob \/ ReceiveBlob \/ CpuWrite \/ UnrefBlob \/ TakeDelta
           \/ ShipBatch \/ ReceiveDelta \/ ReceiveUnref \/ EngineWrite \/ UNCHANGED vars
  <2>1. UNCHANGED <<spc, answer, s2c, news>>
    BY <1>4 DEF AskForBlob, ReceiveBlob, CpuWrite, UnrefBlob, TakeDelta, ShipBatch,
                ReceiveDelta, ReceiveUnref, EngineWrite
  <2>2. QED
    BY <2>1 DEF Way
<1> QED
  BY <1>1, <1>2, <1>3, <1>4

\* What C's reader thread does to its mapping is what the first message on the
\* link says, and what it does to the baseline follows it.
LEMMA ReaderDoes ==
    ASSUME Types, Handshake, CommitPendingBlob \/ ApplyBlobData
    PROVE  /\ s2c # << >> /\ Way = s2c /\ Way' = Tail(s2c) /\ news' = news
           /\ UNCHANGED <<phase, sphase, c2s, batch, smem, shadow, written>>
           /\ \A c \in Cells :
                /\ Silent(Head(s2c), c) => cmem'[c] = cmem[c] /\ Baseline'[c] = Baseline[c]
                /\ phase # "gone" =>
                     \/ Says(Head(s2c), c, cmem'[c])
                     \/ Silent(Head(s2c), c) /\ cmem'[c] = cmem[c]
<1> USE DEF vars, vtestVars, tableVars, watcherVars, messageVars, sharedVars, progressVars
<1>t. /\ s2c \in Seq(S2CMessage) /\ cmem \in Memory /\ base \in Memory
      /\ spc \in {"recv", "answer"} /\ hasBase \in BOOLEAN /\ inTable \in BOOLEAN
      /\ pending \in BOOLEAN /\ phase \in {"none", "asked", "live", "gone"}
      /\ reply \in BOOLEAN /\ cmem' \in Memory
  <2>1. cmem' \in Memory
    <3>2. CASE CommitPendingBlob
      <4>1. s2c # << >> /\ Head(s2c).type = "BlobCreated" /\ cmem' = Laid(Head(s2c).initial, cmem)
        BY <3>2 DEF CommitPendingBlob, Incoming
      <4>2. QED
        BY <4>1, TailIs, S2CMessageIs, LaidIs DEF Types
    <3>3. CASE ApplyBlobData
      <4>1. /\ s2c # << >> /\ Head(s2c).type = "BlobData"
            /\ cmem' = Over(Head(s2c).run, cmem) \/ cmem' = cmem
        BY <3>3 DEF ApplyBlobData, Incoming
      <4>2. QED
        BY <4>1, TailIs, S2CMessageIs, OverIs DEF Types
    <3>4. QED
      BY <3>2, <3>3
  <2>2. QED
    BY <2>1 DEF Types
<1>1. /\ s2c # << >> /\ s2c' = Tail(s2c) /\ news' = news
      /\ UNCHANGED <<phase, sphase, c2s, batch, smem, shadow, written, spc, answer, hasBase>>
  BY DEF CommitPendingBlob, ApplyBlobData, Incoming
<1>2. spc = "recv"
  BY <1>1, <1>t DEF Handshake, Inbound
<1>3. Way = s2c /\ Way' = Tail(s2c)
  BY <1>1, <1>2 DEF Way
<1>4. Head(s2c) \in S2CMessage /\ Head(s2c) = s2c[1] /\ 1 \in 1 .. Len(s2c)
  BY <1>1, <1>t, TailIs
<1>5. \A c \in Cells : cmem'[c] \in Version /\ cmem[c] \in Version
  BY <1>t DEF Memory, Version
<1>6. ASSUME NEW c \in Cells
      PROVE  /\ Silent(Head(s2c), c) => cmem'[c] = cmem[c] /\ Baseline'[c] = Baseline[c]
             /\ phase # "gone" =>
                  \/ Says(Head(s2c), c, cmem'[c])
                  \/ Silent(Head(s2c), c) /\ cmem'[c] = cmem[c]
  <2>1. CASE CommitPendingBlob
    <3> DEFINE runs == Head(s2c).initial
    <3>1. /\ Head(s2c).type = "BlobCreated" /\ cmem' = Laid(runs, cmem)
          /\ base' = IF hasBase THEN Laid(runs, base) ELSE base
      BY <2>1 DEF CommitPendingBlob, Incoming
    <3>2. runs \in Seq(Run)
      BY <1>4, <3>1, S2CMessageIs
    <3> HIDE DEF runs
    <3>3. \A v : Says(Head(s2c), c, v) <=> Says(BlobCreated(runs), c, v)
      BY <3>1, <3>2, S2CMessageIs DEF Says, runs
    <3>4. \A mem \in Memory : Laid(runs, mem)[c] \in Version
      BY <3>2, LaidIs DEF Memory, Version
    <3>5. \A mem \in Memory :
            \/ Says(Head(s2c), c, Laid(runs, mem)[c])
            \/ Silent(Head(s2c), c) /\ Laid(runs, mem)[c] = mem[c]
      <4> SUFFICES ASSUME NEW mem \in Memory
                   PROVE  \/ Says(Head(s2c), c, Laid(runs, mem)[c])
                          \/ Silent(Head(s2c), c) /\ Laid(runs, mem)[c] = mem[c]
        OBVIOUS
      <4>1. \/ Says(BlobCreated(runs), c, Laid(runs, mem)[c])
            \/ /\ \A i \in 1 .. Len(runs) : c \notin DOMAIN runs[i]
               /\ Laid(runs, mem)[c] = mem[c]
        BY <3>2, LaidIs
      <4>2. (\A i \in 1 .. Len(runs) : c \notin DOMAIN runs[i]) => Silent(BlobCreated(runs), c)
        BY <3>2, SilentIs
      <4>3. Silent(BlobCreated(runs), c) => Silent(Head(s2c), c)
        BY <3>3 DEF Silent
      <4>4. QED
        BY <3>3, <4>1, <4>2, <4>3
    <3>6. ASSUME Silent(Head(s2c), c)
          PROVE  \A mem \in Memory : Laid(runs, mem)[c] = mem[c]
      BY <3>4, <3>5, <3>6 DEF Silent
    <3>7. Silent(Head(s2c), c) => Baseline'[c] = Baseline[c]
      BY <1>1, <1>t, <3>1, <3>6 DEF Baseline
    <3>8. QED
      BY <1>t, <3>1, <3>5, <3>6, <3>7
  <2>2. CASE ApplyBlobData
    <3> DEFINE run == Head(s2c).run
    <3>1. /\ Head(s2c).type = "BlobData"
          /\ inTable => /\ cmem' = Over(run, cmem)
                        /\ base' = IF hasBase THEN Over(run, base) ELSE base
          /\ ~inTable => cmem' = cmem /\ base' = base
      BY <2>2 DEF ApplyBlobData, Incoming
    <3>2. run \in Run
      BY <1>4, <3>1, S2CMessageIs
    <3>3. \A v : Says(Head(s2c), c, v) <=> c \in DOMAIN run /\ run[c] = v
      BY <3>1 DEF Says
    <3>4. c \in DOMAIN run => run[c] \in Version
      BY <3>2, RunIs
    <3> HIDE DEF run
    <3>5. Silent(Head(s2c), c) <=> c \notin DOMAIN run
      BY <3>3, <3>4 DEF Silent
    <3>6. \A mem \in Memory : Over(run, mem)[c] = IF c \in DOMAIN run THEN run[c] ELSE mem[c]
      BY <3>2, OverIs
    <3>7. Silent(Head(s2c), c) => cmem'[c] = cmem[c] /\ base'[c] = base[c]
      BY <1>t, <3>1, <3>5, <3>6
    <3>8. Silent(Head(s2c), c) => Baseline'[c] = Baseline[c]
      BY <1>1, <3>7 DEF Baseline
    <3>9. phase # "gone" => inTable
      <4>1. ~pending /\ sphase # "none"
        BY <1>1, <1>4, <1>t, <1>2, <3>1 DEF Handshake, Inbound
      <4>2. QED
        BY <1>t, <4>1 DEF Handshake, Stages
    <3>10. phase # "gone" => Says(Head(s2c), c, cmem'[c]) \/ (Silent(Head(s2c), c) /\ cmem'[c] = cmem[c])
      BY <1>t, <3>1, <3>3, <3>5, <3>6, <3>9
    <3>11. QED
      BY <3>7, <3>8, <3>10
  <2>3. QED
    BY <2>1, <2>2
<1> QED
  BY <1>1, <1>3, <1>6

\* The cells S ships are its own when no gap of theirs holds another's.
LEMMA ShippedAreTheirs ==
    ASSUME Types, Ownership, Apart
    PROVE  Shipped(Changed(smem, shadow), CoalesceGap) \subseteq GpuCells
<1> DEFINE changed == Changed(smem, shadow)
<1>1. changed \subseteq GpuCells
  BY CellsAre DEF Ownership, Changed
<1>2. GpuCells \subseteq Nat /\ Cells \subseteq Nat /\ Gap \in Nat
  BY CellsAre
<1> HIDE DEF changed
<1>3. ASSUME NEW c \in Cells, NEW a \in changed, NEW b \in changed,
             a < c, c < b, b - a - 1 <= CoalesceGap
      PROVE  c \in GpuCells
  <2>1. a \in Nat /\ b \in Nat /\ c \in Nat /\ a \in GpuCells /\ b \in GpuCells
    BY <1>1, <1>2
  <2>2. ~internal
    <3> SUFFICES ASSUME internal PROVE FALSE
      OBVIOUS
    <3>1. CoalesceGap = 0
      BY DEF CoalesceGap
    <3>2. b - a - 1 <= 0
      BY <1>3, <3>1
    <3>3. QED
      BY <1>3, <2>1, <3>2
  <2>3. a + 1 .. b - 1 \subseteq GpuCells
    BY <1>2, <1>3, <2>1, <2>2 DEF Apart, CoalesceGap
  <2>4. c \in a + 1 .. b - 1
    BY <1>3, <2>1
  <2>5. QED
    BY <2>3, <2>4
<1> QED
  BY <1>1, <1>3 DEF Shipped, changed

\* S says nothing of the application's cells.
LEMMA TheirsStep ==
    ASSUME Types, Handshake, Ownership, Apart, Theirs, [Next]_vars
    PROVE  Theirs'
<1> USE DEF vars, vtestVars, tableVars, watcherVars, messageVars, sharedVars, progressVars
<1>t. /\ s2c \in Seq(S2CMessage) /\ news \in Seq(S2CMessage)
      /\ smem \in Memory /\ shadow \in Memory /\ spc \in {"recv", "answer"}
      /\ c2s \in Seq(C2SMessage)
  BY DEF Types
<1>1. CASE \/ AskForBlob \/ ReceiveBlob \/ CpuWrite \/ UnrefBlob \/ TakeDelta
           \/ MessagesForDelta \/ ShipBatch \/ AnswerCreate \/ CopyIn \/ ReceiveDelta
           \/ ReceiveUnref \/ EngineWrite \/ UNCHANGED vars
  BY <1>1, WayStays DEF Theirs
<1>2. CASE CommitPendingBlob \/ ApplyBlobData
  <2>1. s2c # << >> /\ Way = s2c /\ Way' = Tail(s2c) /\ news' = news
    BY <1>2, ReaderDoes
  <2>2. \A i \in 1 .. Len(Way') : Way'[i] = Way[i + 1] /\ i + 1 \in 1 .. Len(Way)
    BY <1>t, <2>1, TailIs
  <2>3. QED
    BY <2>1, <2>2 DEF Theirs
<1>3. CASE ReceiveCreate
  <2> DEFINE changed == Changed(smem, Zeros)
  <2>1. /\ spc' = "answer" /\ answer' = Runs(smem, changed) /\ news' = news
        /\ Carries(c2s, "CreateBlob")
    BY <1>3, <1>t, CarriesPop DEF ReceiveCreate, Requested
  <2>2. shadow = Zeros
    BY <2>1 DEF Handshake, Stages, Ownership
  <2>3. changed \in SUBSET Cells /\ \A c \in CpuCells : c \notin changed
    BY <2>2 DEF Ownership, Changed
  <2> HIDE DEF changed
  <2>4. /\ answer' \in Seq(Run)
        /\ \A i \in 1 .. Len(answer') : DOMAIN answer'[i] \subseteq changed
    BY <1>t, <2>1, <2>3, RunsAre
  <2>5. \A c \in CpuCells : Silent(BlobCreated(answer'), c)
    BY <2>3, <2>4, SilentIs
  <2>6. Way' = << BlobCreated(answer') >>
    BY <2>1 DEF Way
  <2>7. \A i \in 1 .. Len(Way') : Way'[i] = BlobCreated(answer')
    BY <2>6
  <2>8. QED
    BY <2>1, <2>5, <2>7 DEF Theirs
<1>4. CASE TakeBytesSWrote
  <2> DEFINE cells == Shipped(Changed(smem, shadow), CoalesceGap)
             runs == Runs(smem, cells)
  <2>1. /\ news' = DataMessages(runs) /\ UNCHANGED <<spc, answer, s2c>>
    BY <1>4 DEF TakeBytesSWrote
  <2>2. cells \subseteq GpuCells /\ cells \in SUBSET Cells
    BY ShippedAreTheirs, MappingsAre
  <2> HIDE DEF cells
  <2>3. runs \in Seq(Run) /\ \A i \in 1 .. Len(runs) : DOMAIN runs[i] \subseteq cells
    BY <1>t, <2>2, RunsAre
  <2> HIDE DEF runs
  <2>4. /\ Len(news') = Len(runs)
        /\ \A i \in 1 .. Len(runs) : news'[i] = BlobData(runs[i]) /\ runs[i] \in Run
    BY <2>1, <2>3, DataMessagesAre
  <2>5. \A c \in CpuCells, i \in 1 .. Len(news') : Silent(news'[i], c)
    BY <2>2, <2>3, <2>4, SilentIs, CellsAre
  <2>6. Way' = Way
    BY <2>1 DEF Way
  <2>7. QED
    BY <2>5, <2>6 DEF Theirs
<1>5. CASE ShipNews
  <2>1. /\ s2c' = s2c \o news /\ news' = << >> /\ UNCHANGED <<spc, answer>>
    BY <1>5 DEF ShipNews
  <2>2. Len(news') = 0
    BY <2>1
  <2>3. CASE spc = "answer"
    <3>1. Way' = Way
      BY <2>1, <2>3 DEF Way
    <3>2. QED
      BY <2>2, <3>1 DEF Theirs
  <2>4. CASE spc = "recv"
    <3>1. Way = s2c /\ Way' = s2c \o news
      BY <2>1, <2>4 DEF Way
    <3>2. \A i \in 1 .. Len(Way') :
            \/ i \in 1 .. Len(s2c) /\ Way'[i] = s2c[i]
            \/ i - Len(s2c) \in 1 .. Len(news) /\ Way'[i] = news[i - Len(s2c)]
      BY <1>t, <3>1, ConcatIs
    <3>3. QED
      BY <2>2, <3>1, <3>2 DEF Theirs
  <2>5. QED
    BY <1>t, <2>3, <2>4
<1> QED
  BY <1>1, <1>2, <1>3, <1>4, <1>5 DEF Next, Step

-----------------------------------------------------------------------------
(* The versions of a cell, from its writer to the other side's mapping.    *)

\* Versions are natural numbers, and a mapping holds one per cell.
LEMMA VersionIs ==
    /\ Version \subseteq Nat
    /\ \A mem \in Memory, c \in Cells : mem[c] \in Version /\ mem[c] \in Nat
    /\ \A c \in Cells : Zeros[c] = 0
  BY CellsAre DEF Version, Memory, Zeros

\* What copy_in does to S's mapping is what the first message on the link says.
LEMMA CopyInDoes ==
    ASSUME Types, Handshake, Ownership, CopyIn
    PROVE  /\ c2s # << >> /\ c2s' = Tail(c2s)
           /\ UNCHANGED <<phase, sphase, cmem, base, hasBase, batch, written>>
           /\ \A c \in GpuCells : smem'[c] = smem[c] /\ shadow'[c] = shadow[c]
           /\ sphase # "gone" => \A c \in Cells :
                \/ Says(Head(c2s), c, smem'[c])
                \/ Silent(Head(c2s), c) /\ smem'[c] = smem[c]
<1> USE DEF vtestVars, tableVars, watcherVars
<1>t. /\ c2s \in Seq(C2SMessage) /\ smem \in Memory /\ shadow \in Memory
      /\ sphase \in {"none", "live", "gone"}
  BY DEF Types
<1>1. /\ c2s # << >> /\ Head(c2s).type = "BlobData" /\ c2s' = Tail(c2s)
      /\ UNCHANGED <<phase, sphase, cmem, base, hasBase, batch, written>>
      /\ sphase = "live" => /\ smem' = Over(Head(c2s).run, smem)
                            /\ shadow' = Over(Head(c2s).run, shadow)
      /\ sphase # "live" => smem' = smem /\ shadow' = shadow
  BY DEF CopyIn, Requested
<1> DEFINE run == Head(c2s).run
<1>2. Head(c2s) \in C2SMessage /\ Head(c2s) = c2s[1] /\ 1 \in 1 .. Len(c2s)
  BY <1>t, <1>1, TailIs
<1>3. run \in Run /\ DOMAIN run \subseteq CpuCells
  BY <1>1, <1>2, C2SMessageIs DEF Ownership
<1>4. \A v, c : Says(Head(c2s), c, v) <=> c \in DOMAIN run /\ run[c] = v
  BY <1>1 DEF Says
<1>5. \A c \in Cells :
        /\ Over(run, smem)[c] = IF c \in DOMAIN run THEN run[c] ELSE smem[c]
        /\ Over(run, shadow)[c] = IF c \in DOMAIN run THEN run[c] ELSE shadow[c]
  BY <1>t, <1>3, OverIs
<1>6. sphase # "none"
  <2>1. Carries(c2s, "BlobData")
    BY <1>1, <1>2 DEF Carries
  <2>2. phase # "none" /\ ~pending
    BY <2>1 DEF Handshake, Outbound
  <2>3. ~Carries(c2s, "CreateBlob")
    BY <2>2 DEF Handshake, Outbound, Carries
  <2>4. QED
    BY <2>2, <2>3 DEF Handshake, Stages
<1>7. \A c \in Cells : c \notin DOMAIN run => Silent(Head(c2s), c)
  BY <1>4 DEF Silent
<1> HIDE DEF run
<1>8. \A c \in GpuCells : smem'[c] = smem[c] /\ shadow'[c] = shadow[c]
  BY <1>1, <1>3, <1>5, CellsAre DEF run
<1>9. sphase # "gone" => \A c \in Cells :
         \/ Says(Head(c2s), c, smem'[c])
         \/ Silent(Head(c2s), c) /\ smem'[c] = smem[c]
  <2> SUFFICES ASSUME sphase # "gone", NEW c \in Cells
               PROVE  \/ Says(Head(c2s), c, smem'[c])
                      \/ Silent(Head(c2s), c) /\ smem'[c] = smem[c]
    OBVIOUS
  <2>1. smem' = Over(run, smem)
    BY <1>t, <1>1, <1>6 DEF run
  <2>2. QED
    BY <1>4, <1>5, <1>7, <2>1
<1> QED
  BY <1>1, <1>8, <1>9

\* What each side takes the other to have is never newer than what it has.
LEMMA VersionsStep ==
    ASSUME Types, Handshake, Ownership, Theirs, Versions, [Next]_vars
    PROVE  Versions'
<1> USE DEF vars, vtestVars, tableVars, watcherVars, messageVars, sharedVars, progressVars
<1>t. /\ cmem \in Memory /\ smem \in Memory /\ shadow \in Memory /\ written \in Memory
      /\ Baseline \in Memory /\ s2c \in Seq(S2CMessage)
  BY MappingsAre DEF Types
<1>v. /\ \A c \in GpuCells : written[c] = smem[c] /\ shadow[c] <= smem[c]
      /\ \A c \in CpuCells : written[c] = cmem[c] /\ Baseline[c] <= cmem[c]
  BY DEF Versions
<1>n. \A c \in Cells : /\ cmem[c] \in Nat /\ smem[c] \in Nat /\ shadow[c] \in Nat
                       /\ written[c] \in Nat /\ Baseline[c] \in Nat
  BY <1>t, VersionIs
<1>1. CASE \/ AskForBlob \/ ReceiveBlob \/ UnrefBlob \/ TakeDelta \/ ShipBatch \/ AnswerCreate
           \/ ReceiveDelta \/ ReceiveUnref \/ ShipNews \/ UNCHANGED vars
  <2>1. UNCHANGED <<cmem, smem, shadow, written, base, hasBase>>
    BY <1>1 DEF AskForBlob, ReceiveBlob, UnrefBlob, TakeDelta, ShipBatch, AnswerCreate,
                ReceiveDelta, ReceiveUnref, ShipNews
  <2>2. Baseline' = Baseline
    BY <2>1 DEF Baseline
  <2>3. QED
    BY <1>v, <2>1, <2>2 DEF Versions
<1>2. CASE CpuWrite
  <2>1. PICK d \in CpuCells : /\ written' = [written EXCEPT ![d] = @ + 1]
                              /\ cmem' = [cmem EXCEPT ![d] = written[d] + 1]
    BY <1>2 DEF CpuWrite
  <2>2. UNCHANGED <<smem, shadow, base, hasBase>>
    BY <1>2 DEF CpuWrite
  <2>3. Baseline' = Baseline
    BY <2>2 DEF Baseline
  <2>4. \A c \in Cells :
          /\ written'[c] = IF c = d THEN written[c] + 1 ELSE written[c]
          /\ cmem'[c] = IF c = d THEN written[c] + 1 ELSE cmem[c]
    BY <1>t, <2>1, CellsAre DEF Memory
  <2>5. \A c \in GpuCells : written'[c] = smem'[c] /\ shadow'[c] <= smem'[c]
    BY <1>v, <2>2, <2>4, CellsAre
  <2>6. \A c \in CpuCells : written'[c] = cmem'[c] /\ Baseline'[c] <= cmem'[c]
    BY <1>n, <1>v, <2>3, <2>4, CellsAre
  <2>7. QED
    BY <2>5, <2>6 DEF Versions
<1>3. CASE EngineWrite
  <2>1. PICK d \in GpuCells : /\ written' = [written EXCEPT ![d] = @ + 1]
                              /\ smem' = [smem EXCEPT ![d] = written[d] + 1]
    BY <1>3 DEF EngineWrite
  <2>2. UNCHANGED <<cmem, shadow, base, hasBase>>
    BY <1>3 DEF EngineWrite
  <2>3. Baseline' = Baseline
    BY <2>2 DEF Baseline
  <2>4. \A c \in Cells :
          /\ written'[c] = IF c = d THEN written[c] + 1 ELSE written[c]
          /\ smem'[c] = IF c = d THEN written[c] + 1 ELSE smem[c]
    BY <1>t, <2>1, CellsAre DEF Memory
  <2>5. \A c \in CpuCells : written'[c] = cmem'[c] /\ Baseline'[c] <= cmem'[c]
    BY <1>v, <2>2, <2>3, <2>4, CellsAre
  <2>6. \A c \in GpuCells : written'[c] = smem'[c] /\ shadow'[c] <= smem'[c]
    BY <1>n, <1>v, <2>2, <2>4, CellsAre
  <2>7. QED
    BY <2>5, <2>6 DEF Versions
<1>4. CASE MessagesForDelta
  <2>1. UNCHANGED <<cmem, smem, shadow, written>>
    BY <1>4 DEF MessagesForDelta
  <2>2. \A c \in CpuCells : Baseline'[c] <= cmem[c]
    <3>1. CASE inTable
      <4>1. Baseline' = Adopt(Baseline, cmem, Changed(cmem, Baseline))
        BY <1>4, <3>1 DEF MessagesForDelta, Baseline
      <4>2. QED
        BY <1>n, <1>v, <4>1, CellsAre DEF Adopt
    <3>2. CASE ~inTable
      <4>1. Baseline' = Baseline
        BY <1>4, <3>2 DEF MessagesForDelta, Baseline
      <4>2. QED
        BY <1>v, <4>1
    <3>3. QED
      BY <3>1, <3>2
  <2>3. QED
    BY <1>v, <2>1, <2>2 DEF Versions
<1>5. CASE CommitPendingBlob \/ ApplyBlobData
  <2>1. /\ s2c # << >> /\ Way = s2c
        /\ UNCHANGED <<smem, shadow, written>>
        /\ \A c \in Cells :
             Silent(Head(s2c), c) => cmem'[c] = cmem[c] /\ Baseline'[c] = Baseline[c]
    BY <1>5, ReaderDoes
  <2>2. \A c \in CpuCells : Silent(Head(s2c), c)
    BY <1>t, <2>1, TailIs DEF Theirs
  <2>3. QED
    BY <1>v, <2>1, <2>2, CellsAre DEF Versions
<1>6. CASE ReceiveCreate
  <2>1. /\ shadow' = Adopt(Zeros, smem, Changed(smem, Zeros))
        /\ UNCHANGED <<cmem, smem, written, base, hasBase>>
    BY <1>6 DEF ReceiveCreate
  <2>2. \A c \in Cells : shadow'[c] = smem[c]
    BY <2>1 DEF Adopt, Changed
  <2>3. Baseline' = Baseline
    BY <2>1 DEF Baseline
  <2>4. QED
    BY <1>n, <1>v, <2>1, <2>2, <2>3, CellsAre DEF Versions
<1>7. CASE CopyIn
  <2>1. /\ UNCHANGED <<cmem, base, hasBase, written>>
        /\ \A c \in GpuCells : smem'[c] = smem[c] /\ shadow'[c] = shadow[c]
    BY <1>7, CopyInDoes
  <2>2. Baseline' = Baseline
    BY <2>1 DEF Baseline
  <2>3. QED
    BY <1>v, <2>1, <2>2 DEF Versions
<1>8. CASE TakeBytesSWrote
  <2> DEFINE cells == Shipped(Changed(smem, shadow), CoalesceGap)
  <2>1. /\ shadow' = Adopt(shadow, smem, cells)
        /\ UNCHANGED <<cmem, smem, written, base, hasBase>>
    BY <1>8 DEF TakeBytesSWrote
  <2> HIDE DEF cells
  <2>2. Baseline' = Baseline
    BY <2>1 DEF Baseline
  <2>3. \A c \in GpuCells : shadow'[c] <= smem[c]
    BY <1>n, <1>v, <2>1, CellsAre DEF Adopt
  <2>4. QED
    BY <1>v, <2>1, <2>2, <2>3 DEF Versions
<1> QED
  BY <1>1, <1>2, <1>3, <1>4, <1>5, <1>6, <1>7, <1>8 DEF Next, Step

\* From S to C, for each cell S writes: what C has, then what is on its way,
\* then what the progress thread holds, then S's shadow.
LEMMA ToCStep ==
    ASSUME Types, Handshake, Untouched, Ownership, Theirs, Versions, ToC, [Next]_vars
    PROVE  ToC'
<1> USE DEF vars, vtestVars, tableVars, watcherVars, messageVars, sharedVars, progressVars
<1>t. /\ s2c \in Seq(S2CMessage) /\ news \in Seq(S2CMessage) /\ c2s \in Seq(C2SMessage)
      /\ cmem \in Memory /\ smem \in Memory /\ shadow \in Memory
      /\ spc \in {"recv", "answer"} /\ phase \in {"none", "asked", "live", "gone"}
      /\ Zeros \in Memory
  BY MappingsAre DEF Types
<1> SUFFICES ASSUME phase' # "gone", NEW c \in GpuCells
             PROVE  \E mid \in Version :
                      /\ cmem'[c] <= mid /\ mid <= shadow'[c]
                      /\ Feeds(Way', c, cmem'[c], mid) /\ Feeds(news', c, mid, shadow'[c])
  BY DEF ToC
<1>c. c \in Cells
  BY CellsAre
<1>g. phase # "gone"
  BY DEF Next, Step, AskForBlob, ReceiveBlob, CpuWrite, UnrefBlob, TakeDelta,
         MessagesForDelta, ShipBatch, CommitPendingBlob, ApplyBlobData, ReceiveCreate,
         AnswerCreate, CopyIn, ReceiveDelta, ReceiveUnref, EngineWrite, TakeBytesSWrote,
         ShipNews
<1>m. PICK mid \in Version : /\ cmem[c] <= mid /\ mid <= shadow[c]
                             /\ Feeds(Way, c, cmem[c], mid) /\ Feeds(news, c, mid, shadow[c])
  BY <1>g DEF ToC
<1>n. /\ cmem[c] \in Version /\ smem[c] \in Version /\ shadow[c] \in Version
      /\ cmem[c] \in Nat /\ smem[c] \in Nat /\ shadow[c] \in Nat /\ mid \in Nat
      /\ Version \subseteq Nat /\ 0 \in Version
  BY <1>c, <1>t, VersionIs
<1>1. CASE \/ AskForBlob \/ ReceiveBlob \/ CpuWrite \/ UnrefBlob \/ TakeDelta
           \/ MessagesForDelta \/ ShipBatch \/ AnswerCreate \/ CopyIn \/ ReceiveDelta
           \/ ReceiveUnref \/ EngineWrite \/ UNCHANGED vars
  <2>1. Way' = Way /\ news' = news
    BY <1>1, WayStays
  <2>2. cmem'[c] = cmem[c] /\ shadow'[c] = shadow[c]
    <3>1. CASE CpuWrite
      <4>1. PICK d \in CpuCells : cmem' = [cmem EXCEPT ![d] = written[d] + 1]
        BY <3>1 DEF CpuWrite
      <4>2. c # d
        BY CellsAre
      <4>3. shadow' = shadow
        BY <3>1 DEF CpuWrite
      <4>4. QED
        BY <1>c, <1>t, <4>1, <4>2, <4>3 DEF Memory
    <3>2. CASE CopyIn
      BY <3>2, CopyInDoes
    <3>3. CASE MessagesForDelta
      BY <3>3 DEF MessagesForDelta
    <3>4. CASE \/ AskForBlob \/ ReceiveBlob \/ UnrefBlob \/ TakeDelta
               \/ ShipBatch \/ AnswerCreate \/ ReceiveDelta
               \/ ReceiveUnref \/ EngineWrite \/ UNCHANGED vars
      BY <3>4 DEF AskForBlob, ReceiveBlob, UnrefBlob, TakeDelta, ShipBatch, AnswerCreate,
                  ReceiveDelta, ReceiveUnref, EngineWrite
    <3>5. QED
      BY <1>1, <3>1, <3>2, <3>3, <3>4
  <2>3. QED
    BY <1>m, <2>1, <2>2
<1>2. CASE CommitPendingBlob \/ ApplyBlobData
  <2>1. /\ s2c # << >> /\ Way = s2c /\ Way' = Tail(s2c) /\ news' = news /\ shadow' = shadow
        /\ \/ Says(Head(s2c), c, cmem'[c])
           \/ Silent(Head(s2c), c) /\ cmem'[c] = cmem[c]
    BY <1>2, <1>c, <1>g, ReaderDoes
  <2>2. cmem' \in Memory
    BY TypesStep DEF Types
  <2>3. cmem'[c] \in Version /\ cmem'[c] \in Nat
    BY <1>c, <2>2, VersionIs
  <2>4. cmem[c] <= cmem'[c] /\ Feeds(Way', c, cmem'[c], mid)
    BY <1>m, <1>n, <1>t, <2>1, <2>3, FeedsPop
  <2>5. cmem'[c] <= mid
    <3>1. 1 \in 1 .. Len(s2c) /\ Head(s2c) = s2c[1]
      BY <1>t, <2>1, TailIs
    <3>2. Says(s2c[1], c, cmem'[c]) => cmem'[c] <= mid
      BY <1>m, <2>1, <2>3, <3>1 DEF Feeds
    <3>3. QED
      BY <1>m, <2>1, <3>1, <3>2
  <2>6. QED
    BY <1>m, <2>1, <2>4, <2>5
<1>3. CASE ReceiveCreate
  <2> DEFINE changed == Changed(smem, Zeros)
  <2>1. /\ spc = "recv" /\ spc' = "answer" /\ answer' = Runs(smem, changed)
        /\ shadow' = Adopt(Zeros, smem, changed)
        /\ Carries(c2s, "CreateBlob") /\ cmem' = cmem /\ news' = news
    BY <1>3, <1>t, CarriesPop DEF ReceiveCreate, Requested
  <2>2. sphase = "none" /\ s2c = << >> /\ news = << >> /\ shadow = Zeros
    BY <2>1 DEF Handshake, Stages, Inbound, Ownership
  <2>3. Way = << >>
    BY <2>1, <2>2 DEF Way
  <2>4. cmem[c] = mid /\ mid = shadow[c]
    BY <1>m, <1>n, <2>2, <2>3, FeedsNothing
  <2>5. cmem[c] = Zeros[c] /\ Zeros[c] = 0
    BY <1>c, <2>2, <2>4, VersionIs
  <2>6. changed \in SUBSET Cells
    BY MappingsAre
  <2> HIDE DEF changed
  <2>7. Zeros[c] <= smem[c]
    BY <1>n, <2>5
  <2>8. /\ Zeros[c] <= shadow'[c] /\ shadow'[c] \in Version
    BY <1>c, <1>t, <2>1, <2>6, <2>7, DiffFeeds
  <2>9. Feeds(<< BlobCreated(Runs(smem, changed)) >>, c, Zeros[c], shadow'[c])
    BY <1>c, <1>t, <2>1, <2>6, <2>7, CreatedFeeds
  <2>10. Way' = << BlobCreated(Runs(smem, changed)) >>
    BY <2>1 DEF Way
  <2>11. Feeds(Way', c, cmem'[c], shadow'[c])
    BY <2>1, <2>5, <2>9, <2>10
  <2>12. Feeds(news', c, shadow'[c], shadow'[c])
    BY <2>1, <2>2, <2>8, FeedsNothing
  <2>13. cmem'[c] <= shadow'[c] /\ shadow'[c] <= shadow'[c]
    <3>1. cmem'[c] = Zeros[c]
      BY <2>1, <2>5
    <3>2. shadow'[c] \in Nat
      BY <1>n, <2>8
    <3>3. QED
      BY <2>8, <3>1, <3>2
  <2>14. QED
    BY <2>8, <2>11, <2>12, <2>13
<1>4. CASE TakeBytesSWrote
  <2> DEFINE cells == Shipped(Changed(smem, shadow), CoalesceGap)
  <2>1. /\ ppc = "poll" /\ news' = DataMessages(Runs(smem, cells))
        /\ shadow' = Adopt(shadow, smem, cells)
        /\ UNCHANGED <<spc, answer, s2c, cmem>>
    BY <1>4 DEF TakeBytesSWrote
  <2>2. cells \in SUBSET Cells
    BY MappingsAre
  <2> HIDE DEF cells
  <2>3. news = << >>
    BY <2>1 DEF Handshake, Inbound
  <2>4. mid = shadow[c]
    BY <1>m, <1>n, <2>3, FeedsNothing
  <2>5. shadow[c] <= smem[c]
    BY DEF Versions
  <2>6. /\ shadow[c] <= shadow'[c] /\ Feeds(news', c, shadow[c], shadow'[c])
    BY <1>c, <1>t, <2>1, <2>2, <2>5, DiffFeeds
  <2>7. Way' = Way
    BY <2>1 DEF Way
  <2>8. QED
    BY <1>m, <2>1, <2>4, <2>6, <2>7
<1>5. CASE ShipNews
  <2>1. /\ s2c' = s2c \o news /\ news' = << >>
        /\ UNCHANGED <<spc, answer, cmem, shadow>>
    BY <1>5 DEF ShipNews
  <2>2. CASE spc = "answer"
    <3>1. news = << >>
      BY <2>2 DEF Handshake, Inbound
    <3>2. Way' = Way
      BY <2>1, <2>2 DEF Way
    <3>3. QED
      BY <1>m, <2>1, <3>1, <3>2
  <2>3. CASE spc = "recv"
    <3>1. Way = s2c /\ Way' = s2c \o news
      BY <2>1, <2>3 DEF Way
    <3>2. Feeds(Way', c, cmem[c], shadow[c])
      BY <1>m, <1>n, <1>t, <3>1, FeedsJoin
    <3>3. Feeds(news', c, shadow[c], shadow[c])
      BY <1>n, <2>1, FeedsNothing
    <3>4. cmem[c] <= shadow[c] /\ shadow[c] <= shadow[c]
      BY <1>m, <1>n
    <3>5. QED
      BY <1>n, <2>1, <3>2, <3>3, <3>4
  <2>4. QED
    BY <1>t, <2>2, <2>3
<1> QED
  BY <1>1, <1>2, <1>3, <1>4, <1>5 DEF Next, Step

\* From C to S, for each cell the application writes: what S has, then what is
\* on its way, then the watcher's batch, then C's baseline.
LEMMA ToSStep ==
    ASSUME Types, Handshake, Untouched, Ownership, Theirs, Versions, ToS, [Next]_vars
    PROVE  ToS'
<1> USE DEF vars, vtestVars, tableVars, watcherVars, messageVars, sharedVars, progressVars
<1>t. /\ c2s \in Seq(C2SMessage) /\ batch \in Seq(C2SMessage) /\ s2c \in Seq(S2CMessage)
      /\ cmem \in Memory /\ smem \in Memory /\ Baseline \in Memory /\ names \in BOOLEAN
      /\ sphase \in {"none", "live", "gone"}
  BY MappingsAre DEF Types
<1> SUFFICES ASSUME sphase' # "gone", NEW c \in CpuCells
             PROVE  \E mid \in Version :
                      /\ smem'[c] <= mid /\ mid <= Baseline'[c]
                      /\ Feeds(c2s', c, smem'[c], mid) /\ Feeds(batch', c, mid, Baseline'[c])
  BY DEF ToS
<1>c. c \in Cells
  BY CellsAre
<1>g. sphase # "gone"
  <2>1. CASE ReceiveCreate
    <3>1. Carries(c2s, "CreateBlob")
      BY <1>t, <2>1, CarriesPop DEF ReceiveCreate, Requested
    <3>2. QED
      BY <3>1 DEF Handshake, Stages
  <2>2. CASE ~ReceiveCreate
    BY <2>2 DEF Next, Step, AskForBlob, ReceiveBlob, CpuWrite, UnrefBlob, TakeDelta,
         MessagesForDelta, ShipBatch, CommitPendingBlob, ApplyBlobData,
         AnswerCreate, CopyIn, ReceiveDelta, ReceiveUnref, EngineWrite, TakeBytesSWrote,
         ShipNews
  <2>3. QED
    BY <2>1, <2>2
<1>m. PICK mid \in Version : /\ smem[c] <= mid /\ mid <= Baseline[c]
                             /\ Feeds(c2s, c, smem[c], mid) /\ Feeds(batch, c, mid, Baseline[c])
  BY <1>g DEF ToS
<1>n. /\ cmem[c] \in Version /\ smem[c] \in Version /\ Baseline[c] \in Version
      /\ cmem[c] \in Nat /\ smem[c] \in Nat /\ Baseline[c] \in Nat /\ mid \in Nat
      /\ Version \subseteq Nat
  BY <1>c, <1>t, VersionIs
<1>1. CASE \/ ReceiveBlob \/ TakeDelta \/ AnswerCreate \/ TakeBytesSWrote
           \/ ShipNews \/ CpuWrite \/ UNCHANGED vars
  <2>1. UNCHANGED <<smem, base, hasBase, c2s, batch>>
    BY <1>1 DEF ReceiveBlob, TakeDelta, AnswerCreate, TakeBytesSWrote, ShipNews, CpuWrite
  <2>2. Baseline' = Baseline
    BY <2>1 DEF Baseline
  <2>3. QED
    BY <1>m, <2>1, <2>2
<1>2. CASE EngineWrite
  <2>1. UNCHANGED <<base, hasBase, c2s, batch>>
    BY <1>2 DEF EngineWrite
  <2>2. PICK d \in GpuCells : smem' = [smem EXCEPT ![d] = written[d] + 1]
    BY <1>2 DEF EngineWrite
  <2>3. c # d
    BY CellsAre
  <2>4. smem'[c] = smem[c]
    BY <1>c, <1>t, <2>2, <2>3 DEF Memory
  <2>5. Baseline' = Baseline
    BY <2>1 DEF Baseline
  <2>6. QED
    BY <1>m, <2>1, <2>4, <2>5
<1>3. CASE CommitPendingBlob \/ ApplyBlobData
  <2>1. /\ s2c # << >> /\ Way = s2c
        /\ UNCHANGED <<smem, c2s, batch>>
        /\ Silent(Head(s2c), c) => Baseline'[c] = Baseline[c]
    BY <1>3, <1>c, ReaderDoes
  <2>2. Silent(Head(s2c), c)
    BY <1>t, <2>1, TailIs DEF Theirs
  <2>3. QED
    BY <1>m, <2>1, <2>2
<1>4. CASE AskForBlob \/ UnrefBlob
  <2>1. /\ c2s' = Append(c2s, CreateBlob) \/ c2s' = Append(c2s, UnrefResource)
        /\ UNCHANGED <<smem, base, hasBase, batch>>
    BY <1>4 DEF AskForBlob, UnrefBlob
  <2>2. PICK m \in C2SMessage : m.type \notin {"BlobData", "BlobCreated"} /\ c2s' = Append(c2s, m)
    BY <2>1, C2SMessageIs
  <2>3. Silent(m, c)
    BY <2>2, SilentIs
  <2>4. Feeds(c2s', c, smem[c], mid)
    BY <1>m, <1>n, <1>t, <2>2, <2>3, FeedsPush
  <2>5. Baseline' = Baseline
    BY <2>1 DEF Baseline
  <2>6. QED
    BY <1>m, <2>1, <2>4, <2>5
<1>5. CASE MessagesForDelta
  <2> DEFINE changed == Changed(cmem, Baseline)
             sent == DataMessages(Runs(cmem, changed))
             delta == RingDelta(names)
  <2>1. /\ wpc = "diff" /\ UNCHANGED <<smem, c2s>>
        /\ inTable => /\ batch' = Append(sent, delta)
                      /\ base' = Adopt(Baseline, cmem, changed) /\ hasBase' = TRUE
        /\ ~inTable => batch' = << delta >> /\ UNCHANGED <<base, hasBase>>
    BY <1>5 DEF MessagesForDelta
  <2>2. batch = << >>
    BY <2>1 DEF Handshake, Outbound
  <2>3. mid = Baseline[c]
    BY <1>m, <1>n, <2>2, FeedsNothing
  <2>4. changed \in SUBSET Cells
    BY MappingsAre
  <2>5. delta \in C2SMessage /\ Silent(delta, c)
    <3>1. delta \in C2SMessage /\ delta.type = "RingDelta"
      BY <1>t, C2SMessageIs
    <3>2. QED
      BY <3>1, SilentIs
  <2>6. sent \in Seq(C2SMessage)
    BY <1>t, <2>4, RunsAre, DataMessagesAre
  <2> DEFINE hi == Adopt(Baseline, cmem, changed)[c]
  <2>7. Baseline[c] <= hi /\ hi \in Version /\ Feeds(sent, c, Baseline[c], hi)
    <3>1. Baseline[c] <= cmem[c]
      BY DEF Versions
    <3>2. QED
      BY <1>c, <1>t, <2>4, <3>1, DiffFeeds
  <2> HIDE DEF sent, delta, hi
  <2>8. CASE inTable
    <3>1. Baseline'[c] = hi
      BY <2>1, <2>8 DEF Baseline, hi
    <3>2. Feeds(batch', c, Baseline[c], hi)
      BY <1>n, <2>1, <2>5, <2>6, <2>7, <2>8, FeedsPush
    <3>3. QED
      BY <1>m, <2>1, <2>3, <2>7, <3>1, <3>2
  <2>9. CASE ~inTable
    <3>1. Baseline' = Baseline
      BY <2>1, <2>9 DEF Baseline
    <3>2. << >> \in Seq(C2SMessage) /\ << delta >> = Append(<< >>, delta)
      OBVIOUS
    <3>3. Feeds(<< >>, c, Baseline[c], Baseline[c])
      BY <1>n, FeedsNothing
    <3>4. Feeds(batch', c, Baseline[c], Baseline[c])
      BY <1>n, <2>1, <2>5, <2>9, <3>2, <3>3, FeedsPush
    <3>5. QED
      BY <1>m, <2>1, <2>3, <3>1, <3>4
  <2>10. QED
    BY <2>8, <2>9
<1>6. CASE ShipBatch
  <2>1. /\ c2s' = c2s \o batch /\ batch' = << >> /\ UNCHANGED <<smem, base, hasBase>>
    BY <1>6 DEF ShipBatch
  <2>2. Baseline' = Baseline
    BY <2>1 DEF Baseline
  <2>3. Feeds(c2s', c, smem[c], Baseline[c])
    BY <1>m, <1>n, <1>t, <2>1, FeedsJoin
  <2>4. Feeds(batch', c, Baseline[c], Baseline[c])
    BY <1>n, <2>1, FeedsNothing
  <2>5. smem[c] <= Baseline[c] /\ Baseline[c] <= Baseline[c]
    BY <1>m, <1>n
  <2>6. QED
    BY <1>n, <2>1, <2>2, <2>3, <2>4, <2>5
<1>7. CASE ReceiveCreate \/ ReceiveDelta \/ ReceiveUnref
  <2>1. /\ c2s # << >> /\ c2s' = Tail(c2s)
        /\ Head(c2s).type \notin {"BlobData", "BlobCreated"}
        /\ UNCHANGED <<smem, base, hasBase, batch>>
    BY <1>7 DEF ReceiveCreate, ReceiveDelta, ReceiveUnref, Requested
  <2>2. Silent(Head(c2s), c)
    BY <2>1, SilentIs
  <2>3. Feeds(c2s', c, smem[c], mid)
    BY <1>m, <1>n, <1>t, <2>1, <2>2, FeedsPop
  <2>4. Baseline' = Baseline
    BY <2>1 DEF Baseline
  <2>5. QED
    BY <1>m, <2>1, <2>3, <2>4
<1>8. CASE CopyIn
  <2>1. /\ c2s # << >> /\ c2s' = Tail(c2s) /\ UNCHANGED <<base, hasBase, batch>>
        /\ \/ Says(Head(c2s), c, smem'[c])
           \/ Silent(Head(c2s), c) /\ smem'[c] = smem[c]
    BY <1>8, <1>c, <1>g, CopyInDoes
  <2>2. smem' \in Memory
    BY TypesStep DEF Types
  <2>3. smem'[c] \in Version /\ smem'[c] \in Nat
    BY <1>c, <2>2, VersionIs
  <2>4. Feeds(c2s', c, smem'[c], mid)
    BY <1>m, <1>n, <1>t, <2>1, <2>3, FeedsPop
  <2>5. smem'[c] <= mid
    <3>1. 1 \in 1 .. Len(c2s) /\ Head(c2s) = c2s[1]
      BY <1>t, <2>1, TailIs
    <3>2. Says(c2s[1], c, smem'[c]) => smem'[c] <= mid
      BY <1>m, <2>1, <2>3, <3>1 DEF Feeds
    <3>3. QED
      BY <1>m, <2>1, <3>1, <3>2
  <2>6. Baseline' = Baseline
    BY <2>1 DEF Baseline
  <2>7. QED
    BY <1>m, <2>1, <2>4, <2>5, <2>6
<1> QED
  BY <1>1, <1>2, <1>3, <1>4, <1>5, <1>6, <1>7, <1>8 DEF Next, Step

-----------------------------------------------------------------------------
(* The theorems.                                                           *)

\* The invariant holds when the device starts.
LEMMA MirrorInit == Init => IInv
<1> SUFFICES ASSUME Init PROVE IInv
  OBVIOUS
<1> USE DEF Init
<1>1. Zeros \in Memory /\ \A c \in Cells : Zeros[c] = 0
  BY MappingsAre, VersionIs
<1>2. /\ << >> \in Seq(C2SMessage) /\ << >> \in Seq(S2CMessage) /\ << >> \in Seq(Run)
      /\ \A type : ~Carries(<< >>, type)
      /\ Len(<< >>) = 0
  BY CarriesNothing
<1>3. internal \in BOOLEAN /\ 0 \in 0 .. MaxRelay /\ 0 \in Version
  BY CellsAre, BlobAssumption DEF Version
<1>4. hasBase \in BOOLEAN
  BY <1>3
<1>5. Types
  <2>1. pending \in BOOLEAN /\ reply \in BOOLEAN /\ inTable \in BOOLEAN
    OBVIOUS
  <2>2. names \in BOOLEAN /\ named \in BOOLEAN /\ cRefused \in BOOLEAN /\ sRefused \in BOOLEAN
    OBVIOUS
  <2>3. QED
    BY <1>1, <1>2, <1>3, <1>4, <2>1, <2>2 DEF Types
<1>6. Handshake
  <2>1. Stages
    BY <1>2 DEF Stages
  <2>2. Outbound
    BY <1>2 DEF Outbound
  <2>3. Inbound
    BY <1>2 DEF Inbound
  <2>4. KnownBeforeFed
    BY DEF KnownBeforeFed
  <2>5. QED
    BY <2>1, <2>2, <2>3, <2>4 DEF Handshake
<1>7. Baseline = Zeros
  BY DEF Baseline
<1>8. Untouched
  <2>1. Unwritten
    BY <1>1, <1>2, CellsAre DEF Unwritten
  <2>2. \A i \in 1 .. Len(<< >>) : FALSE
    BY <1>2
  <2>3. Unnamed
    BY <2>2 DEF Unnamed
  <2>4. ~hasBase => internal
    BY <1>3
  <2>5. base = Zeros
    OBVIOUS
  <2>6. QED
    BY <2>1, <2>3, <2>4, <2>5 DEF Untouched
<1>9. Ownership
  BY <1>2, <1>7 DEF Ownership
<1>10. Way = << >>
  BY DEF Way
<1>11. Theirs
  BY <1>2, <1>10 DEF Theirs
<1>12. Versions
  BY <1>1, <1>7, CellsAre DEF Versions
<1>13. Feeds(<< >>, 0, 0, 0) /\ \A c : Feeds(<< >>, c, 0, 0)
  BY <1>3, FeedsNothing
<1>14. ToC /\ ToS
  BY <1>1, <1>3, <1>7, <1>10, <1>13, CellsAre DEF ToC, ToS
<1> QED
  BY <1>5, <1>6, <1>8, <1>9, <1>11, <1>12, <1>14 DEF IInv, Mirror

\* ... and every step keeps it.
LEMMA MirrorStep == IInv /\ [Next]_vars => IInv'
<1> SUFFICES ASSUME IInv, [Next]_vars PROVE IInv'
  OBVIOUS
<1>1. Types /\ Handshake /\ Untouched /\ Ownership /\ Mirror
  BY DEF IInv
<1>2. Types' /\ Handshake' /\ Untouched' /\ Ownership'
  BY <1>1, TypesStep, HandshakeStep, UntouchedStep, OwnershipStep
<1>3. Apart' => Apart
  BY DEF Next, vars, Apart
<1>4. Mirror'
  <2> SUFFICES ASSUME Apart' PROVE Theirs' /\ Versions' /\ ToC' /\ ToS'
    BY DEF Mirror
  <2>1. Apart /\ Theirs /\ Versions /\ ToC /\ ToS
    BY <1>1, <1>3 DEF Mirror
  <2>2. QED
    BY <1>1, <2>1, TheirsStep, VersionsStep, ToCStep, ToSStep
<1> QED
  BY <1>2, <1>4 DEF IInv

\* The two mappings and what is between them, in every reachable state: the
\* handshake of a creation, whose cells differ from which copy, and for each
\* cell the chain of versions from its writer to the other side.
THEOREM MirrorInvariant == Spec => []IInv
  BY MirrorInit, MirrorStep, PTL DEF Spec

\* Every variable and every message has its type: what the diffs ship are
\* unbroken runs, for a blob and a gap of any size.
THEOREM MirrorTypes == Spec => []TypeOK
<1>1. IInv => TypeOK
  <2> SUFFICES ASSUME Types, Inbound PROVE TypeOK
    BY DEF IInv, Handshake
  <2>1. /\ {internal, pending, reply, inTable, hasBase, names, named, cRefused, sRefused}
             \subseteq BOOLEAN
        /\ {cmem, base, smem, shadow, written} \subseteq Memory
    BY CellsAre DEF Types
  <2>2. \A m \in C2SMessage : IsMessage(m)
    <3> SUFFICES ASSUME NEW m \in C2SMessage PROVE IsMessage(m)
      OBVIOUS
    <3>1. m.type \in {"CreateBlob", "UnrefResource", "BlobData", "RingDelta"}
      BY C2SMessageIs
    <3>2. m.type = "BlobData" => IsRun(m.run)
      BY C2SMessageIs, RunIs
    <3>3. m.type = "RingDelta" => m.names \in BOOLEAN
      BY C2SMessageIs
    <3>4. m.type \in {"CreateBlob", "UnrefResource"} => m \in {CreateBlob, UnrefResource}
      BY C2SMessageIs
    <3>5. QED
      BY <3>1, <3>2, <3>3, <3>4 DEF IsMessage
  <2>3. \A m \in S2CMessage :
           \/ IsMessage(m)
           \/ m.type = "BlobCreated" /\ \A run \in Range(m.initial) : IsRun(run)
    <3> SUFFICES ASSUME NEW m \in S2CMessage
                 PROVE  \/ IsMessage(m)
                        \/ m.type = "BlobCreated" /\ \A run \in Range(m.initial) : IsRun(run)
      OBVIOUS
    <3>1. CASE m.type = "BlobData"
      <4>1. IsRun(m.run)
        BY <3>1, S2CMessageIs, RunIs
      <4>2. QED
        BY <3>1, <4>1 DEF IsMessage
    <3>2. CASE m.type = "BlobCreated"
      <4>1. m.initial \in Seq(Run)
        BY <3>2, S2CMessageIs
      <4>2. \A run \in Range(m.initial) : run \in Run
        BY <4>1 DEF Range
      <4>3. QED
        BY <3>2, <4>2, RunIs
    <3>3. QED
      BY <3>1, <3>2, S2CMessageIs
  <2>4. \A m \in Range(c2s) \cup Range(batch) : IsMessage(m)
    <3>1. \A m \in Range(c2s) \cup Range(batch) : m \in C2SMessage
      BY DEF Types, Range
    <3>2. QED
      BY <2>2, <3>1
  <2>5. \A m \in Range(s2c) : m \in S2CMessage
    BY DEF Types, Range
  <2>6. \A run \in Range(answer) : IsRun(run)
    <3>1. \A run \in Range(answer) : run \in Run
      BY DEF Types, Range
    <3>2. QED
      BY <3>1, RunIs
  <2>7. \A m \in Range(news) : IsMessage(m)
    <3>1. \A m \in Range(news) : m \in S2CMessage /\ m.type = "BlobData"
      BY DEF Types, Inbound, Range
    <3>2. \A m \in Range(news) : m.type = "BlobData" /\ IsRun(m.run)
      BY <3>1, S2CMessageIs, RunIs
    <3>3. QED
      BY <3>2 DEF IsMessage
  <2>8. /\ phase \in {"none", "asked", "live", "gone"}
        /\ wpc \in {"take", "diff", "ship"} /\ relays \in 0 .. MaxRelay
        /\ spc \in {"recv", "answer"} /\ sphase \in {"none", "live", "gone"}
        /\ ppc \in {"poll", "ship"}
    BY DEF Types
  <2>9. \A m \in Range(s2c) :
           \/ IsMessage(m)
           \/ m.type = "BlobCreated" /\ \A run \in Range(m.initial) : IsRun(run)
    BY <2>3, <2>5
  <2>10. QED
    BY <2>1, <2>4, <2>6, <2>7, <2>8, <2>9, Zenon DEF TypeOK
<1> QED
  BY <1>1, MirrorInvariant, PTL

\* C never sends S a byte that S wrote, whatever the gap: a byte of S's enters
\* C's mapping and baseline together, and until a blob has a baseline S has
\* written nothing to it (`Untouched`).
THEOREM NothingEchoed == Spec => []NoEcho
<1>1. IInv => NoEcho
  <2> SUFFICES ASSUME Types, Ownership,
                      NEW m \in DataIn(c2s) \cup DataIn(batch)
               PROVE  DOMAIN m.run \subseteq CpuCells
    BY DEF IInv, NoEcho
  <2>1. m.type = "BlobData"
    BY DEF DataIn
  <2>2. CASE m \in Range(c2s)
    <3>1. PICK i \in 1 .. Len(c2s) : m = c2s[i]
      BY <2>2 DEF Types, Range
    <3>2. QED
      BY <2>1, <3>1 DEF Ownership
  <2>3. CASE m \in Range(batch)
    <3>1. PICK i \in 1 .. Len(batch) : m = batch[i]
      BY <2>3 DEF Types, Range
    <3>2. QED
      BY <2>1, <3>1 DEF Ownership
  <2>4. QED
    BY <2>2, <2>3 DEF DataIn
<1> QED
  BY <1>1, MirrorInvariant, PTL

\* Neither machine is sent bytes of a blob it does not know: the reply to the
\* creation is ahead of them one way, the request the other.
THEOREM KnownFirst == Spec => []KnownBeforeFed
<1>1. IInv => KnownBeforeFed
  BY DEF IInv, Handshake
<1> QED
  BY <1>1, MirrorInvariant, PTL

\* Two cells of S's closer than the coalescing gap have none of the
\* application's between them, so that coalescing ships no cell of its.
GapIsTheirs ==
    \A a, b \in GpuCells : a < b /\ b - a - 1 <= Gap => a + 1 .. b - 1 \subseteq GpuCells

\* When nothing moves and every diff is empty the mappings agree byte for
\* byte: always for one of Venus's own shmems, and for an application's blob
\* where the coalescing gap holds no cell of the application's.
THEOREM MappingsAgree == ASSUME GapIsTheirs PROVE Spec => []AgreeWhenQuiet
<1>1. IInv => AgreeWhenQuiet
  <2> SUFFICES ASSUME IInv, Quiet PROVE cmem = smem
    BY DEF AgreeWhenQuiet
  <2>1. Types /\ Handshake /\ ToC /\ ToS
    BY GapIsTheirs DEF IInv, Mirror, Apart, GapIsTheirs
  <2>2. /\ cmem \in Memory /\ smem \in Memory /\ shadow \in Memory /\ Baseline \in Memory
        /\ spc \in {"recv", "answer"}
    BY <2>1, MappingsAre DEF Types
  <2>3. /\ inTable /\ sphase = "live"
        /\ c2s = << >> /\ s2c = << >> /\ batch = << >> /\ news = << >>
        /\ \A c \in Cells : cmem[c] = Baseline[c] /\ smem[c] = shadow[c]
    BY DEF Quiet, Changed
  <2>4. phase # "gone" /\ ~pending
    BY <2>1, <2>3 DEF Handshake, Stages
  <2>5. Way = << >>
    BY <2>1, <2>2, <2>3, <2>4 DEF Handshake, Inbound, Way
  <2>6. \A c \in Cells : cmem[c] = smem[c]
    <3>1. ASSUME NEW c \in GpuCells PROVE cmem[c] = smem[c]
      <4>1. c \in Cells
        BY CellsAre
      <4>2. PICK mid \in Version : Feeds(Way, c, cmem[c], mid) /\ Feeds(news, c, mid, shadow[c])
        BY <2>1, <2>4 DEF ToC
      <4>3. cmem[c] = mid /\ mid = shadow[c]
        BY <2>2, <2>3, <2>5, <4>1, <4>2, FeedsNothing, VersionIs
      <4>4. QED
        BY <2>3, <4>1, <4>3
    <3>2. ASSUME NEW c \in CpuCells PROVE cmem[c] = smem[c]
      <4>1. c \in Cells
        BY CellsAre
      <4>2. PICK mid \in Version : Feeds(c2s, c, smem[c], mid) /\ Feeds(batch, c, mid, Baseline[c])
        BY <2>1, <2>3 DEF ToS
      <4>3. smem[c] = mid /\ mid = Baseline[c]
        BY <2>2, <2>3, <4>1, <4>2, FeedsNothing, VersionIs
      <4>4. QED
        BY <2>3, <4>1, <4>3
    <3>3. QED
      BY <3>1, <3>2, CellsAre
  <2>7. QED
    BY <2>2, <2>6 DEF Memory
<1> QED
  BY <1>1, MirrorInvariant, PTL

\* Under the same condition no mapping ever goes back to an older version of a
\* cell, whatever crosses on the link.
THEOREM NothingRolledBack == ASSUME GapIsTheirs PROVE Spec => NoRollback
<1> DEFINE Forward ==
             \A c \in Cells : /\ inTable => cmem'[c] >= cmem[c]
                              /\ sphase = "live" => smem'[c] >= smem[c]
<1>1. IInv /\ IInv' /\ [Next]_vars => [Forward]_vars
  <2> SUFFICES ASSUME IInv, IInv', Next, NEW c \in Cells
               PROVE  /\ inTable => cmem'[c] >= cmem[c]
                      /\ sphase = "live" => smem'[c] >= smem[c]
    OBVIOUS
  <2> USE DEF vars, vtestVars, tableVars, watcherVars, messageVars, sharedVars, progressVars
  <2>1. /\ Types /\ Handshake /\ Untouched /\ Ownership
        /\ Theirs /\ Versions /\ ToC /\ ToS /\ Types' /\ Versions'
    BY GapIsTheirs DEF IInv, Mirror, Apart, GapIsTheirs
  <2>2. /\ cmem \in Memory /\ smem \in Memory /\ written \in Memory
        /\ cmem' \in Memory /\ smem' \in Memory /\ written' \in Memory
        /\ s2c \in Seq(S2CMessage) /\ c2s \in Seq(C2SMessage)
    BY <2>1 DEF Types
  <2>3. /\ cmem[c] \in Version /\ cmem'[c] \in Version /\ cmem[c] \in Nat /\ cmem'[c] \in Nat
        /\ smem[c] \in Version /\ smem'[c] \in Version /\ smem[c] \in Nat /\ smem'[c] \in Nat
        /\ written[c] \in Nat /\ written'[c] \in Nat
    BY <2>2, VersionIs
  <2>4. written[c] <= written'[c]
    <3>1. CASE CpuWrite
      <4>1. PICK d \in CpuCells : written' = [written EXCEPT ![d] = @ + 1]
        BY <3>1 DEF CpuWrite
      <4>2. written'[c] = written[c] \/ written'[c] = written[c] + 1
        BY <2>2, <4>1 DEF Memory
      <4>3. QED
        BY <2>3, <4>2
    <3>2. CASE EngineWrite
      <4>1. PICK d \in GpuCells : written' = [written EXCEPT ![d] = @ + 1]
        BY <3>2 DEF EngineWrite
      <4>2. written'[c] = written[c] \/ written'[c] = written[c] + 1
        BY <2>2, <4>1 DEF Memory
      <4>3. QED
        BY <2>3, <4>2
    <3>3. CASE ~(CpuWrite \/ EngineWrite)
      <4>1. written' = written
        BY <3>3 DEF Next, Step, AskForBlob, ReceiveBlob, UnrefBlob, TakeDelta,
           MessagesForDelta, ShipBatch, CommitPendingBlob, ApplyBlobData, ReceiveCreate,
           AnswerCreate, CopyIn, ReceiveDelta, ReceiveUnref, TakeBytesSWrote, ShipNews
      <4>2. QED
        BY <2>3, <4>1
    <3>4. QED
      BY <3>1, <3>2, <3>3
  <2>5. CASE c \in CpuCells
    <3>1. cmem[c] <= cmem'[c]
      BY <2>1, <2>4, <2>5 DEF Versions
    <3>2. sphase = "live" => smem[c] <= smem'[c]
      <4> SUFFICES ASSUME sphase = "live" PROVE smem[c] <= smem'[c]
        OBVIOUS
      <4>1. CASE CopyIn
        <5>1. /\ c2s # << >>
              /\ \/ Says(Head(c2s), c, smem'[c])
                 \/ Silent(Head(c2s), c) /\ smem'[c] = smem[c]
          BY <2>1, <4>1, CopyInDoes
        <5>2. PICK mid \in Version : Feeds(c2s, c, smem[c], mid)
          BY <2>1, <2>5 DEF ToS
        <5>3. QED
          BY <2>2, <2>3, <5>1, <5>2, FeedsPop
      <4>2. CASE EngineWrite
        <5>1. PICK d \in GpuCells : smem' = [smem EXCEPT ![d] = written[d] + 1]
          BY <4>2 DEF EngineWrite
        <5>2. c # d
          BY <2>5, CellsAre
        <5>3. smem'[c] = smem[c]
          BY <2>2, <5>1, <5>2 DEF Memory
        <5>4. QED
          BY <2>3, <5>3
      <4>3. CASE ~(CopyIn \/ EngineWrite)
        <5>1. smem' = smem
          BY <4>3 DEF Next, Step, AskForBlob, ReceiveBlob, CpuWrite, UnrefBlob, TakeDelta,
             MessagesForDelta, ShipBatch, CommitPendingBlob, ApplyBlobData, ReceiveCreate,
             AnswerCreate, ReceiveDelta, ReceiveUnref, TakeBytesSWrote, ShipNews
        <5>2. QED
          BY <2>3, <5>1
      <4>4. QED
        BY <4>1, <4>2, <4>3
    <3>3. QED
      BY <2>3, <3>1, <3>2
  <2>6. CASE c \in GpuCells
    <3>1. smem[c] <= smem'[c]
      BY <2>1, <2>4, <2>6 DEF Versions
    <3>2. inTable => cmem[c] <= cmem'[c]
      <4> SUFFICES ASSUME inTable PROVE cmem[c] <= cmem'[c]
        OBVIOUS
      <4>1. phase # "gone"
        BY <2>1 DEF Handshake, Stages
      <4>2. CASE CommitPendingBlob \/ ApplyBlobData
        <5>1. /\ s2c # << >> /\ Way = s2c
              /\ \/ Says(Head(s2c), c, cmem'[c])
                 \/ Silent(Head(s2c), c) /\ cmem'[c] = cmem[c]
          BY <2>1, <4>1, <4>2, ReaderDoes
        <5>2. PICK mid \in Version : Feeds(s2c, c, cmem[c], mid)
          BY <2>1, <2>6, <4>1, <5>1 DEF ToC
        <5>3. QED
          BY <2>2, <2>3, <5>1, <5>2, FeedsPop
      <4>3. CASE CpuWrite
        <5>1. PICK d \in CpuCells : cmem' = [cmem EXCEPT ![d] = written[d] + 1]
          BY <4>3 DEF CpuWrite
        <5>2. c # d
          BY <2>6, CellsAre
        <5>3. cmem'[c] = cmem[c]
          BY <2>2, <5>1, <5>2 DEF Memory
        <5>4. QED
          BY <2>3, <5>3
      <4>4. CASE ~(CommitPendingBlob \/ ApplyBlobData \/ CpuWrite)
        <5>1. cmem' = cmem
          BY <4>4 DEF Next, Step, AskForBlob, ReceiveBlob, UnrefBlob, TakeDelta,
             MessagesForDelta, ShipBatch, ReceiveCreate, AnswerCreate, CopyIn, ReceiveDelta,
             ReceiveUnref, EngineWrite, TakeBytesSWrote, ShipNews
        <5>2. QED
          BY <2>3, <5>1
      <4>5. QED
        BY <4>2, <4>3, <4>4
    <3>3. QED
      BY <2>3, <3>1, <3>2
  <2>7. QED
    BY <2>5, <2>6, CellsAre
<1>2. NoRollback <=> [][Forward]_vars
  BY DEF NoRollback
<1> HIDE DEF Forward
<1> QED
  BY <1>1, <1>2, MirrorInvariant, PTL DEF Spec
=============================================================================
