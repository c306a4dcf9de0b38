------------------------------ MODULE BlobSync ------------------------------
(***************************************************************************)
(* One blob of mapped memory, on both machines, from its creation to its   *)
(* end: nobody announces a store to mapped memory, so each side finds what *)
(* changed by comparing the live bytes with a copy of what the other side  *)
(* is known to have (C's `baseline`, S's `shadow`).                        *)
(*                                                                         *)
(*   application --- stores ---> C's mapping                               *)
(*   ring watcher: messages_for_delta diffs it, ships it before a delta    *)
(*   reader thread: commit_pending_blob, apply_blob_data                   *)
(*   message thread on S: CreateBlob, BlobData (copy_in), UnrefResource    *)
(*   progress thread on S: take_bytes_s_wrote, and ships it                *)
(*   GPU and ring thread --- stores ---> S's mapping                       *)
(*                                                                         *)
(* The memory is a row of cells, each written by one side only (Vulkan     *)
(* asks a well-synchronised application for no less), and a cell's content *)
(* is its version: how many times its writer has written it.  A diff is    *)
(* one step, as it is one hold of the blob table's lock; the stores it     *)
(* races are atomic per cell.                                              *)
(*                                                                         *)
(* When the progress thread may look at the application's blobs (only once *)
(* a fence is reported signalled) is Readback's subject: here it may look  *)
(* at any time its lock is free.                                           *)
(***************************************************************************)
EXTENDS Integers, Sequences, FiniteSets, Functions

CONSTANTS
    Size,       \* cells of the blob
    CpuCells,   \* the cells the application writes; the GPU writes the others
    Gap,        \* READBACK_COALESCE_GAP, in cells
    Internals,  \* the kinds of blob there may be (see `internal`)
    MaxVer,     \* bound: writes to each cell
    MaxRelay    \* bound: deltas the watcher relays

Cells == 0 .. Size - 1
GpuCells == Cells \ CpuCells

ASSUME BlobAssumption ==
    /\ Size \in Nat \ {0} /\ CpuCells \subseteq Cells
    /\ Gap \in Nat /\ Internals \subseteq BOOLEAN
    /\ MaxVer \in Nat /\ MaxRelay \in Nat

VARIABLES
    internal,   \* blob_id = 0: one of Venus's own shmems, such as the reply arena
    \* rayland-c, vtest thread (RelayEngine) and the application
    phase,      \* "none", "asked" (waiting for BlobCreated), "live", "gone"
    pending,    \* PendingBlob holds the blob
    reply,      \* BlobCreated is on the reply channel to the vtest thread
    \* rayland-c, shared
    inTable,    \* the blob table holds the blob
    cmem,       \* C's mapping
    base,       \* LocalBlob.baseline
    hasBase,    \* the baseline is as long as the mapping (it starts empty for
                \* an internal blob)
    \* rayland-c, ring watcher
    wpc, names, batch, relays,
    \* the link
    c2s, s2c,
    \* rayland-s, message thread: it holds the applier lock while not at "recv"
    spc, answer,
    \* rayland-s, shared
    sphase,     \* "none", "live", "gone": the entry in Applier.blobs
    smem,       \* S's mapping: the engine's memory
    shadow,     \* HostBlob.shadow
    named,      \* S has a ring command that names the (internal) blob
    \* rayland-s, progress thread
    ppc, news,
    \* who refused what
    cRefused,   \* C had no shadow of a blob S sent bytes of
    sRefused,   \* S had no blob C sent bytes of
    \* ghost: the last version each cell's writer wrote
    written

vtestVars == <<phase, pending, reply>>
tableVars == <<inTable, cmem, base, hasBase>>
watcherVars == <<wpc, names, batch, relays>>
messageVars == <<spc, answer>>
sharedVars == <<sphase, smem, shadow, named>>
progressVars == <<ppc, news>>
vars == <<internal, vtestVars, tableVars, watcherVars, c2s, s2c, messageVars, sharedVars,
          progressVars, cRefused, sRefused, written>>

-----------------------------------------------------------------------------
(* Diffs and runs.                                                         *)

Zeros == [c \in Cells |-> 0]

Changed(live, known) == {c \in Cells : live[c] # known[c]}

\* The cells a diff ships: the changed ones, and the unchanged ones between two
\* changed ones that lie no more than `gap` apart (coalesce_ranges).
Shipped(changed, gap) ==
    changed \cup
      {c \in Cells : \E a, b \in changed :
          a < c /\ c < b /\ b - a - 1 <= gap /\ (a + 1 .. b - 1) \cap changed = {}}

\* Mutant: what changed is not split at its gaps.
RunsUnsplit(live, cells) == << [c \in cells |-> live[c]] >>

\* One run per unbroken stretch of them, in ascending order: each a function
\* from the run's cells to what they hold.
Runs(live, cells) ==
    LET starts == {c \in cells : c - 1 \notin cells}
        Start(i) == CHOOSE s \in starts : Cardinality({t \in starts : t <= s}) = i
        Stretch(s) == {c \in cells : s <= c /\ s .. c \subseteq cells}
    IN [i \in 1 .. Cardinality(starts) |-> [c \in Stretch(Start(i)) |-> live[c]]]

Adopt(known, live, cells) ==
    [c \in Cells |-> IF c \in cells THEN live[c] ELSE known[c]]

CreateBlob == [type |-> "CreateBlob"]
UnrefResource == [type |-> "UnrefResource"]
BlobCreated(initial) == [type |-> "BlobCreated", initial |-> initial]
BlobData(run) == [type |-> "BlobData", run |-> run]
RingDelta(n) == [type |-> "RingDelta", names |-> n]

DataMessages(runs) == [i \in 1 .. Len(runs) |-> BlobData(runs[i])]

\* A run laid over a mapping.
Over(run, mem) == [c \in Cells |-> IF c \in DOMAIN run THEN run[c] ELSE mem[c]]

\* Every run of a diff laid over a mapping: no two of them hold the same cell.
Laid(runs, mem) ==
    [c \in Cells |->
        LET holding == {i \in 1 .. Len(runs) : c \in DOMAIN runs[i]}
        IN IF holding = {} THEN mem[c] ELSE runs[CHOOSE i \in holding : TRUE][c]]

-----------------------------------------------------------------------------
(* The application and the vtest thread on C.                              *)

\* create_blob_resource: the memfd and its mapping are made, the blob waits in
\* the one pending slot, and the request goes out.
AskForBlob ==
    /\ phase = "none"
    /\ phase' = "asked"
    /\ pending' = TRUE
    /\ c2s' = Append(c2s, CreateBlob)
    /\ UNCHANGED <<reply, tableVars, watcherVars, s2c, messageVars, sharedVars,
                   progressVars, cRefused, sRefused, written>>

\* ... and the descriptor is the application's once the reply is routed to it.
ReceiveBlob ==
    /\ phase = "asked"
    /\ reply
    /\ reply' = FALSE
    /\ phase' = "live"
    /\ UNCHANGED <<pending, tableVars, watcherVars, c2s, s2c, messageVars,
                   sharedVars, progressVars, cRefused, sRefused, written>>

\* The application stores to a cell it owns.
CpuWrite ==
    /\ phase = "live"
    /\ \E c \in CpuCells :
         /\ written[c] < MaxVer
         /\ written' = [written EXCEPT ![c] = @ + 1]
         /\ cmem' = [cmem EXCEPT ![c] = written[c] + 1]
    /\ UNCHANGED <<inTable, base, hasBase, vtestVars, watcherVars, c2s, s2c,
                   messageVars, sharedVars, progressVars, cRefused, sRefused>>

\* unref_resource: out of the table first, then S is told, fire and forget and
\* behind no barrier.
UnrefBlob ==
    /\ phase = "live"
    /\ phase' = "gone"
    /\ inTable' = FALSE
    /\ c2s' = Append(c2s, UnrefResource)
    /\ UNCHANGED <<pending, reply, cmem, base, hasBase, watcherVars, s2c,
                   messageVars, sharedVars, progressVars, cRefused, sRefused,
                   written>>

-----------------------------------------------------------------------------
(* The ring watcher on C.                                                  *)

\* The application rings in a command; the watcher drains it.  A command can
\* name the blob only once the application has it; whether it does is of interest
\* for an internal blob alone (EngineWrite).
TakeDelta ==
    /\ wpc = "take"
    /\ relays < MaxRelay
    /\ relays' = relays + 1
    /\ names' = (internal /\ phase = "live")
    /\ wpc' = "diff"
    /\ UNCHANGED <<batch, vtestVars, tableVars, c2s, s2c, messageVars,
                   sharedVars, progressVars, cRefused, sRefused, written>>

\* Mutant: ensure_baseline forgets to look whether there is one already.
FreshBaseline == Zeros

\* ensure_baseline: zeros for a blob that has none.
Baseline == IF hasBase THEN base ELSE Zeros

\* messages_for_delta: every blob in the table, whoever owns it, then the ring.
MessagesForDelta ==
    /\ wpc = "diff"
    /\ LET changed == Changed(cmem, Baseline)
       IN IF inTable
          THEN /\ batch' = Append(DataMessages(Runs(cmem, changed)), RingDelta(names))
               /\ base' = Adopt(Baseline, cmem, changed)
               /\ hasBase' = TRUE
          ELSE /\ batch' = << RingDelta(names) >>
               /\ UNCHANGED <<base, hasBase>>
    /\ wpc' = "ship"
    /\ UNCHANGED <<names, relays, inTable, cmem, vtestVars, c2s, s2c,
                   messageVars, sharedVars, progressVars, cRefused, sRefused,
                   written>>

ShipBatch ==
    /\ wpc = "ship"
    /\ c2s' = c2s \o batch
    /\ batch' = << >>
    /\ wpc' = "take"
    /\ UNCHANGED <<names, relays, vtestVars, tableVars, s2c, messageVars,
                   sharedVars, progressVars, cRefused, sRefused, written>>

-----------------------------------------------------------------------------
(* The reader thread on C.                                                 *)

Incoming(type) == s2c # << >> /\ Head(s2c).type = type

\* commit_pending_blob, before the reply is routed on: S's initial contents
\* into the mapping and (note_s_wrote) the baseline, the blob into the table.
CommitPendingBlob ==
    /\ Incoming("BlobCreated")
    /\ cmem' = Laid(Head(s2c).initial, cmem)
    /\ base' = IF hasBase THEN Laid(Head(s2c).initial, base) ELSE base
    /\ inTable' = pending
    /\ pending' = FALSE
    /\ reply' = TRUE
    /\ s2c' = Tail(s2c)
    /\ UNCHANGED <<phase, hasBase, watcherVars, c2s, messageVars, sharedVars,
                   progressVars, cRefused, sRefused, written>>

\* apply_blob_data: the mapping and the baseline under one hold of the lock, or
\* a complaint that C has no such blob.
ApplyBlobData ==
    /\ Incoming("BlobData")
    /\ IF inTable
       THEN /\ cmem' = Over(Head(s2c).run, cmem)
            /\ base' = IF hasBase THEN Over(Head(s2c).run, base) ELSE base
            /\ UNCHANGED cRefused
       ELSE /\ cRefused' = TRUE
            /\ UNCHANGED <<cmem, base>>
    /\ s2c' = Tail(s2c)
    /\ UNCHANGED <<inTable, hasBase, vtestVars, watcherVars, c2s, messageVars,
                   sharedVars, progressVars, sRefused, written>>

-----------------------------------------------------------------------------
(* The message thread on S.                                                *)

Requested(type) == spc = "recv" /\ c2s # << >> /\ Head(c2s).type = type

\* CreateBlob: map the engine's descriptor over a zero shadow and take what S
\* has already written: Mesa maps lazily, so a readback blob may be born with
\* a finished frame in it.
ReceiveCreate ==
    /\ Requested("CreateBlob")
    /\ sphase' = "live"
    /\ LET changed == Changed(smem, Zeros)
       IN /\ answer' = Runs(smem, changed)
          /\ shadow' = Adopt(Zeros, smem, changed)
    /\ spc' = "answer"
    /\ c2s' = Tail(c2s)
    /\ UNCHANGED <<smem, named, vtestVars, tableVars, watcherVars, s2c,
                   progressVars, cRefused, sRefused, written>>

\* Mutant: the answer says nothing of what was already written.
AnswerEmpty ==
    /\ spc = "answer"
    /\ s2c' = Append(s2c, BlobCreated(<< >>))
    /\ answer' = << >>
    /\ spc' = "recv"
    /\ UNCHANGED <<c2s, vtestVars, tableVars, watcherVars, sharedVars,
                   progressVars, cRefused, sRefused, written>>

\* The answer goes out before the applier lock is released.
AnswerCreate ==
    /\ spc = "answer"
    /\ s2c' = Append(s2c, BlobCreated(answer))
    /\ answer' = << >>
    /\ spc' = "recv"
    /\ UNCHANGED <<c2s, vtestVars, tableVars, watcherVars, sharedVars,
                   progressVars, cRefused, sRefused, written>>

\* Mutant: copy_in leaves the shadow behind, so that C's bytes look like S's.
CopyInUnshadowed ==
    /\ Requested("BlobData")
    /\ smem' = IF sphase = "live" THEN Over(Head(c2s).run, smem) ELSE smem
    /\ sRefused' = (sRefused \/ sphase # "live")
    /\ c2s' = Tail(c2s)
    /\ UNCHANGED <<spc, answer, sphase, shadow, named, vtestVars, tableVars,
                   watcherVars, s2c, progressVars, cRefused, written>>

\* BlobData: copy_in writes the mapping and the shadow, or the message is
\* refused with an unsolicited error.
CopyIn ==
    /\ Requested("BlobData")
    /\ IF sphase = "live"
       THEN /\ smem' = Over(Head(c2s).run, smem)
            /\ shadow' = Over(Head(c2s).run, shadow)
            /\ UNCHANGED sRefused
       ELSE /\ sRefused' = TRUE
            /\ UNCHANGED <<smem, shadow>>
    /\ c2s' = Tail(c2s)
    /\ UNCHANGED <<spc, answer, sphase, named, vtestVars, tableVars, watcherVars,
                   s2c, progressVars, cRefused, written>>

\* RingDelta: the ring thread may now run commands that name the blob.
ReceiveDelta ==
    /\ Requested("RingDelta")
    /\ named' = (named \/ Head(c2s).names)
    /\ c2s' = Tail(c2s)
    /\ UNCHANGED <<spc, answer, sphase, smem, shadow, vtestVars, tableVars,
                   watcherVars, s2c, progressVars, cRefused, sRefused, written>>

ReceiveUnref ==
    /\ Requested("UnrefResource")
    /\ sphase' = "gone"
    /\ c2s' = Tail(c2s)
    /\ UNCHANGED <<spc, answer, smem, shadow, named, vtestVars, tableVars,
                   watcherVars, s2c, progressVars, cRefused, sRefused, written>>

-----------------------------------------------------------------------------
(* The engine and the progress thread on S.                                *)

\* The GPU or the ring thread stores to a cell it owns.  An internal shmem is
\* fresh memory that S writes only on a command that names it; the memory of
\* an application's blob may be older than the blob.
EngineWrite ==
    /\ sphase # "gone"
    /\ internal => named
    /\ \E c \in GpuCells :
         /\ written[c] < MaxVer
         /\ written' = [written EXCEPT ![c] = @ + 1]
         /\ smem' = [smem EXCEPT ![c] = written[c] + 1]
    /\ UNCHANGED <<sphase, shadow, named, vtestVars, tableVars, watcherVars, c2s,
                   s2c, messageVars, progressVars, cRefused, sRefused>>

\* take_venus_blob_writes takes runs as they are; take_app_blob_writes merges
\* those closer than READBACK_COALESCE_GAP.
CoalesceGap == IF internal THEN 0 ELSE Gap

\* Mutant: the applier lock is not waited for.
TakeUnlocked ==
    /\ ppc = "poll"
    /\ sphase = "live"
    /\ LET cells == Shipped(Changed(smem, shadow), CoalesceGap)
       IN /\ cells # {}
          /\ news' = DataMessages(Runs(smem, cells))
          /\ shadow' = Adopt(shadow, smem, cells)
    /\ ppc' = "ship"
    /\ UNCHANGED <<sphase, smem, named, vtestVars, tableVars, watcherVars, c2s,
                   s2c, messageVars, cRefused, sRefused, written>>

\* take_bytes_s_wrote, under the applier lock.
TakeBytesSWrote ==
    /\ ppc = "poll"
    /\ spc = "recv"
    /\ sphase = "live"
    /\ LET cells == Shipped(Changed(smem, shadow), CoalesceGap)
       IN /\ cells # {}
          /\ news' = DataMessages(Runs(smem, cells))
          /\ shadow' = Adopt(shadow, smem, cells)
    /\ ppc' = "ship"
    /\ UNCHANGED <<sphase, smem, named, vtestVars, tableVars, watcherVars, c2s,
                   s2c, messageVars, cRefused, sRefused, written>>

ShipNews ==
    /\ ppc = "ship"
    /\ s2c' = s2c \o news
    /\ news' = << >>
    /\ ppc' = "poll"
    /\ UNCHANGED <<vtestVars, tableVars, watcherVars, c2s, messageVars,
                   sharedVars, cRefused, sRefused, written>>

-----------------------------------------------------------------------------
Init ==
    /\ internal \in Internals
    /\ phase = "none" /\ pending = FALSE /\ reply = FALSE
    /\ inTable = FALSE /\ cmem = Zeros /\ base = Zeros /\ hasBase = ~internal
    /\ wpc = "take" /\ names = FALSE /\ batch = << >> /\ relays = 0
    /\ c2s = << >> /\ s2c = << >>
    /\ spc = "recv" /\ answer = << >>
    /\ sphase = "none" /\ smem = Zeros /\ shadow = Zeros /\ named = FALSE
    /\ ppc = "poll" /\ news = << >>
    /\ cRefused = FALSE /\ sRefused = FALSE
    /\ written = Zeros

Step ==
    \/ AskForBlob \/ ReceiveBlob \/ CpuWrite \/ UnrefBlob
    \/ TakeDelta \/ MessagesForDelta \/ ShipBatch
    \/ CommitPendingBlob \/ ApplyBlobData
    \/ ReceiveCreate \/ AnswerCreate \/ CopyIn \/ ReceiveDelta \/ ReceiveUnref
    \/ EngineWrite \/ TakeBytesSWrote \/ ShipNews

Next == Step /\ UNCHANGED internal

Spec == Init /\ [][Next]_vars

-----------------------------------------------------------------------------
(* Properties.                                                             *)

Memory == [Cells -> 0 .. MaxVer]

\* A run is one unbroken stretch of the blob, never empty.
IsRun(run) == \E a, b \in Cells : a <= b /\ run \in [a .. b -> 0 .. MaxVer]

IsMessage(m) ==
    \/ m \in {CreateBlob, UnrefResource}
    \/ m.type = "BlobData" /\ IsRun(m.run)
    \/ m.type = "RingDelta" /\ m.names \in BOOLEAN

\* The type of every variable and of what is on the link: S's apply_blob_data
\* takes one offset and a string of bytes, so a run with a hole in it would put
\* bytes where they do not belong.
TypeOK ==
    /\ phase \in {"none", "asked", "live", "gone"}
    /\ {internal, pending, reply, inTable, hasBase, names, named, cRefused, sRefused}
         \subseteq BOOLEAN
    /\ {cmem, base, smem, shadow, written} \subseteq Memory
    /\ wpc \in {"take", "diff", "ship"} /\ relays \in 0 .. MaxRelay
    /\ spc \in {"recv", "answer"} /\ sphase \in {"none", "live", "gone"}
    /\ ppc \in {"poll", "ship"}
    /\ \A m \in Range(c2s) \cup Range(batch) \cup Range(news) : IsMessage(m)
    /\ \A run \in Range(answer) : IsRun(run)
    /\ \A m \in Range(s2c) :
         \/ IsMessage(m)
         \/ m.type = "BlobCreated" /\ \A run \in Range(m.initial) : IsRun(run)

DataIn(messages) == {m \in Range(messages) : m.type = "BlobData"}

\* C never sends S a byte that S wrote: S's own bytes, folded into the baseline
\* wherever they enter C's mapping, never look like the application's.
NoEcho ==
    \A m \in DataIn(c2s) \cup DataIn(batch) : DOMAIN m.run \subseteq CpuCells

\* No mapping ever goes back to an older version of a cell, on either machine,
\* while the blob lives: what one side writes is never overwritten by the other
\* side's stale copy of it, whatever crosses on the link.
NoRollback ==
    [][\A c \in Cells : /\ inTable => cmem'[c] >= cmem[c]
                        /\ sphase = "live" => smem'[c] >= smem[c]]_vars

\* Neither machine is sent bytes of a blob it does not know yet: BlobCreated is
\* ahead of the blob's data one way, CreateBlob the other.  What is refused is
\* refused after the application gave the blob up.
KnownBeforeFed ==
    /\ cRefused => phase = "gone"
    /\ sRefused => sphase = "gone"

\* Nothing moves and each side's copy of what the other has is up to date.
Quiet ==
    /\ inTable /\ sphase = "live"
    /\ c2s = << >> /\ s2c = << >> /\ batch = << >> /\ news = << >>
    /\ Changed(cmem, Baseline) = {}
    /\ Changed(smem, shadow) = {}

\* Then the two mappings agree, byte for byte: no change is ever adopted by a
\* diff without being shipped, or shipped without being adopted.
AgreeWhenQuiet == Quiet => cmem = smem

\* "Every byte in a returned run is a byte S is observed to have written"
\* (blob.rs): what the progress thread ships was written by S's side.
EveryReturnedByteWasWritten ==
    \A m \in DataIn(s2c) \cup DataIn(news) : DOMAIN m.run \subseteq GpuCells
=============================================================================
