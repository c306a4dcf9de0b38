---------------------------- MODULE SessionProofs ----------------------------
(***************************************************************************)
(* The engine's actor first, of ActorSpec: for any number of clients,      *)
(* contexts and rings and with no bound on commands, the types, that every *)
(* caller is owed exactly one answer, and that a wait answered Ok is one   *)
(* whose fence was reached.  Its invariant says what each of the three     *)
(* places an answer can still be in (the channel, the fence, the reply     *)
(* channel) knows of the client it belongs to, and that a ring's fences    *)
(* are reached in the order of their ids.                                  *)
(*                                                                         *)
(* Then the session, of Spec, with that invariant as a conjunct: Mesa's    *)
(* socket in order, one request in flight, S's message thread in step with *)
(* its engine, and an account of every resource: where it is entered, who  *)
(* has its descriptor, and which message still has to tell whom.           *)
(***************************************************************************)
EXTENDS Session, TLAPS

-----------------------------------------------------------------------------
(* The engine's actor.                                                      *)

\* A command in the channel belongs to a client blocked on that very call, and
\* to no other place.
QueueOwes ==
    \A i \in 1 .. Len(commands) :
        /\ calls[commands[i].client] = commands[i].call
        /\ answers[commands[i].client] = << >>
        /\ inflight.client # commands[i].client

\* No client has two commands in the channel.
QueueOnce ==
    \A i, j \in 1 .. Len(commands) :
        commands[i].client = commands[j].client => i = j

\* The fence in flight belongs to a client blocked on that wait.
FenceOwes ==
    inflight # NoFence =>
        /\ calls[inflight.client] =
               [op |-> "wait", ctx |-> inflight.ctx, ring |-> inflight.ring]
        /\ answers[inflight.client] = << >>
        /\ inflight.id \in unsignalled[<<inflight.ctx, inflight.ring>>]
                           \cup signalled[<<inflight.ctx, inflight.ring>>]

\* An answer belongs to a client that is blocked, and is the only one.
AnswerOwes ==
    \A c \in Clients :
        answers[c] # << >> => calls[c] # NoCall /\ Len(answers[c]) = 1

\* A client that is blocked is owed.
Owed ==
    \A c \in Clients :
        calls[c] # NoCall =>
            \/ \E i \in 1 .. Len(commands) : commands[i].client = c
            \/ inflight.client = c
            \/ answers[c] # << >>

\* A client that is blocked has not been dropped.
BlockedHolds == \A c \in Clients : calls[c] # NoCall => c \in held

PollsAFence == actor = "poll" => inflight # NoFence

\* A ring's fences are reached in order, and the mark is one of those reached.
FencesInOrder ==
    \A q \in Queue :
        /\ \A s \in signalled[q], u \in unsignalled[q] : s < u
        /\ highest[q] = 0 \/ highest[q] \in signalled[q]

Channel == QueueOwes /\ QueueOnce /\ AnswerOwes /\ Owed

ActorInv ==
    /\ ActorTypeOK /\ Channel /\ FenceOwes /\ BlockedHolds /\ PollsAFence
    /\ FencesInOrder /\ WaitIsTrue

-----------------------------------------------------------------------------
\* The invariant holds when nobody has asked and there is no engine yet.
LEMMA InitInv == ActorInit => ActorInv
  <1> SUFFICES ASSUME ActorInit PROVE ActorInv
    OBVIOUS
  <1> USE DEF ActorInit
  <1>1. ActorTypeOK
    <2>1. /\ actor \in {"starting", "drain", "poll", "gone"}
          /\ held \subseteq Clients /\ contexts \subseteq Contexts
          /\ nextResource \in Nat \ {0} /\ nextFence \in Nat \ {0}
          /\ inflight = NoFence
      OBVIOUS
    <2>2. commands \in Seq(Command)
      OBVIOUS
    <2>3. /\ calls \in [Clients -> Call \cup {NoCall}]
          /\ answers \in [Clients -> Seq(Answer)]
      OBVIOUS
    <2>4. DOMAIN resources = hosted /\ hosted \subseteq 1 .. nextResource - 1
      OBVIOUS
    <2>5. /\ highest \in [Queue -> Nat]
          /\ unsignalled \in [Queue -> SUBSET (1 .. nextFence - 1)]
          /\ signalled \in [Queue -> SUBSET (1 .. nextFence - 1)]
      OBVIOUS
    <2>6. active \in BOOLEAN /\ (active <=> actor \in {"drain", "poll"})
      OBVIOUS
    <2> QED
      BY <2>1, <2>2, <2>3, <2>4, <2>5, <2>6, Zenon DEF ActorTypeOK
  <1>2. Channel
    BY DEF Channel, QueueOwes, QueueOnce, AnswerOwes, Owed, NoCall
  <1>3. FenceOwes /\ BlockedHolds /\ PollsAFence
    BY DEF FenceOwes, BlockedHolds, PollsAFence
  <1>4. FencesInOrder
    BY DEF FencesInOrder
  <1>5. WaitIsTrue
    BY DEF WaitIsTrue
  <1> QED
    BY <1>1, <1>2, <1>3, <1>4, <1>5 DEF ActorInv

\* The records of the module differ from the ones that mean "none".
LEMMA SomeCall == \A call \in Call : call # NoCall
  BY DEF Call, NoCall

\* The ids spent only grow.
LEMMA MoreIds ==
    ASSUME NEW a \in Nat, NEW b \in Nat, a <= b
    PROVE  1 .. a - 1 \subseteq 1 .. b - 1
  <1> SUFFICES ASSUME NEW k \in 1 .. a - 1 PROVE k \in 1 .. b - 1
    OBVIOUS
  <1> QED
    OBVIOUS

\* A command leaves the channel and its caller is answered: all is as before
\* for everyone else.
LEMMA AnswerTheHead ==
    ASSUME ActorInv, commands # << >>, NEW a \in Answer,
           commands' = Tail(commands), Send(Caller, a),
           calls' = calls, inflight' = inflight
    PROVE  /\ Caller \in Clients /\ Called \in Call
           /\ calls[Caller] = Called
           /\ commands' \in Seq(Command)
           /\ answers' \in [Clients -> Seq(Answer)]
           /\ answers'[Caller] = <<a>>
           /\ \A c \in Clients \ {Caller} : answers'[c] = answers[c]
           /\ inflight.client # Caller
           /\ Channel'
  <1> DEFINE n == Len(commands)
  <1>1. /\ commands \in Seq(Command)
        /\ answers \in [Clients -> Seq(Answer)]
        /\ calls \in [Clients -> Call \cup {NoCall}]
    BY DEF ActorInv, ActorTypeOK
  <1>2. /\ n \in Nat \ {0} /\ Caller = commands[1].client /\ Called = commands[1].call
        /\ Caller \in Clients /\ Called \in Call
    <2>1. n \in Nat \ {0}
      BY <1>1
    <2>2. commands[1] \in Command
      BY <1>1, <2>1
    <2>3. Head(commands) = commands[1]
      BY <1>1, <2>1
    <2> QED
      BY <2>1, <2>2, <2>3 DEF Caller, Called, Command
  <1>3. /\ commands' \in Seq(Command) /\ Len(commands') = n - 1
        /\ \A i \in 1 .. n - 1 : commands'[i] = commands[i + 1]
    BY <1>1, <1>2
  <1>4. /\ calls[Caller] = Called /\ answers[Caller] = << >>
        /\ inflight.client # Caller
    BY <1>2 DEF ActorInv, Channel, QueueOwes
  <1>5. /\ answers'[Caller] = <<a>> /\ answers' \in [Clients -> Seq(Answer)]
        /\ \A c \in Clients \ {Caller} : answers'[c] = answers[c]
    BY <1>1, <1>2, <1>4 DEF Send
  <1>6. \A i \in 1 .. n - 1 : commands'[i].client # Caller
    BY <1>2, <1>3 DEF ActorInv, Channel, QueueOnce
  <1>7. QueueOwes'
    <2> SUFFICES ASSUME NEW i \in 1 .. n - 1
                 PROVE  /\ calls'[commands'[i].client] = commands'[i].call
                        /\ answers'[commands'[i].client] = << >>
                        /\ inflight'.client # commands'[i].client
      BY <1>3 DEF QueueOwes
    <2>1. i + 1 \in 1 .. Len(commands) /\ commands'[i] = commands[i + 1]
      BY <1>2, <1>3
    <2>2. commands[i + 1].client \in Clients
      <3>1. commands[i + 1] \in Command
        BY <1>1, <2>1
      <3> QED
        BY <3>1 DEF Command
    <2>3. /\ calls[commands[i + 1].client] = commands[i + 1].call
          /\ answers[commands[i + 1].client] = << >>
          /\ inflight.client # commands[i + 1].client
      BY <2>1 DEF ActorInv, Channel, QueueOwes
    <2> QED
      BY <1>5, <1>6, <2>1, <2>2, <2>3
  <1>8. QueueOnce'
    <2> SUFFICES ASSUME NEW i \in 1 .. n - 1, NEW j \in 1 .. n - 1,
                        commands'[i].client = commands'[j].client
                 PROVE  i = j
      BY <1>3 DEF QueueOnce
    <2>1. commands[i + 1].client = commands[j + 1].client
      BY <1>3
    <2> QED
      BY <1>2, <2>1 DEF ActorInv, Channel, QueueOnce
  <1>9. AnswerOwes'
    <2> SUFFICES ASSUME NEW c \in Clients, answers'[c] # << >>
                 PROVE  calls[c] # NoCall /\ Len(answers'[c]) = 1
      BY DEF AnswerOwes
    <2>1. CASE c = Caller
      BY <1>2, <1>4, <1>5, <2>1, SomeCall
    <2>2. CASE c # Caller
      BY <1>5, <2>2 DEF ActorInv, Channel, AnswerOwes
    <2> QED
      BY <2>1, <2>2
  <1>10. Owed'
    <2> SUFFICES ASSUME NEW c \in Clients, calls[c] # NoCall, c # Caller
                 PROVE  \/ \E i \in 1 .. Len(commands') : commands'[i].client = c
                        \/ inflight'.client = c
                        \/ answers'[c] # << >>
      <3>1. answers'[Caller] # << >>
        BY <1>5
      <3> QED
        BY <3>1 DEF Owed
    <2>1. CASE \E i \in 1 .. n : commands[i].client = c
      <3>1. PICK i \in 1 .. n : commands[i].client = c
        BY <2>1
      <3>2. i - 1 \in 1 .. n - 1 /\ commands'[i - 1] = commands[i]
        BY <1>2, <1>3, <3>1
      <3> QED
        BY <1>3, <3>1, <3>2
    <2> QED
      BY <1>5, <2>1 DEF ActorInv, Channel, Owed
  <1> QED
    BY <1>1, <1>2, <1>3, <1>4, <1>5, <1>7, <1>8, <1>9, <1>10 DEF Channel

\* The same, with the fence in flight and every answered wait untouched.
LEMMA AnswerKeepsInv ==
    ASSUME ActorInv, commands # << >>, NEW a \in Answer,
           commands' = Tail(commands), Send(Caller, a),
           UNCHANGED <<actor, held, calls, inflight, unsignalled, signalled, highest>>,
           nextFence' \in {nextFence, nextFence + 1},
           Called.op # "wait" \/ ~ a.ok
    PROVE  /\ commands' \in Seq(Command)
           /\ answers' \in [Clients -> Seq(Answer)]
           /\ Channel' /\ FenceOwes' /\ BlockedHolds' /\ PollsAFence' /\ FencesInOrder'
           /\ WaitIsTrue'
  <1>1. /\ Caller \in Clients /\ calls[Caller] = Called
        /\ commands' \in Seq(Command)
        /\ answers' \in [Clients -> Seq(Answer)]
        /\ answers'[Caller] = <<a>>
        /\ \A c \in Clients \ {Caller} : answers'[c] = answers[c]
        /\ inflight.client # Caller
        /\ Channel'
    BY AnswerTheHead
  <1>2. FenceOwes'
    <2>1. CASE inflight = NoFence
      BY <2>1 DEF FenceOwes
    <2>2. CASE inflight # NoFence
      <3>1. inflight.client \in Clients
        BY <2>2 DEF ActorInv, ActorTypeOK
      <3> QED
        BY <1>1, <2>2, <3>1 DEF ActorInv, FenceOwes
    <2> QED
      BY <2>1, <2>2
  <1>3. BlockedHolds' /\ PollsAFence' /\ FencesInOrder'
    BY DEF ActorInv, BlockedHolds, PollsAFence, FencesInOrder
  <1>4. WaitIsTrue'
    <2> SUFFICES ASSUME NEW c \in Clients, calls[c] # NoCall,
                        calls[c].op = "wait", answers'[c] # << >>,
                        NEW i \in DOMAIN answers'[c], answers'[c][i].ok
                 PROVE  /\ answers'[c][i].fence \in 1 .. nextFence' - 1
                        /\ answers'[c][i].fence \notin
                               unsignalled[<<calls[c].ctx, calls[c].ring>>]
      BY DEF WaitIsTrue
    <2>1. c # Caller
      BY <1>1
    <2>2. /\ answers[c][i].fence \in 1 .. nextFence - 1
          /\ answers[c][i].fence \notin
                 unsignalled[<<calls[c].ctx, calls[c].ring>>]
      BY <1>1, <2>1 DEF ActorInv, WaitIsTrue
    <2>3. 1 .. nextFence - 1 \subseteq 1 .. nextFence' - 1
      <3>1. nextFence \in Nat
        BY DEF ActorInv, ActorTypeOK
      <3>2. nextFence' \in Nat /\ nextFence <= nextFence'
        BY <3>1
      <3> QED
        BY <3>1, <3>2, MoreIds
    <2> QED
      BY <1>1, <2>1, <2>2, <2>3
  <1> QED
    BY <1>1, <1>2, <1>3, <1>4

\* The two plain answers, of a command that was done and of one that was
\* refused.
LEMMA Answers == Done \in Answer /\ Refused \in Answer /\ ~ Refused.ok
  BY DEF Done, Refused, Answer

\* A step that touches neither the channel nor a fence.
LEMMA Undisturbed ==
    ASSUME ActorInv, UNCHANGED <<commands, calls, answers, inflight, fenceVars>>
    PROVE  Channel' /\ FenceOwes' /\ FencesInOrder' /\ WaitIsTrue'
  <1>1. Channel'
    BY DEF ActorInv, Channel, QueueOwes, QueueOnce, AnswerOwes, Owed
  <1>2. FenceOwes' /\ FencesInOrder'
    BY DEF ActorInv, FenceOwes, FencesInOrder, fenceVars
  <1>3. WaitIsTrue'
    BY DEF ActorInv, WaitIsTrue, fenceVars
  <1> QED
    BY <1>1, <1>2, <1>3

-----------------------------------------------------------------------------
(* The commands.                                                           *)

LEMMA ContextStep == ActorInv /\ HandleCreateVenusContext => ActorInv'
  <1> SUFFICES ASSUME ActorInv, HandleCreateVenusContext PROVE ActorInv'
    OBVIOUS
  <1>1. /\ commands # << >> /\ commands' = Tail(commands) /\ Called.op = "context"
        /\ UNCHANGED <<actor, active, held, calls, inflight, resources, nextResource,
                       hosted, fenceVars>>
    BY DEF HandleCreateVenusContext, Taken
  <1>2. PICK a \in {Done, Refused} : Send(Caller, a)
    BY DEF HandleCreateVenusContext
  <1>3. contexts' \subseteq Contexts
    <2>1. Called \in Call
      BY <1>1, <1>2, AnswerTheHead, Answers
    <2>2. Called.ctx \in Contexts
      BY <1>1, <2>1 DEF Call
    <2> QED
      BY <2>2 DEF HandleCreateVenusContext, ActorInv, ActorTypeOK
  <1>4. /\ commands' \in Seq(Command)
        /\ answers' \in [Clients -> Seq(Answer)]
        /\ Channel' /\ FenceOwes' /\ BlockedHolds' /\ PollsAFence' /\ FencesInOrder'
        /\ WaitIsTrue'
    BY <1>1, <1>2, AnswerKeepsInv, Answers DEF fenceVars
  <1>5. ActorTypeOK'
    BY <1>1, <1>3, <1>4 DEF ActorInv, ActorTypeOK, fenceVars
  <1> QED
    BY <1>4, <1>5 DEF ActorInv

\* Commands that touch neither the table of resources nor a fence's place.
LEMMA PlainStep == ActorInv /\ (HandleSubmit \/ HandleVenusCapset) => ActorInv'
  <1> SUFFICES ASSUME ActorInv, HandleSubmit \/ HandleVenusCapset PROVE ActorInv'
    OBVIOUS
  <1>1. /\ commands # << >> /\ commands' = Tail(commands)
        /\ Called.op # "wait"
        /\ UNCHANGED <<actor, active, held, calls, inflight, tableVars, fenceVars>>
    BY DEF HandleSubmit, HandleVenusCapset, Taken
  <1>2. PICK a \in {Done, Refused} : Send(Caller, a)
    BY DEF HandleSubmit, HandleVenusCapset
  <1>4. /\ commands' \in Seq(Command)
        /\ answers' \in [Clients -> Seq(Answer)]
        /\ Channel' /\ FenceOwes' /\ BlockedHolds' /\ PollsAFence' /\ FencesInOrder'
        /\ WaitIsTrue'
    BY <1>1, <1>2, AnswerKeepsInv, Answers DEF fenceVars
  <1>5. ActorTypeOK'
    BY <1>1, <1>4 DEF ActorInv, ActorTypeOK, fenceVars, tableVars
  <1> QED
    BY <1>4, <1>5 DEF ActorInv

\* A creation takes an id never used, in the library and in the table alike, or
\* is taken back.
LEMMA CreateBlobStep == ActorInv /\ HandleCreateBlobResource => ActorInv'
  <1> SUFFICES ASSUME ActorInv, HandleCreateBlobResource PROVE ActorInv'
    OBVIOUS
  <1>1. /\ commands # << >> /\ commands' = Tail(commands) /\ Called.op = "blob"
        /\ UNCHANGED <<actor, active, held, calls, inflight, contexts, fenceVars>>
    BY DEF HandleCreateBlobResource, Taken
  <1>2. [Done EXCEPT !.res = nextResource] \in Answer
    BY DEF Done, Answer, ActorInv, ActorTypeOK
  <1>3. PICK a \in Answer : Send(Caller, a)
    BY <1>2, Answers DEF HandleCreateBlobResource
  <1>4. /\ commands' \in Seq(Command)
        /\ answers' \in [Clients -> Seq(Answer)]
        /\ Channel' /\ FenceOwes' /\ BlockedHolds' /\ PollsAFence' /\ FencesInOrder'
        /\ WaitIsTrue'
    BY <1>1, <1>3, AnswerKeepsInv DEF fenceVars
  <1>5. /\ DOMAIN resources = hosted /\ hosted \subseteq 1 .. nextResource - 1
        /\ nextResource \in Nat \ {0}
    BY DEF ActorInv, ActorTypeOK
  <1>6. /\ DOMAIN resources' = hosted' /\ hosted' \subseteq 1 .. nextResource' - 1
        /\ nextResource' \in Nat \ {0}
    <2>1. CASE UNCHANGED <<resources, hosted>> /\ nextResource' = nextResource
      BY <1>5, <2>1
    <2>2. nextResource \notin hosted
      BY <1>5
    <2>3. CASE UNCHANGED <<resources, hosted>> /\ nextResource' = nextResource + 1
      BY <1>5, <2>3
    <2>4. CASE ExportFailed(nextResource) /\ nextResource' = nextResource + 1
      <3>1. hosted' = hosted /\ resources' = resources
        BY <2>2, <2>4 DEF ExportFailed
      <3> QED
        BY <1>5, <2>4, <3>1
    <2>5. CASE /\ DOMAIN resources' = DOMAIN resources \cup {nextResource}
               /\ hosted' = hosted \cup {nextResource}
               /\ nextResource' = nextResource + 1
      BY <1>5, <2>5
    <2> QED
      BY <2>1, <2>3, <2>4, <2>5 DEF HandleCreateBlobResource
  <1>7. ActorTypeOK'
    BY <1>1, <1>4, <1>6 DEF ActorInv, ActorTypeOK, fenceVars
  <1> QED
    BY <1>4, <1>7 DEF ActorInv

\* An unref removes the resource from the library and the table alike.
LEMMA UnrefStep == ActorInv /\ HandleUnrefResource => ActorInv'
  <1> SUFFICES ASSUME ActorInv, HandleUnrefResource PROVE ActorInv'
    OBVIOUS
  <1>1. /\ commands # << >> /\ commands' = Tail(commands) /\ Called.op = "unref"
        /\ Send(Caller, Done)
        /\ UNCHANGED <<actor, active, held, calls, inflight, contexts, nextResource,
                       fenceVars>>
    BY DEF HandleUnrefResource, Taken
  <1>2. /\ commands' \in Seq(Command)
        /\ answers' \in [Clients -> Seq(Answer)]
        /\ Channel' /\ FenceOwes' /\ BlockedHolds' /\ PollsAFence' /\ FencesInOrder'
        /\ WaitIsTrue'
    BY <1>1, AnswerKeepsInv, Answers DEF fenceVars
  <1>3. DOMAIN resources' = hosted' /\ hosted' \subseteq 1 .. nextResource' - 1
    BY <1>1 DEF HandleUnrefResource, ActorInv, ActorTypeOK
  <1>4. ActorTypeOK'
    BY <1>1, <1>2, <1>3 DEF ActorInv, ActorTypeOK, fenceVars
  <1> QED
    BY <1>2, <1>4 DEF ActorInv

\* A wait that is accepted moves its caller from the channel to the fence.
LEMMA WaitAccepted ==
    ASSUME ActorInv, Taken("wait"), inflight = NoFence,
           inflight' = [client |-> Caller, ctx |-> Called.ctx, ring |-> Called.ring,
                        id |-> nextFence, late |-> FALSE],
           unsignalled' = [unsignalled EXCEPT ![<<Called.ctx, Called.ring>>]
                               = @ \cup {nextFence}],
           nextFence' = nextFence + 1,
           UNCHANGED <<actor, active, held, calls, answers, tableVars, highest,
                       signalled>>
    PROVE  ActorInv'
  <1> DEFINE n == Len(commands)
  <1> DEFINE q == <<Called.ctx, Called.ring>>
  <1>1. /\ commands \in Seq(Command) /\ commands # << >>
        /\ commands' = Tail(commands)
        /\ actor = "drain" /\ Called.op = "wait"
    BY DEF ActorInv, ActorTypeOK, Taken
  <1>2. /\ n \in Nat \ {0} /\ Caller = commands[1].client /\ Called = commands[1].call
        /\ Caller \in Clients /\ Called \in Call
    <2>1. n \in Nat \ {0}
      BY <1>1
    <2>2. commands[1] \in Command
      BY <1>1, <2>1
    <2>3. Head(commands) = commands[1]
      BY <1>1, <2>1
    <2> QED
      BY <2>1, <2>2, <2>3 DEF Caller, Called, Command
  <1>3. /\ commands' \in Seq(Command) /\ Len(commands') = n - 1
        /\ \A i \in 1 .. n - 1 : commands'[i] = commands[i + 1]
    BY <1>1, <1>2
  <1>4. /\ calls[Caller] = Called /\ answers[Caller] = << >>
        /\ q \in Queue /\ Called.ctx \in Contexts /\ Called.ring \in Rings
        /\ Called = [op |-> "wait", ctx |-> Called.ctx, ring |-> Called.ring]
    BY <1>1, <1>2 DEF ActorInv, Channel, QueueOwes, Call, Queue
  <1>5. /\ unsignalled \in [Queue -> SUBSET (1 .. nextFence - 1)]
        /\ signalled \in [Queue -> SUBSET (1 .. nextFence - 1)]
        /\ nextFence \in Nat \ {0}
    BY DEF ActorInv, ActorTypeOK
  <1>6. /\ unsignalled' \in [Queue -> SUBSET (1 .. nextFence' - 1)]
        /\ signalled' \in [Queue -> SUBSET (1 .. nextFence' - 1)]
        /\ nextFence' \in Nat \ {0}
        /\ \A p \in Queue : unsignalled'[p] \subseteq unsignalled[p] \cup {nextFence}
        /\ nextFence \in unsignalled'[q]
    BY <1>4, <1>5
  <1>7. inflight' \in [client : Clients, ctx : Contexts, ring : Rings, id : Nat,
                       late : BOOLEAN]
    BY <1>2, <1>4, <1>5
  <1>8. ActorTypeOK'
    BY <1>3, <1>6, <1>7 DEF ActorInv, ActorTypeOK, tableVars
  <1>9. Channel'
    <2>1. \A i \in 1 .. n - 1 : commands'[i].client # Caller
      BY <1>2, <1>3 DEF ActorInv, Channel, QueueOnce
    <2>2. QueueOwes'
      <3> SUFFICES ASSUME NEW i \in 1 .. n - 1
                   PROVE  /\ calls[commands'[i].client] = commands'[i].call
                          /\ answers[commands'[i].client] = << >>
                          /\ inflight'.client # commands'[i].client
        BY <1>3 DEF QueueOwes
      <3>1. i + 1 \in 1 .. n /\ commands'[i] = commands[i + 1]
        BY <1>2, <1>3
      <3> QED
        BY <2>1, <3>1 DEF ActorInv, Channel, QueueOwes
    <2>3. QueueOnce'
      <3> SUFFICES ASSUME NEW i \in 1 .. n - 1, NEW j \in 1 .. n - 1,
                          commands'[i].client = commands'[j].client
                   PROVE  i = j
        BY <1>3 DEF QueueOnce
      <3>1. commands[i + 1].client = commands[j + 1].client
        BY <1>3
      <3> QED
        BY <1>2, <3>1 DEF ActorInv, Channel, QueueOnce
    <2>4. AnswerOwes'
      BY DEF ActorInv, Channel, AnswerOwes
    <2>5. Owed'
      <3> SUFFICES ASSUME NEW c \in Clients, calls[c] # NoCall, c # Caller
                   PROVE  \/ \E i \in 1 .. Len(commands') : commands'[i].client = c
                          \/ answers[c] # << >>
        BY DEF Owed
      <3>1. CASE \E i \in 1 .. n : commands[i].client = c
        <4>1. PICK i \in 1 .. n : commands[i].client = c
          BY <3>1
        <4>2. i - 1 \in 1 .. n - 1 /\ commands'[i - 1] = commands[i]
          BY <1>2, <1>3, <4>1
        <4> QED
          BY <1>3, <4>1, <4>2
      <3>2. CASE inflight.client = c
        BY <3>2, EngineAssumption DEF NoFence
      <3> QED
        BY <3>1, <3>2 DEF ActorInv, Channel, Owed
    <2> QED
      BY <2>2, <2>3, <2>4, <2>5 DEF Channel
  <1>10. FenceOwes' /\ BlockedHolds' /\ PollsAFence'
    BY <1>1, <1>4, <1>6 DEF ActorInv, FenceOwes, BlockedHolds, PollsAFence
  <1>11. FencesInOrder'
    <2> SUFFICES ASSUME NEW p \in Queue, NEW s \in signalled[p],
                        NEW u \in unsignalled'[p]
                 PROVE  s < u
      BY DEF FencesInOrder, ActorInv
    <2>1. s \in 1 .. nextFence - 1
      BY <1>5
    <2>2. u \in unsignalled[p] \/ u = nextFence
      BY <1>6
    <2> QED
      BY <1>5, <2>1, <2>2 DEF ActorInv, FencesInOrder
  <1>12. WaitIsTrue'
    <2> SUFFICES ASSUME NEW c \in Clients, calls[c] # NoCall,
                        calls[c].op = "wait", answers[c] # << >>,
                        NEW i \in DOMAIN answers[c], answers[c][i].ok
                 PROVE  /\ answers[c][i].fence \in 1 .. nextFence' - 1
                        /\ answers[c][i].fence \notin
                               unsignalled'[<<calls[c].ctx, calls[c].ring>>]
      BY DEF WaitIsTrue
    <2>1. /\ answers[c][i].fence \in 1 .. nextFence - 1
          /\ answers[c][i].fence \notin
                 unsignalled[<<calls[c].ctx, calls[c].ring>>]
      BY DEF ActorInv, WaitIsTrue
    <2>2. calls[c] \in Call
      BY DEF ActorInv, ActorTypeOK
    <2>3. <<calls[c].ctx, calls[c].ring>> \in Queue
      BY <2>2 DEF Call, Queue
    <2>4. /\ answers[c][i].fence \in 1 .. nextFence' - 1
          /\ answers[c][i].fence # nextFence
      BY <1>5, <2>1
    <2>5. unsignalled'[<<calls[c].ctx, calls[c].ring>>]
            \subseteq unsignalled[<<calls[c].ctx, calls[c].ring>>] \cup {nextFence}
      BY <1>6, <2>3
    <2> QED
      BY <2>1, <2>4, <2>5, Zenon
  <1> QED
    BY <1>8, <1>9, <1>10, <1>11, <1>12 DEF ActorInv

\* A wait is refused, answered at once, or becomes the fence in flight: its
\* client is in one of the three places.
LEMMA WaitStep == ActorInv /\ HandleWaitForWorkRetired => ActorInv'
  <1> SUFFICES ASSUME ActorInv, HandleWaitForWorkRetired PROVE ActorInv'
    OBVIOUS
  <1>1. /\ Taken("wait")
        /\ UNCHANGED <<actor, active, held, calls, tableVars, highest, signalled>>
    BY DEF HandleWaitForWorkRetired
  <1>2. CASE /\ Send(Caller, Refused)
             /\ nextFence' \in {nextFence, nextFence + 1}
             /\ UNCHANGED <<inflight, unsignalled>>
    <2>1. commands # << >> /\ commands' = Tail(commands)
      BY <1>1 DEF Taken
    <2>2. /\ commands' \in Seq(Command)
          /\ answers' \in [Clients -> Seq(Answer)]
          /\ Channel' /\ FenceOwes' /\ BlockedHolds' /\ PollsAFence' /\ FencesInOrder'
          /\ WaitIsTrue'
      BY <1>1, <1>2, <2>1, AnswerKeepsInv, Answers
    <2>3. /\ unsignalled' \in [Queue -> SUBSET (1 .. nextFence' - 1)]
          /\ signalled' \in [Queue -> SUBSET (1 .. nextFence' - 1)]
          /\ nextFence' \in Nat \ {0}
      <3>1. /\ unsignalled \in [Queue -> SUBSET (1 .. nextFence - 1)]
            /\ signalled \in [Queue -> SUBSET (1 .. nextFence - 1)]
            /\ nextFence \in Nat \ {0}
        BY DEF ActorInv, ActorTypeOK
      <3>2. 1 .. nextFence - 1 \subseteq 1 .. nextFence' - 1
        <4>1. nextFence' \in Nat /\ nextFence <= nextFence'
          BY <1>2, <3>1
        <4> QED
          BY <3>1, <4>1, MoreIds
      <3>3. \A q \in Queue : /\ unsignalled[q] \subseteq 1 .. nextFence' - 1
                            /\ signalled[q] \subseteq 1 .. nextFence' - 1
        BY <3>1, <3>2, Zenon
      <3>4. nextFence' \in Nat \ {0}
        BY <1>2, <3>1
      <3>5. unsignalled' = unsignalled /\ signalled' = signalled
        BY <1>1, <1>2
      <3> QED
        BY <3>1, <3>3, <3>4, <3>5
    <2>4. ActorTypeOK'
      BY <1>1, <1>2, <2>2, <2>3 DEF ActorInv, ActorTypeOK, tableVars
    <2> QED
      BY <2>2, <2>4 DEF ActorInv
  <1>3. CASE /\ inflight = NoFence
             /\ inflight' = [client |-> Caller, ctx |-> Called.ctx,
                             ring |-> Called.ring, id |-> nextFence, late |-> FALSE]
             /\ unsignalled' = [unsignalled EXCEPT ![<<Called.ctx, Called.ring>>]
                                    = @ \cup {nextFence}]
             /\ nextFence' = nextFence + 1
             /\ UNCHANGED answers
    BY <1>1, <1>3, WaitAccepted
  <1> QED
    BY <1>2, <1>3 DEF HandleWaitForWorkRetired, Admits

-----------------------------------------------------------------------------
(* The clients.                                                            *)

LEMMA RequestStep ==
    ASSUME ActorInv, NEW c \in Clients, NEW call \in Call, Request(c, call)
    PROVE  ActorInv'
  <1> DEFINE n == Len(commands)
  <1>1. /\ commands \in Seq(Command) /\ n \in Nat
        /\ calls \in [Clients -> Call \cup {NoCall}]
        /\ c \in held /\ calls[c] = NoCall
        /\ UNCHANGED <<actor, active, held, answers, inflight, tableVars, fenceVars>>
    BY DEF ActorInv, ActorTypeOK, Request
  <1>2. [client |-> c, call |-> call] \in Command
    BY DEF Command
  <1>3. /\ commands' \in Seq(Command) /\ Len(commands') = n + 1
        /\ \A i \in 1 .. n : commands'[i] = commands[i]
        /\ commands'[n + 1] = [client |-> c, call |-> call]
    BY <1>1, <1>2 DEF Request
  <1>4. /\ calls' \in [Clients -> Call \cup {NoCall}]
        /\ calls'[c] = call /\ call # NoCall
        /\ \A d \in Clients \ {c} : calls'[d] = calls[d]
    BY <1>1, SomeCall DEF Request
  <1>5. ActorTypeOK'
    BY <1>1, <1>3, <1>4 DEF ActorInv, ActorTypeOK, tableVars, fenceVars
  <1>6. \A i \in 1 .. n : /\ commands[i].client \in Clients
                          /\ commands[i].client # c
    <2> SUFFICES ASSUME NEW i \in 1 .. n
                 PROVE  commands[i].client \in Clients /\ commands[i].client # c
      OBVIOUS
    <2>1. commands[i] \in Command
      BY <1>1
    <2>2. commands[i].client \in Clients /\ commands[i].call \in Call
      BY <2>1 DEF Command
    <2>3. calls[commands[i].client] = commands[i].call
      BY DEF ActorInv, Channel, QueueOwes
    <2> QED
      BY <1>1, <2>2, <2>3, SomeCall
  <1>7. answers[c] = << >> /\ inflight.client # c
    <2>1. answers[c] = << >>
      BY <1>1 DEF ActorInv, Channel, AnswerOwes
    <2>2. CASE inflight = NoFence
      BY <2>1, <2>2, EngineAssumption DEF NoFence
    <2>3. CASE inflight # NoFence
      BY <1>1, <2>1, <2>3 DEF ActorInv, FenceOwes, NoCall
    <2> QED
      BY <2>1, <2>2, <2>3
  <1>8. QueueOwes'
    <2> SUFFICES ASSUME NEW i \in 1 .. n + 1
                 PROVE  /\ calls'[commands'[i].client] = commands'[i].call
                        /\ answers[commands'[i].client] = << >>
                        /\ inflight.client # commands'[i].client
      BY <1>1, <1>3 DEF QueueOwes
    <2>1. CASE i = n + 1
      BY <1>3, <1>4, <1>7, <2>1
    <2>2. CASE i \in 1 .. n
      <3>1. /\ calls[commands[i].client] = commands[i].call
            /\ answers[commands[i].client] = << >>
            /\ inflight.client # commands[i].client
        BY <2>2 DEF ActorInv, Channel, QueueOwes
      <3>2. commands'[i] = commands[i] /\ commands[i].client \in Clients \ {c}
        BY <1>3, <1>6, <2>2
      <3> QED
        BY <1>4, <3>1, <3>2
    <2>3. i = n + 1 \/ i \in 1 .. n
      BY <1>1
    <2> QED
      BY <2>1, <2>2, <2>3
  <1>9. QueueOnce'
    <2> SUFFICES ASSUME NEW i \in 1 .. n + 1, NEW j \in 1 .. n + 1,
                        commands'[i].client = commands'[j].client
                 PROVE  i = j
      BY <1>3 DEF QueueOnce
    <2>1. CASE i \in 1 .. n /\ j \in 1 .. n
      BY <1>3, <2>1 DEF ActorInv, Channel, QueueOnce
    <2>2. CASE i = n + 1 \/ j = n + 1
      BY <1>1, <1>3, <1>6, <2>2
    <2> QED
      BY <1>1, <2>1, <2>2
  <1>10. AnswerOwes'
    BY <1>1, <1>4 DEF ActorInv, Channel, AnswerOwes
  <1>11. Owed'
    <2> SUFFICES ASSUME NEW d \in Clients, calls'[d] # NoCall
                 PROVE  \/ \E i \in 1 .. n + 1 : commands'[i].client = d
                        \/ inflight.client = d
                        \/ answers[d] # << >>
      BY <1>1, <1>3 DEF Owed
    <2>1. CASE d = c
      BY <1>1, <1>3, <2>1
    <2>2. CASE d # c /\ \E i \in 1 .. n : commands[i].client = d
      BY <1>1, <1>3, <2>2
    <2> QED
      BY <1>4, <2>1, <2>2 DEF ActorInv, Channel, Owed
  <1>12. FenceOwes'
    <2>1. CASE inflight = NoFence
      BY <1>1, <2>1 DEF FenceOwes
    <2>2. CASE inflight # NoFence
      <3>1. inflight.client \in Clients \ {c}
        BY <1>7, <2>2 DEF ActorInv, ActorTypeOK
      <3> QED
        BY <1>1, <1>4, <2>2, <3>1 DEF ActorInv, FenceOwes, fenceVars
    <2> QED
      BY <2>1, <2>2
  <1>13. BlockedHolds' /\ PollsAFence' /\ FencesInOrder'
    BY <1>1, <1>4 DEF ActorInv, BlockedHolds, PollsAFence, FencesInOrder, fenceVars
  <1>14. WaitIsTrue'
    BY <1>1, <1>4, <1>7 DEF ActorInv, WaitIsTrue, fenceVars
  <1> QED
    BY <1>5, <1>8, <1>9, <1>10, <1>11, <1>12, <1>13, <1>14 DEF ActorInv, Channel

\* A client that takes its answer is owed nothing more.
LEMMA CollectStep ==
    ASSUME ActorInv, NEW c \in Clients, Collect(c)
    PROVE  ActorInv'
  <1>1. /\ calls \in [Clients -> Call \cup {NoCall}]
        /\ answers \in [Clients -> Seq(Answer)]
        /\ calls[c] # NoCall /\ answers[c] # << >>
        /\ UNCHANGED <<actor, active, held, commands, inflight, tableVars, fenceVars>>
    BY DEF ActorInv, ActorTypeOK, Collect
  <1>2. /\ calls' \in [Clients -> Call \cup {NoCall}] /\ calls'[c] = NoCall
        /\ answers' \in [Clients -> Seq(Answer)] /\ answers'[c] = << >>
        /\ \A d \in Clients \ {c} : calls'[d] = calls[d] /\ answers'[d] = answers[d]
    BY <1>1 DEF Collect
  <1>3. ActorTypeOK'
    BY <1>1, <1>2 DEF ActorInv, ActorTypeOK, tableVars, fenceVars
  <1>4. \A i \in 1 .. Len(commands) : commands[i].client \in Clients \ {c}
    <2> SUFFICES ASSUME NEW i \in 1 .. Len(commands)
                 PROVE  commands[i].client \in Clients \ {c}
      OBVIOUS
    <2>1. commands[i] \in Command
      BY DEF ActorInv, ActorTypeOK
    <2>2. commands[i].client \in Clients
      BY <2>1 DEF Command
    <2> QED
      BY <1>1, <2>2 DEF ActorInv, Channel, QueueOwes
  <1>5. QueueOwes' /\ QueueOnce'
    BY <1>1, <1>2, <1>4 DEF ActorInv, Channel, QueueOwes, QueueOnce
  <1>6. AnswerOwes' /\ Owed'
    BY <1>1, <1>2 DEF ActorInv, Channel, AnswerOwes, Owed
  <1>7. FenceOwes'
    <2>1. CASE inflight = NoFence
      BY <1>1, <2>1 DEF FenceOwes
    <2>2. CASE inflight # NoFence
      <3>1. inflight.client \in Clients \ {c}
        BY <1>1, <2>2 DEF ActorInv, ActorTypeOK, FenceOwes
      <3> QED
        BY <1>1, <1>2, <2>2, <3>1 DEF ActorInv, FenceOwes, fenceVars
    <2> QED
      BY <2>1, <2>2
  <1>8. BlockedHolds' /\ PollsAFence' /\ FencesInOrder'
    BY <1>1, <1>2 DEF ActorInv, BlockedHolds, PollsAFence, FencesInOrder, fenceVars
  <1>9. WaitIsTrue'
    BY <1>1, <1>2 DEF ActorInv, WaitIsTrue, fenceVars
  <1> QED
    BY <1>3, <1>5, <1>6, <1>7, <1>8, <1>9 DEF ActorInv, Channel

\* Only a client that is owed nothing leaves.
LEMMA LeaveStep ==
    ASSUME ActorInv, NEW c \in Clients, Leave(c)
    PROVE  ActorInv'
  <1>1. /\ calls[c] = NoCall /\ held' = held \ {c}
        /\ UNCHANGED <<actor, active, commands, calls, answers, inflight, tableVars,
                       fenceVars>>
    BY DEF Leave
  <1>2. ActorTypeOK'
    BY <1>1 DEF ActorInv, ActorTypeOK, tableVars, fenceVars
  <1>3. BlockedHolds' /\ PollsAFence'
    BY <1>1 DEF ActorInv, BlockedHolds, PollsAFence
  <1> QED
    BY <1>1, <1>2, <1>3, Undisturbed DEF ActorInv

-----------------------------------------------------------------------------
(* The actor's loop, the library and the clock.                            *)

LEMMA ConstructStep == ActorInv /\ Construct => ActorInv'
  <1> SUFFICES ASSUME ActorInv, Construct PROVE ActorInv'
    OBVIOUS
  <1>1. /\ UNCHANGED <<commands, calls, answers, inflight, tableVars, fenceVars>>
        /\ actor' \in {"drain", "gone"} /\ actor = "starting"
        /\ held \subseteq held' /\ held' \subseteq Clients
    BY DEF Construct, ActorInv, ActorTypeOK
  <1>2. active' \in BOOLEAN /\ (active' <=> actor' \in {"drain", "poll"})
    BY DEF Construct
  <1>3. ActorTypeOK'
    BY <1>1, <1>2 DEF ActorInv, ActorTypeOK, tableVars, fenceVars
  <1>4. BlockedHolds' /\ PollsAFence'
    BY <1>1 DEF ActorInv, BlockedHolds, PollsAFence
  <1> QED
    BY <1>1, <1>3, <1>4, Undisturbed DEF ActorInv

\* The channel is empty: the actor turns to the fence in flight, if there is
\* one.
LEMMA DrainedStep == ActorInv /\ Drained => ActorInv'
  <1> SUFFICES ASSUME ActorInv, Drained PROVE ActorInv'
    OBVIOUS
  <1>1. /\ UNCHANGED <<active, channelVars, inflight, tableVars, fenceVars>>
        /\ actor = "drain" /\ actor' = "poll" /\ inflight # NoFence
    BY DEF Drained
  <1>2. active' \in BOOLEAN /\ (active' <=> actor' \in {"drain", "poll"})
    BY <1>1 DEF ActorInv, ActorTypeOK
  <1>3. ActorTypeOK'
    BY <1>1, <1>2 DEF ActorInv, ActorTypeOK, channelVars, tableVars, fenceVars
  <1>4. BlockedHolds' /\ PollsAFence'
    BY <1>1 DEF ActorInv, BlockedHolds, PollsAFence, channelVars
  <1> QED
    BY <1>1, <1>3, <1>4, Undisturbed DEF ActorInv, channelVars

\* Nobody is blocked when the last client is gone, so no fence is in flight.
LEMMA TeardownStep == ActorInv /\ Teardown => ActorInv'
  <1> SUFFICES ASSUME ActorInv, Teardown PROVE ActorInv'
    OBVIOUS
  <1>1. inflight = NoFence
    <2> SUFFICES ASSUME inflight # NoFence PROVE FALSE
      OBVIOUS
    <2>1. inflight.client \in Clients /\ calls[inflight.client] # NoCall
      BY DEF ActorInv, ActorTypeOK, FenceOwes, NoCall
    <2> QED
      BY <2>1 DEF ActorInv, BlockedHolds, Teardown
  <1>2. UNCHANGED <<commands, calls, answers, inflight, fenceVars, held>>
    BY <1>1 DEF Teardown, channelVars
  <1>3. active' \in BOOLEAN /\ (active' <=> actor' \in {"drain", "poll"})
    BY DEF Teardown
  <1>4. DOMAIN resources' = hosted' /\ hosted' \subseteq 1 .. nextResource' - 1
    <2>1. DOMAIN resources' = {} /\ hosted' = {}
      BY DEF Teardown, ActorInv, ActorTypeOK
    <2> QED
      BY <2>1
  <1>5. actor' = "gone" /\ contexts' = {} /\ nextResource' = nextResource
    BY DEF Teardown
  <1>6. ActorTypeOK'
    BY <1>2, <1>3, <1>4, <1>5 DEF ActorInv, ActorTypeOK, fenceVars
  <1>7. BlockedHolds' /\ PollsAFence'
    BY <1>2, <1>5 DEF ActorInv, BlockedHolds, PollsAFence
  <1> QED
    BY <1>2, <1>6, <1>7, Undisturbed DEF ActorInv

\* The GPU reaches a ring's oldest fence.
LEMMA SignalStep ==
    ASSUME ActorInv, NEW q \in Queue, Signal(q)
    PROVE  ActorInv'
  <1>1. PICK id \in unsignalled[q] :
            /\ \A other \in unsignalled[q] : id <= other
            /\ unsignalled' = [unsignalled EXCEPT ![q] = @ \ {id}]
            /\ signalled' = [signalled EXCEPT ![q] = @ \cup {id}]
    BY DEF Signal
  <1>2. UNCHANGED <<actor, active, channelVars, inflight, tableVars, nextFence, highest>>
    BY DEF Signal
  <1>3. /\ unsignalled \in [Queue -> SUBSET (1 .. nextFence - 1)]
        /\ signalled \in [Queue -> SUBSET (1 .. nextFence - 1)]
        /\ highest \in [Queue -> Nat] /\ nextFence \in Nat \ {0}
    BY DEF ActorInv, ActorTypeOK
  <1>4. /\ unsignalled' \in [Queue -> SUBSET (1 .. nextFence - 1)]
        /\ signalled' \in [Queue -> SUBSET (1 .. nextFence - 1)]
        /\ \A p \in Queue \ {q} : /\ unsignalled'[p] = unsignalled[p]
                                  /\ signalled'[p] = signalled[p]
        /\ unsignalled'[q] = unsignalled[q] \ {id}
        /\ signalled'[q] = signalled[q] \cup {id}
    BY <1>1, <1>3
  <1>5. ActorTypeOK'
    BY <1>2, <1>3, <1>4 DEF ActorInv, ActorTypeOK, channelVars, tableVars
  <1>6. Channel' /\ BlockedHolds' /\ PollsAFence'
    BY <1>2 DEF ActorInv, Channel, QueueOwes, QueueOnce, AnswerOwes, Owed,
                BlockedHolds, PollsAFence, channelVars
  <1>7. FenceOwes'
    <2> SUFFICES ASSUME inflight # NoFence
                 PROVE  inflight.id \in
                            unsignalled'[<<inflight.ctx, inflight.ring>>]
                            \cup signalled'[<<inflight.ctx, inflight.ring>>]
      BY <1>2 DEF ActorInv, FenceOwes, channelVars
    <2>1. <<inflight.ctx, inflight.ring>> \in Queue
      BY DEF ActorInv, ActorTypeOK, Queue
    <2> QED
      BY <1>4, <2>1 DEF ActorInv, FenceOwes
  <1>8. FencesInOrder'
    <2>1. ASSUME NEW p \in Queue, NEW s \in signalled'[p], NEW u \in unsignalled'[p]
          PROVE  s < u
      <3>1. CASE p # q
        BY <1>4, <2>1, <3>1 DEF ActorInv, FencesInOrder
      <3>2. CASE p = q /\ s \in signalled[q]
        BY <1>4, <2>1, <3>2 DEF ActorInv, FencesInOrder
      <3>3. CASE p = q /\ s = id
        <4>1. u \in unsignalled[q] /\ u # id /\ id <= u
          BY <1>1, <1>4, <2>1, <3>3
        <4>2. u \in Int /\ id \in Int
          BY <1>3, <4>1
        <4> QED
          BY <3>3, <4>1, <4>2
      <3> QED
        BY <1>4, <2>1, <3>1, <3>2, <3>3
    <2>2. ASSUME NEW p \in Queue
          PROVE  highest[p] = 0 \/ highest[p] \in signalled'[p]
      BY <1>4, <2>2 DEF ActorInv, FencesInOrder
    <2> QED
      BY <1>2, <2>1, <2>2 DEF FencesInOrder
  <1>9. WaitIsTrue'
    <2> SUFFICES ASSUME NEW c \in Clients, calls[c] # NoCall,
                        calls[c].op = "wait", answers[c] # << >>,
                        NEW i \in DOMAIN answers[c], answers[c][i].ok
                 PROVE  /\ answers[c][i].fence \in 1 .. nextFence - 1
                        /\ answers[c][i].fence \notin
                               unsignalled'[<<calls[c].ctx, calls[c].ring>>]
      BY <1>2 DEF WaitIsTrue, channelVars
    <2>1. /\ answers[c][i].fence \in 1 .. nextFence - 1
          /\ answers[c][i].fence \notin
                 unsignalled[<<calls[c].ctx, calls[c].ring>>]
      BY DEF ActorInv, WaitIsTrue
    <2>2. calls[c] \in Call
      BY DEF ActorInv, ActorTypeOK
    <2>3. <<calls[c].ctx, calls[c].ring>> \in Queue
      BY <2>2 DEF Call, Queue
    <2> QED
      BY <1>4, <2>1, <2>3
  <1> QED
    BY <1>5, <1>6, <1>7, <1>8, <1>9 DEF ActorInv

\* A retirement thread raises the mark to a fence its ring has reached, perhaps
\* late or out of order.
LEMMA WriteStep ==
    ASSUME ActorInv, NEW q \in Queue, WriteContextFence(q)
    PROVE  ActorInv'
  <1>1. PICK id \in signalled[q] :
            highest' = [highest EXCEPT ![q] = IF id > @ THEN id ELSE @]
    BY DEF WriteContextFence
  <1>2. UNCHANGED <<actor, active, channelVars, inflight, tableVars, nextFence,
                    unsignalled, signalled>>
    BY DEF WriteContextFence
  <1>3. /\ signalled \in [Queue -> SUBSET (1 .. nextFence - 1)]
        /\ highest \in [Queue -> Nat] /\ nextFence \in Nat \ {0}
    BY DEF ActorInv, ActorTypeOK
  <1>4. /\ highest' \in [Queue -> Nat]
        /\ \A p \in Queue \ {q} : highest'[p] = highest[p]
        /\ highest'[q] \in {highest[q], id}
    <2>1. id \in Nat
      BY <1>3
    <2> QED
      BY <1>1, <1>3, <2>1
  <1>5. ActorTypeOK'
    BY <1>2, <1>4 DEF ActorInv, ActorTypeOK, channelVars, tableVars
  <1>6. Channel' /\ FenceOwes' /\ BlockedHolds' /\ PollsAFence'
    BY <1>2 DEF ActorInv, Channel, QueueOwes, QueueOnce, AnswerOwes, Owed, FenceOwes,
                BlockedHolds, PollsAFence, channelVars
  <1>7. FencesInOrder'
    BY <1>2, <1>4 DEF ActorInv, FencesInOrder
  <1>8. WaitIsTrue'
    BY <1>2 DEF ActorInv, WaitIsTrue, channelVars
  <1> QED
    BY <1>5, <1>6, <1>7, <1>8 DEF ActorInv

\* The fence's time is up; its client is answered by the poll that sees it.
LEMMA DeadlineStep == ActorInv /\ Deadline => ActorInv'
  <1> SUFFICES ASSUME ActorInv, Deadline PROVE ActorInv'
    OBVIOUS
  <1>1. /\ inflight # NoFence /\ inflight' = [inflight EXCEPT !.late = TRUE]
        /\ UNCHANGED <<actor, active, channelVars, tableVars, fenceVars>>
    BY DEF Deadline
  <1>2. inflight \in [client : Clients, ctx : Contexts, ring : Rings, id : Nat,
                      late : BOOLEAN]
    BY <1>1 DEF ActorInv, ActorTypeOK
  <1>3. /\ inflight' \in [client : Clients, ctx : Contexts, ring : Rings, id : Nat,
                          late : BOOLEAN]
        /\ inflight'.client = inflight.client /\ inflight'.id = inflight.id
        /\ inflight'.ctx = inflight.ctx /\ inflight'.ring = inflight.ring
    BY <1>1, <1>2
  <1>4. inflight' # NoFence
    BY <1>3, EngineAssumption DEF NoFence
  <1>5. ActorTypeOK'
    BY <1>1, <1>3 DEF ActorInv, ActorTypeOK, channelVars, tableVars, fenceVars
  <1>6. Channel'
    BY <1>1, <1>3 DEF ActorInv, Channel, QueueOwes, QueueOnce, AnswerOwes, Owed,
                      channelVars
  <1>7. FenceOwes' /\ BlockedHolds' /\ PollsAFence' /\ FencesInOrder'
    BY <1>1, <1>3, <1>4 DEF ActorInv, FenceOwes, BlockedHolds, PollsAFence,
                            FencesInOrder, channelVars, fenceVars
  <1>8. WaitIsTrue'
    BY <1>1 DEF ActorInv, WaitIsTrue, channelVars, fenceVars
  <1> QED
    BY <1>5, <1>6, <1>7, <1>8 DEF ActorInv

\* PollFence answers the caller of the fence in flight, or does nothing.
LEMMA PollStep == ActorInv /\ PollFence => ActorInv'
  <1> SUFFICES ASSUME ActorInv, PollFence PROVE ActorInv'
    OBVIOUS
  <1> DEFINE c == inflight.client
  <1> DEFINE q == <<inflight.ctx, inflight.ring>>
  <1>1. /\ actor = "poll" /\ actor' = "drain" /\ inflight # NoFence
        /\ UNCHANGED <<active, held, commands, calls, tableVars, fenceVars>>
    BY DEF PollFence, ActorInv, PollsAFence
  <1>2. /\ inflight \in [client : Clients, ctx : Contexts, ring : Rings, id : Nat,
                         late : BOOLEAN]
        /\ answers \in [Clients -> Seq(Answer)]
    BY <1>1 DEF ActorInv, ActorTypeOK
  <1>3. active' \in BOOLEAN /\ (active' <=> actor' \in {"drain", "poll"})
    BY <1>1 DEF ActorInv, ActorTypeOK
  <1>4. BlockedHolds' /\ PollsAFence' /\ FencesInOrder'
    BY <1>1 DEF ActorInv, BlockedHolds, PollsAFence, FencesInOrder, fenceVars
  <1>5. CASE UNCHANGED <<inflight, answers>>
    <2>1. ActorTypeOK'
      BY <1>1, <1>3, <1>5 DEF ActorInv, ActorTypeOK, tableVars, fenceVars
    <2> QED
      BY <1>1, <1>4, <1>5, <2>1, Undisturbed DEF ActorInv
  <1>6. ASSUME NEW a \in Answer, Send(c, a), inflight' = NoFence,
               a.ok => a.fence \in 1 .. nextFence - 1 /\ a.fence \notin unsignalled[q]
        PROVE  ActorInv'
    <2>1. /\ c \in Clients /\ answers[c] = << >>
          /\ calls[c] = [op |-> "wait", ctx |-> inflight.ctx, ring |-> inflight.ring]
          /\ calls[c] # NoCall
      BY <1>1, <1>2 DEF ActorInv, FenceOwes, NoCall
    <2>2. /\ answers' \in [Clients -> Seq(Answer)] /\ answers'[c] = <<a>>
          /\ \A d \in Clients \ {c} : answers'[d] = answers[d]
      BY <1>2, <1>6, <2>1 DEF Send
    <2>3. ActorTypeOK'
      BY <1>1, <1>3, <1>6, <2>2 DEF ActorInv, ActorTypeOK, tableVars, fenceVars
    <2>4. \A i \in 1 .. Len(commands) : commands[i].client \in Clients \ {c}
      <3> SUFFICES ASSUME NEW i \in 1 .. Len(commands)
                   PROVE  commands[i].client \in Clients \ {c}
        OBVIOUS
      <3>1. commands[i] \in Command
        BY DEF ActorInv, ActorTypeOK
      <3> QED
        BY <3>1 DEF Command, ActorInv, Channel, QueueOwes
    <2>5. inflight'.client \notin Clients
      BY <1>6, EngineAssumption DEF NoFence
    <2>6. QueueOwes' /\ QueueOnce'
      BY <1>1, <2>2, <2>4, <2>5 DEF ActorInv, Channel, QueueOwes, QueueOnce
    <2>7. AnswerOwes' /\ Owed'
      <3>1. Len(answers'[c]) = 1 /\ answers'[c] # << >>
        BY <2>2
      <3> QED
        BY <1>1, <2>1, <2>2, <3>1 DEF ActorInv, Channel, AnswerOwes, Owed
    <2>8. FenceOwes'
      BY <1>6 DEF FenceOwes
    <2>9. WaitIsTrue'
      <3> SUFFICES ASSUME NEW d \in Clients, calls[d] # NoCall,
                          calls[d].op = "wait", answers'[d] # << >>,
                          NEW i \in DOMAIN answers'[d], answers'[d][i].ok
                   PROVE  /\ answers'[d][i].fence \in 1 .. nextFence - 1
                          /\ answers'[d][i].fence \notin
                                 unsignalled[<<calls[d].ctx, calls[d].ring>>]
        BY <1>1 DEF WaitIsTrue, fenceVars
      <3>1. CASE d = c
        <4>1. answers'[d][i] = a
          BY <2>2, <3>1
        <4>2. <<calls[d].ctx, calls[d].ring>> = q
          BY <2>1, <3>1
        <4> QED
          BY <1>6, <4>1, <4>2
      <3>2. CASE d # c
        BY <2>2, <3>2 DEF ActorInv, WaitIsTrue
      <3> QED
        BY <3>1, <3>2
    <2> QED
      BY <1>4, <2>3, <2>6, <2>7, <2>8, <2>9 DEF ActorInv, Channel
  <1>7. ASSUME IsRetired(inflight.ctx, inflight.ring, inflight.id),
               Send(c, [Done EXCEPT !.fence = inflight.id]), inflight' = NoFence
        PROVE  ActorInv'
    <2>1. /\ q \in Queue /\ highest[q] >= inflight.id
          /\ inflight.id \in unsignalled[q] \cup signalled[q]
      BY <1>1, <1>2, <1>7 DEF ActorInv, FenceOwes, IsRetired, Queue
    <2>2. /\ unsignalled[q] \subseteq 1 .. nextFence - 1
          /\ signalled[q] \subseteq 1 .. nextFence - 1
          /\ nextFence \in Nat \ {0} /\ highest[q] \in Nat
      BY <2>1 DEF ActorInv, ActorTypeOK
    <2>3. inflight.id \in 1 .. nextFence - 1 /\ highest[q] \in signalled[q]
      BY <2>1, <2>2 DEF ActorInv, FencesInOrder
    <2>4. inflight.id \notin unsignalled[q]
      BY <2>1, <2>2, <2>3 DEF ActorInv, FencesInOrder
    <2>5. /\ [Done EXCEPT !.fence = inflight.id] \in Answer
          /\ [Done EXCEPT !.fence = inflight.id].fence = inflight.id
      BY <1>2 DEF Done, Answer
    <2> QED
      BY <1>6, <1>7, <2>3, <2>4, <2>5
  <1>8. ASSUME Send(c, Refused), inflight' = NoFence
        PROVE  ActorInv'
    BY <1>6, <1>8, Answers
  <1> QED
    BY <1>5, <1>7, <1>8 DEF PollFence

-----------------------------------------------------------------------------
\* Every step of the actor, of its clients and of the library keeps the
\* invariant.
LEMMA ActorInvInductive == ActorInv /\ [ActorNext]_actorVars => ActorInv'
  <1> SUFFICES ASSUME ActorInv, [ActorNext]_actorVars PROVE ActorInv'
    OBVIOUS
  <1>1. CASE HandleCommand
    BY <1>1, ContextStep, PlainStep, CreateBlobStep, UnrefStep, WaitStep
       DEF HandleCommand
  <1>2. CASE Construct \/ Drained \/ PollFence \/ Teardown
    BY <1>2, ConstructStep, DrainedStep, PollStep, TeardownStep
  <1>3. CASE Library
    BY <1>3, SignalStep, WriteStep, DeadlineStep DEF Library
  <1>4. CASE \E c \in Clients : (\E call \in Call : Request(c, call))
                               \/ Collect(c) \/ Leave(c)
    BY <1>4, RequestStep, CollectStep, LeaveStep
  <1>5. CASE UNCHANGED actorVars
    <2>1. UNCHANGED <<actor, active, channelVars, inflight, tableVars, fenceVars>>
      BY <1>5 DEF actorVars
    <2>2. ActorTypeOK'
      BY <2>1 DEF ActorInv, ActorTypeOK, channelVars, tableVars, fenceVars
    <2>3. BlockedHolds' /\ PollsAFence'
      BY <2>1 DEF ActorInv, BlockedHolds, PollsAFence, channelVars
    <2> QED
      BY <2>1, <2>2, <2>3, Undisturbed DEF ActorInv, channelVars
  <1> QED
    BY <1>1, <1>2, <1>3, <1>4, <1>5 DEF ActorNext, RunActor

\* The three places an answer can be in are exclusive, and one is always used.
LEMMA InvAnswersOnce == ActorInv => AnsweredOnce
  <1> SUFFICES ASSUME ActorInv, NEW c \in Clients
               PROVE  /\ calls[c] = NoCall => /\ Queued(c) = {}
                                              /\ inflight.client # c
                                              /\ answers[c] = << >>
                      /\ calls[c] # NoCall =>
                           \/ /\ \E i \in DOMAIN commands : Queued(c) = {i}
                              /\ inflight.client # c /\ answers[c] = << >>
                           \/ Queued(c) = {} /\ inflight.client = c
                              /\ answers[c] = << >>
                           \/ Queued(c) = {} /\ inflight.client # c
                              /\ Len(answers[c]) = 1
    BY DEF AnsweredOnce
  <1>1. DOMAIN commands = 1 .. Len(commands) /\ commands \in Seq(Command)
    BY DEF ActorInv, ActorTypeOK
  <1>2. ASSUME NEW i \in Queued(c)
        PROVE  /\ Queued(c) = {i} /\ i \in DOMAIN commands /\ calls[c] # NoCall
               /\ answers[c] = << >> /\ inflight.client # c
    <2>1. i \in 1 .. Len(commands) /\ commands[i].client = c
      BY <1>1, <1>2 DEF Queued
    <2>2. commands[i] \in Command
      BY <1>1, <2>1
    <2>3. commands[i].call # NoCall
      BY <2>2, SomeCall DEF Command
    <2>4. /\ calls[c] = commands[i].call /\ answers[c] = << >>
          /\ inflight.client # c
      BY <2>1 DEF ActorInv, Channel, QueueOwes
    <2>5. \A j \in Queued(c) : j = i
      BY <1>1, <2>1 DEF ActorInv, Channel, QueueOnce, Queued
    <2> QED
      BY <1>1, <1>2, <2>1, <2>3, <2>4, <2>5
  <1>3. ASSUME inflight.client = c
        PROVE  calls[c] # NoCall /\ answers[c] = << >>
    <2>1. inflight # NoFence
      BY <1>3, EngineAssumption DEF NoFence
    <2> QED
      BY <1>3, <2>1 DEF ActorInv, FenceOwes, NoCall
  <1>4. answers[c] # << >> => calls[c] # NoCall /\ Len(answers[c]) = 1
    BY DEF ActorInv, Channel, AnswerOwes
  <1>5. calls[c] # NoCall => \/ Queued(c) # {}
                            \/ inflight.client = c
                            \/ answers[c] # << >>
    BY <1>1 DEF ActorInv, Channel, Owed, Queued
  <1> QED
    BY <1>2, <1>3, <1>4, <1>5

\* Every variable keeps its type, the flag is up exactly while an engine lives,
\* and the engine and the library agree on the resources there are.
THEOREM ActorTypes == ActorSpec => []ActorTypeOK
  <1>1. ActorInv => ActorTypeOK
    BY DEF ActorInv
  <1> QED
    BY InitInv, ActorInvInductive, <1>1, PTL DEF ActorSpec

\* Any number of threads may call the engine at once: each blocked caller is
\* owed exactly one answer, whatever is in flight and whatever timed out.
THEOREM CallersAreAnswered == ActorSpec => []AnsweredOnce
  BY InitInv, ActorInvInductive, InvAnswersOnce, PTL DEF ActorSpec

\* A wait that was answered Ok is one whose fence its own ring has reached.
THEOREM WaitsAreTrue == ActorSpec => []WaitIsTrue
  <1>1. ActorInv => WaitIsTrue
    BY DEF ActorInv
  <1> QED
    BY InitInv, ActorInvInductive, <1>1, PTL DEF ActorSpec

-----------------------------------------------------------------------------
(* The session.  Types first: of commands, replies and messages, and of the *)
(* queues they are in.                                                      *)

Greetings ==
    {"CreateRenderer", "PingProtocolVersion", "ResourceBusyWait",
     "ProtocolVersion", "GetParam", "GetCapset", "ContextInit"}

Kinds ==
    Greetings \cup
        {"ResourceCreateBlob", "ResourceUnref", "SubmitCmd2", "SyncCreate",
         "SyncRead", "SyncUnref", "SyncWrite", "SyncWait", "half", "none"}

Shapes == {"none", "ring", "internal", "application"}

VtestCommands ==
    [kind : Kinds, number : Nat, res : Nat, shape : Shapes, batches : Nat,
     signals : SUBSET Nat, sync : Nat, value : Nat]

VtestReplies == [number : Nat, kind : Kinds, ok : BOOLEAN, value : Nat]

\* Nothing of an interrupted command is served; every other has been counted.
Counted(cmd) == cmd.kind = "half" \/ cmd.number \in 1 .. issued

VtestTypes ==
    /\ VtestTypeOK
    /\ limit \in Nat /\ gone \in BOOLEAN /\ mapped \subseteq Nat
    /\ inbox \in Seq(VtestCommands) /\ outbox \in Seq(VtestReplies)
    /\ serving \in VtestCommands
    /\ \A i \in 1 .. Len(inbox) : Counted(inbox[i])
    /\ serving # Nothing => serving.number \in 1 .. issued /\ serving.kind \in Calling
    /\ DOMAIN syncs \subseteq Nat /\ nextSync \in Nat
    /\ \A sync \in DOMAIN syncs : syncs[sync] \in Nat
    /\ outcome \in [context : BOOLEAN, batches : Nat,
                    ended : {"no", "clean", "error"}]

Types ==
    {"none", "Hello", "CreateContext", "GetCapset", "CreateBlob", "SubmitCmd",
     "UnrefResource", "BlobData", "Capset", "BlobCreated", "Error"}

Messages ==
    [type : Types, number : Nat, res : Nat, shape : Shapes, solicited : BOOLEAN]

\* What is answered by S; what its engine is called for.
IsRequest(m) == m.type \in {"GetCapset", "CreateBlob"}

ForEngine(m) ==
    IsRequest(m) \/ m.type \in {"CreateContext", "SubmitCmd", "UnrefResource"}

C2S == {m \in Messages : ForEngine(m) \/ m.type \in {"Hello", "BlobData"}}

S2C == {m \in Messages : m.type \in {"Capset", "BlobCreated", "Error"}}

LinkTypes ==
    /\ c2s \in Seq(C2S) /\ s2c \in Seq(S2C) /\ replies \in Seq(S2C)
    /\ asked \in C2S \cup {None} /\ smsg \in C2S \cup {None}
    /\ sout \in S2C \cup {None}
    /\ pending \in 0 .. issued /\ ringSlot \in Nat /\ batch \in Nat
    /\ DOMAIN cblobs \subseteq Nat
    /\ reader \in {"up", "gone"} /\ link \in {"up", "down"}
    /\ spc \in {"recv", "engine", "undo", "undoing", "send", "over"}

(* Mesa's socket: the replies written, the reply being made and those to the *)
(* commands not yet read are, in order, those that Mesa awaits.             *)

\* `at[i]`: how many of the replies awaited belong to the first i commands of
\* `cmds` and to what went before them.
Awaiting(cmds, from, numbers) ==
    \E at \in [0 .. Len(cmds) -> 0 .. Len(numbers)] :
        /\ at[0] = from /\ at[Len(cmds)] = Len(numbers)
        /\ \A i, j \in 0 .. Len(cmds) : i <= j => at[i] <= at[j]
        /\ \A i \in 1 .. Len(cmds) :
              IF cmds[i].kind \in Replying
              THEN at[i] = at[i - 1] + 1 /\ numbers[at[i]] = cmds[i].number
              ELSE at[i] = at[i - 1]

Written ==
    /\ Len(outbox) <= Len(awaited)
    /\ \A i \in 1 .. Len(outbox) : outbox[i].number = awaited[i]

\* What is still to be written follows what has been.
Following ==
    IF serving.kind \in Replying
    THEN /\ Len(outbox) < Len(awaited)
         /\ awaited[Len(outbox) + 1] = serving.number
         /\ Awaiting(inbox, Len(outbox) + 1, awaited)
    ELSE Awaiting(inbox, Len(outbox), awaited)

InOrder == Written /\ (vpc # "over" => Following)

(* One request at a time: it is on its way to S, or S has it in hand, or its *)
(* answer is on its way back, or in the channel to RelayEngine.             *)

OnItsWay == \E i \in 1 .. Len(c2s) : IsRequest(c2s[i])
InHand == IsRequest(smsg)
OnItsWayBack == \E i \in 1 .. Len(s2c) : IsAnswer(s2c[i])

OneInFlight ==
    /\ \A i, j \in 1 .. Len(c2s) : IsRequest(c2s[i]) /\ IsRequest(c2s[j]) => i = j
    /\ \A i, j \in 1 .. Len(s2c) : IsAnswer(s2c[i]) /\ IsAnswer(s2c[j]) => i = j
    /\ Len(replies) <= 1
    /\ OnItsWay => ~ InHand /\ ~ OnItsWayBack /\ replies = << >>
    /\ InHand => ~ OnItsWayBack /\ replies = << >>
    /\ OnItsWayBack => replies = << >>

\* `m` answers the request `a`.
IsAnswerTo(m, a) ==
    /\ IsAnswer(m) /\ IsRequest(a)
    /\ m.number = a.number
    /\ m.type = "BlobCreated" => a.type = "CreateBlob"

\* What C waits for is what the command it serves calls for; what is in flight
\* is that request, or the answer to it.
Matching ==
    /\ asked # None =>
         /\ IsRequest(asked) /\ vpc = "call" /\ serving.number = asked.number
         /\ serving.kind = IF asked.type = "GetCapset" THEN "GetCapset"
                           ELSE "ResourceCreateBlob"
    /\ link = "up" =>
         /\ \A i \in 1 .. Len(c2s) : IsRequest(c2s[i]) => c2s[i] = asked
         /\ InHand => asked.type = smsg.type /\ asked.number = smsg.number
    /\ \A i \in 1 .. Len(s2c) : IsAnswer(s2c[i]) => IsAnswerTo(s2c[i], asked)
    /\ \A i \in 1 .. Len(replies) : IsAnswerTo(replies[i], asked)

\* The slot holds the blob of the request, until its answer is here.
SlotIsForIt ==
    asked.type = "CreateBlob" /\ replies = << >> => pending = asked.number

\* The reader goes when nothing can come any more.
ReaderGone == reader = "gone" => link = "down" /\ s2c = << >>

(* S's message thread and its engine.                                       *)

InPhase ==
    /\ spc \in {"recv", "over"} => smsg = None
    /\ spc # "send" => sout = None
    /\ spc = "engine" => ForEngine(smsg) /\ calls[Serve] = EngineCall(smsg)
    /\ spc \in {"undo", "undoing"} => smsg.type = "CreateBlob"
    /\ spc = "undoing" => calls[Serve] = [op |-> "unref", res |-> smsg.res]
    /\ spc \notin {"engine", "undoing"} => calls[Serve] = NoCall
    /\ sout # None =>
         /\ sout.number = smsg.number
         /\ IsAnswer(sout) => IsRequest(smsg)
         /\ sout.type = "BlobCreated" => smsg.type = "CreateBlob"

\* Other clients only wait.
OthersWait ==
    \A c \in Clients \ {Serve} : calls[c] = NoCall \/ calls[c].op = "wait"

Engaged == Serve \in held \/ actor = "starting"

Answered == spc \in {"engine", "undoing"} /\ answers[Serve] # << >>

\* The engine has made a blob that Applier does not know of yet.
Orphaned ==
    spc = "engine" /\ Answered /\ smsg.type = "CreateBlob" /\ answers[Serve][1].ok

Orphan == answers[Serve][1].res

\* The engine has dropped a resource that Applier still lists.
Dropped == spc = "engine" /\ Answered /\ smsg.type = "UnrefResource"

\* The resource being taken back.
TakingBack == spc = "undo" \/ (spc = "undoing" /\ ~ Answered)

\* The engine's table, phase by phase.
EngineHolds ==
    /\ actor = "starting" => held = {}
    /\ Dropped => answers[Serve][1].ok
    /\ Orphaned => Orphan \notin exported
    /\ TakingBack => smsg.res \notin exported
    /\ Engaged => DOMAIN resources =
         IF Orphaned THEN exported \cup {Orphan}
         ELSE IF Dropped THEN exported \ {smsg.res}
         ELSE IF TakingBack THEN exported \cup {smsg.res}
         ELSE exported

(* The tables.                                                              *)

Elements(queue) == {queue[i] : i \in 1 .. Len(queue)}

\* Mesa's: mapped, or in a reply that it will read.
MesaOwns ==
    mapped \cup {x.value : x \in {y \in Elements(outbox) : y.kind = "ResourceCreateBlob"}}

\* Given back by Mesa, and not yet forgotten by C; and by S.
BackAtC ==
    {x.res : x \in {y \in Elements(inbox) \cup {serving} : y.kind = "ResourceUnref"}}

BackAtS ==
    {x.res : x \in {y \in Elements(c2s) \cup {smsg} : y.type = "UnrefResource"}}

Back == BackAtC \cup BackAtS

\* Messages that tell Mesa of a resource, and the resources that are so coming.
TellingAtC == {m \in Elements(replies) : m.type = "BlobCreated"}

TellingFromS == {m \in Elements(s2c) \cup {sout} : m.type = "BlobCreated"}

ComingAtC == {m.res : m \in TellingAtC}

Coming == {m.res : m \in TellingAtC \cup TellingFromS}

\* The tables know of what Mesa has, and of what it will be told.
Tables ==
    /\ DOMAIN sblobs = exported /\ internal \subseteq exported /\ rings \subseteq internal
    /\ exported \subseteq 1 .. nextResource - 1
    /\ \A r \in MesaOwns : /\ r \in DOMAIN cblobs /\ r \in DOMAIN sblobs
                          /\ cblobs[r] = sblobs[r]
    /\ \A m \in TellingAtC \cup TellingFromS :
          m.res \in DOMAIN sblobs /\ sblobs[m.res] = m.number
    /\ \A m \in TellingAtC : m.res \in DOMAIN cblobs /\ cblobs[m.res] = m.number
    /\ spc = "send" /\ smsg.type = "UnrefResource" => smsg.res \notin exported

\* A resource is Mesa's, or coming, or given back.
Apart ==
    /\ Back \subseteq 1 .. nextResource - 1
    /\ \A r \in Back : r \notin MesaOwns /\ r \notin Coming
    /\ \A r \in Coming : r \notin MesaOwns
    /\ Orphaned => Orphan \in 1 .. nextResource - 1 /\ Orphan \notin Back

\* Nothing else is in the tables, while the session lives.
NoneForgotten ==
    link = "up" /\ vpc # "over" =>
        /\ DOMAIN cblobs \subseteq MesaOwns \cup BackAtC \cup ComingAtC
        /\ DOMAIN sblobs \subseteq MesaOwns \cup Back \cup Coming

Accounts == Tables /\ Apart /\ NoneForgotten

SessionInv ==
    /\ ActorInv /\ VtestTypes /\ LinkTypes
    /\ InOrder
    /\ OneInFlight /\ Matching /\ SlotIsForIt /\ ReaderGone
    /\ InPhase /\ OthersWait /\ EngineHolds
    /\ Accounts

-----------------------------------------------------------------------------
(* Mesa's socket.                                                           *)

LEMMA NewCommand ==
    ASSUME issued \in Nat, NEW kind \in Kinds
    PROVE  /\ VtestCommand(kind) \in VtestCommands
           /\ VtestCommand(kind).kind = kind
           /\ VtestCommand(kind).number = issued + 1
  <1>1. Nothing \in VtestCommands
    BY DEF Nothing, VtestCommands, Kinds, Shapes
  <1>2. issued + 1 \in Nat
    OBVIOUS
  <1> QED
    BY <1>1, <1>2 DEF VtestCommand, VtestCommands

\* Mesa says one more thing.
LEMMA AwaitingMore ==
    ASSUME NEW cmds \in Seq(VtestCommands), NEW cmd \in VtestCommands,
           NEW numbers \in Seq(Nat), NEW from \in Nat,
           NEW more \in Seq(Nat), Awaiting(cmds, from, numbers),
           more = IF cmd.kind \in Replying THEN Append(numbers, cmd.number)
                  ELSE numbers
    PROVE  Awaiting(Append(cmds, cmd), from, more)
  <1> DEFINE n == Len(cmds)
  <1>1. PICK at \in [0 .. n -> 0 .. Len(numbers)] :
            /\ at[0] = from /\ at[n] = Len(numbers)
            /\ \A i, j \in 0 .. n : i <= j => at[i] <= at[j]
            /\ \A i \in 1 .. n :
                  IF cmds[i].kind \in Replying
                  THEN at[i] = at[i - 1] + 1 /\ numbers[at[i]] = cmds[i].number
                  ELSE at[i] = at[i - 1]
    BY DEF Awaiting
  <1> DEFINE new == [i \in 0 .. n + 1 |-> IF i = n + 1 THEN Len(more) ELSE at[i]]
  <1>2. /\ n \in Nat /\ Len(Append(cmds, cmd)) = n + 1
        /\ \A i \in 1 .. n : Append(cmds, cmd)[i] = cmds[i]
        /\ Append(cmds, cmd)[n + 1] = cmd
    OBVIOUS
  <1>3. /\ cmd.kind \in Replying =>
              /\ Len(more) = Len(numbers) + 1 /\ more[Len(more)] = cmd.number
              /\ \A i \in 1 .. Len(numbers) : more[i] = numbers[i]
        /\ cmd.kind \notin Replying => more = numbers
    <2>1. cmd.number \in Nat
      BY DEF VtestCommands
    <2> QED
      BY <2>1
  <1>4. Len(numbers) \in Nat /\ Len(numbers) <= Len(more) /\ Len(more) \in Nat
    BY <1>3
  <1>5. new \in [0 .. n + 1 -> 0 .. Len(more)]
    BY <1>2, <1>4
  <1>6. new[0] = from /\ new[n + 1] = Len(more)
    BY <1>1, <1>2
  <1>7. \A i, j \in 0 .. n + 1 : i <= j => new[i] <= new[j]
    <2> SUFFICES ASSUME NEW i \in 0 .. n + 1, NEW j \in 0 .. n + 1, i <= j
                 PROVE  new[i] <= new[j]
      OBVIOUS
    <2>1. CASE j = n + 1
      BY <1>4, <1>5, <1>6, <2>1
    <2>2. CASE j # n + 1
      <3>1. i \in 0 .. n /\ j \in 0 .. n
        BY <1>2, <2>2
      <3> QED
        BY <1>1, <1>2, <3>1
    <2> QED
      BY <2>1, <2>2
  <1>8. \A i \in 1 .. n + 1 :
           IF Append(cmds, cmd)[i].kind \in Replying
           THEN new[i] = new[i - 1] + 1
                /\ more[new[i]] = Append(cmds, cmd)[i].number
           ELSE new[i] = new[i - 1]
    <2> SUFFICES ASSUME NEW i \in 1 .. n + 1
                 PROVE  IF Append(cmds, cmd)[i].kind \in Replying
                        THEN new[i] = new[i - 1] + 1
                             /\ more[new[i]] = Append(cmds, cmd)[i].number
                        ELSE new[i] = new[i - 1]
      OBVIOUS
    <2>1. CASE i = n + 1
      <3>1. new[i] = Len(more) /\ new[i - 1] = Len(numbers)
        BY <1>1, <1>2, <2>1
      <3> QED
        BY <1>2, <1>3, <2>1, <3>1
    <2>2. CASE i # n + 1
      <3>1. i \in 1 .. n /\ i \in 0 .. n /\ i - 1 \in 0 .. n
        BY <1>2, <2>2
      <3>2. new[i] = at[i] /\ new[i - 1] = at[i - 1] /\ at[i - 1] \in 0 .. Len(numbers)
        <4>1. i \in 0 .. n + 1 /\ i - 1 \in 0 .. n + 1 /\ i # n + 1 /\ i - 1 # n + 1
          BY <1>2, <3>1
        <4>2. new[i] = at[i] /\ new[i - 1] = at[i - 1]
          BY <4>1
        <4> QED
          BY <1>1, <3>1, <4>2
      <3>3. cmds[i].kind \in Replying => at[i] \in 1 .. Len(numbers)
        BY <1>1, <1>4, <3>1, <3>2
      <3>4. cmds[i].kind \in Replying => more[at[i]] = numbers[at[i]]
        BY <1>3, <3>3
      <3> HIDE DEF new
      <3> QED
        BY <1>1, <1>2, <3>1, <3>2, <3>4
    <2> QED
      BY <2>1, <2>2
  <1> DEFINE longer == Append(cmds, cmd)
  <1>9. /\ Len(longer) = n + 1 /\ new \in [0 .. Len(longer) -> 0 .. Len(more)]
        /\ new[Len(longer)] = Len(more)
        /\ \A i, j \in 0 .. Len(longer) : i <= j => new[i] <= new[j]
    BY <1>2, <1>5, <1>6, <1>7
  <1>10. \A i \in 1 .. Len(longer) :
           IF longer[i].kind \in Replying
           THEN new[i] = new[i - 1] + 1 /\ more[new[i]] = longer[i].number
           ELSE new[i] = new[i - 1]
    BY <1>2, <1>8
  <1> HIDE DEF new, longer
  <1>11. Awaiting(longer, from, more)
    BY <1>6, <1>9, <1>10 DEF Awaiting
  <1> QED
    BY <1>11 DEF longer

\* The server reads a command.
LEMMA AwaitingRest ==
    ASSUME NEW cmds \in Seq(VtestCommands), cmds # << >>,
           NEW numbers \in Seq(Nat), NEW from \in Nat,
           Awaiting(cmds, from, numbers)
    PROVE  IF Head(cmds).kind \in Replying
           THEN /\ from < Len(numbers) /\ numbers[from + 1] = Head(cmds).number
                /\ Awaiting(Tail(cmds), from + 1, numbers)
           ELSE Awaiting(Tail(cmds), from, numbers)
  <1> DEFINE n == Len(cmds)
  <1>1. PICK at \in [0 .. n -> 0 .. Len(numbers)] :
            /\ at[0] = from /\ at[n] = Len(numbers)
            /\ \A i, j \in 0 .. n : i <= j => at[i] <= at[j]
            /\ \A i \in 1 .. n :
                  IF cmds[i].kind \in Replying
                  THEN at[i] = at[i - 1] + 1 /\ numbers[at[i]] = cmds[i].number
                  ELSE at[i] = at[i - 1]
    BY DEF Awaiting
  <1>2. /\ n \in Nat /\ n >= 1 /\ Len(Tail(cmds)) = n - 1 /\ Head(cmds) = cmds[1]
        /\ \A i \in 1 .. n - 1 : Tail(cmds)[i] = cmds[i + 1]
    OBVIOUS
  <1> DEFINE new == [i \in 0 .. n - 1 |-> at[i + 1]]
  <1>3. new \in [0 .. n - 1 -> 0 .. Len(numbers)]
    BY <1>2
  <1>4. new[0] = at[1] /\ new[n - 1] = Len(numbers)
    BY <1>1, <1>2
  <1>5. \A i, j \in 0 .. n - 1 : i <= j => new[i] <= new[j]
    BY <1>1, <1>2
  <1>6. \A i \in 1 .. n - 1 :
           IF Tail(cmds)[i].kind \in Replying
           THEN new[i] = new[i - 1] + 1 /\ numbers[new[i]] = Tail(cmds)[i].number
           ELSE new[i] = new[i - 1]
    <2> SUFFICES ASSUME NEW i \in 1 .. n - 1
                 PROVE  IF Tail(cmds)[i].kind \in Replying
                        THEN new[i] = new[i - 1] + 1
                             /\ numbers[new[i]] = Tail(cmds)[i].number
                        ELSE new[i] = new[i - 1]
      OBVIOUS
    <2>1. i + 1 \in 1 .. n /\ (i + 1) - 1 = i
      BY <1>2
    <2>2. new[i] = at[i + 1] /\ new[i - 1] = at[i] /\ Tail(cmds)[i] = cmds[i + 1]
      BY <1>2
    <2> HIDE DEF new
    <2>3. IF cmds[i + 1].kind \in Replying
          THEN at[i + 1] = at[(i + 1) - 1] + 1
               /\ numbers[at[i + 1]] = cmds[i + 1].number
          ELSE at[i + 1] = at[(i + 1) - 1]
      BY <1>1, <2>1
    <2> QED
      BY <2>1, <2>2, <2>3
  <1>7. Awaiting(Tail(cmds), at[1], numbers)
    <2> HIDE DEF new
    <2> QED
      BY <1>2, <1>3, <1>4, <1>5, <1>6 DEF Awaiting
  <1>8. IF cmds[1].kind \in Replying
        THEN at[1] = from + 1 /\ numbers[at[1]] = cmds[1].number
        ELSE at[1] = from
    <2>1. 1 \in 1 .. n /\ 1 - 1 = 0
      BY <1>2
    <2> QED
      BY <1>1, <2>1
  <1>9. at[1] \in 0 .. Len(numbers)
    BY <1>1, <1>2
  <1> QED
    BY <1>2, <1>7, <1>8, <1>9

\* Mesa reads a reply.
LEMMA AwaitingRead ==
    ASSUME NEW cmds \in Seq(VtestCommands), NEW numbers \in Seq(Nat),
           NEW from \in Nat \ {0}, numbers # << >>,
           Awaiting(cmds, from, numbers)
    PROVE  Awaiting(cmds, from - 1, Tail(numbers))
  <1> DEFINE n == Len(cmds)
  <1>1. PICK at \in [0 .. n -> 0 .. Len(numbers)] :
            /\ at[0] = from /\ at[n] = Len(numbers)
            /\ \A i, j \in 0 .. n : i <= j => at[i] <= at[j]
            /\ \A i \in 1 .. n :
                  IF cmds[i].kind \in Replying
                  THEN at[i] = at[i - 1] + 1 /\ numbers[at[i]] = cmds[i].number
                  ELSE at[i] = at[i - 1]
    BY DEF Awaiting
  <1>2. /\ n \in Nat /\ Len(numbers) \in Nat \ {0}
        /\ Len(Tail(numbers)) = Len(numbers) - 1
        /\ \A i \in 1 .. Len(numbers) - 1 : Tail(numbers)[i] = numbers[i + 1]
    OBVIOUS
  <1> DEFINE new == [i \in 0 .. n |-> at[i] - 1]
  <1>3. \A i \in 0 .. n : at[i] >= from /\ at[i] \in 1 .. Len(numbers)
    BY <1>1, <1>2
  <1>4. new \in [0 .. n -> 0 .. Len(Tail(numbers))]
    BY <1>2, <1>3
  <1>5. new[0] = from - 1 /\ new[n] = Len(Tail(numbers))
    BY <1>1, <1>2
  <1>6. \A i, j \in 0 .. n : i <= j => new[i] <= new[j]
    BY <1>1, <1>3
  <1>7. \A i \in 1 .. n :
           IF cmds[i].kind \in Replying
           THEN new[i] = new[i - 1] + 1 /\ Tail(numbers)[new[i]] = cmds[i].number
           ELSE new[i] = new[i - 1]
    <2> SUFFICES ASSUME NEW i \in 1 .. n
                 PROVE  IF cmds[i].kind \in Replying
                        THEN new[i] = new[i - 1] + 1
                             /\ Tail(numbers)[new[i]] = cmds[i].number
                        ELSE new[i] = new[i - 1]
      OBVIOUS
    <2>1. i \in 0 .. n /\ i - 1 \in 0 .. n
      BY <1>2
    <2>2. new[i] = at[i] - 1 /\ new[i - 1] = at[i - 1] - 1
      BY <2>1
    <2>3. /\ at[i] \in 1 .. Len(numbers) /\ at[i - 1] \in 1 .. Len(numbers)
          /\ IF cmds[i].kind \in Replying
             THEN at[i] = at[i - 1] + 1 /\ numbers[at[i]] = cmds[i].number
             ELSE at[i] = at[i - 1]
      BY <1>1, <1>3, <2>1
    <2> HIDE DEF new
    <2>4. CASE cmds[i].kind \in Replying
      <3>1. new[i] = new[i - 1] + 1 /\ new[i] \in 1 .. Len(numbers) - 1
            /\ new[i] + 1 = at[i]
        BY <1>2, <2>2, <2>3, <2>4
      <3>2. Tail(numbers)[new[i]] = numbers[new[i] + 1]
        BY <1>2, <3>1
      <3> QED
        BY <2>3, <2>4, <3>1, <3>2
    <2>5. CASE cmds[i].kind \notin Replying
      BY <2>2, <2>3, <2>5
    <2> QED
      BY <2>4, <2>5
  <1> HIDE DEF new
  <1> QED
    BY <1>2, <1>4, <1>5, <1>6, <1>7 DEF Awaiting

\* Mesa's handshake is seven commands.
LEMMA Greeting ==
    /\ Len(Handshake) = 7
    /\ \A i \in 1 .. 7 : Handshake[i] \in Greetings
  BY DEF Handshake, Greetings

\* A command that Mesa writes is one, and is counted.
LEMMA SayTypes ==
    ASSUME VtestTypes, NEW cmd \in VtestCommands, cmd.number = issued + 1,
           issued < Len(Handshake) + limit, Say(cmd), mapped' \subseteq Nat,
           UNCHANGED <<limit, gone, outbox, serverVars>>
    PROVE  VtestTypes'
  <1>1. /\ issued \in Nat /\ issued' = issued + 1 /\ limit \in Nat /\ limit' = limit
        /\ awaited \in Seq(1 .. issued) /\ inbox \in Seq(VtestCommands)
        /\ inbox' = Append(inbox, cmd)
        /\ UNCHANGED <<gone, outbox, vpc, serving, syncs, nextSync, outcome>>
        /\ gone \in BOOLEAN
    BY Greeting DEF VtestTypes, VtestTypeOK, Say, serverVars
  <1>2. awaited' \in Seq(1 .. issued')
    <2>1. awaited \in Seq(1 .. issued')
      <3>1. 1 .. issued \subseteq 1 .. issued'
        BY <1>1
      <3> QED
        BY <1>1, <3>1
    <2>2. cmd.number \in 1 .. issued'
      BY <1>1
    <2>3. Append(awaited, cmd.number) \in Seq(1 .. issued')
      BY <2>1, <2>2
    <2> QED
      BY <2>1, <2>3 DEF Say
  <1>3. issued' \in 0 .. Len(Handshake) + limit'
    BY <1>1, Greeting
  <1>4. inbox' \in Seq(VtestCommands)
    BY <1>1
  <1>5. \A i \in 1 .. Len(inbox') :
           inbox'[i].kind = "half" \/ inbox'[i].number \in 1 .. issued'
    <2> SUFFICES ASSUME NEW i \in 1 .. Len(inbox')
                 PROVE  inbox'[i].kind = "half" \/ inbox'[i].number \in 1 .. issued'
      OBVIOUS
    <2>1. CASE i = Len(inbox) + 1
      BY <1>1, <2>1
    <2>2. CASE i # Len(inbox) + 1
      <3>1. i \in 1 .. Len(inbox) /\ inbox'[i] = inbox[i]
        BY <1>1, <2>2
      <3> QED
        BY <1>1, <3>1 DEF VtestTypes, Counted
    <2> QED
      BY <2>1, <2>2
  <1>6. serving # Nothing => serving.number \in 1 .. issued'
    BY <1>1 DEF VtestTypes
  <1> QED
    BY <1>1, <1>2, <1>3, <1>4, <1>5, <1>6 DEF VtestTypes, VtestTypeOK, Counted

\* The reply to a new command comes after every other that is awaited.
LEMMA SayInOrder ==
    ASSUME VtestTypes, InOrder, NEW cmd \in VtestCommands,
           Say(cmd), UNCHANGED <<outbox, serverVars>>
    PROVE  InOrder'
  <1>1. /\ issued \in Nat /\ awaited \in Seq(1 .. issued)
        /\ inbox \in Seq(VtestCommands) /\ inbox' = Append(inbox, cmd)
        /\ outbox \in Seq(VtestReplies) /\ cmd.number \in Nat
        /\ UNCHANGED <<outbox, vpc, serving>>
    BY Greeting DEF VtestTypes, VtestTypeOK, Say, serverVars, VtestCommands
  <1>2. awaited' = IF cmd.kind \in Replying THEN Append(awaited, cmd.number)
                   ELSE awaited
    BY DEF Say
  <1>3. awaited \in Seq(Nat)
    <2>1. 1 .. issued \subseteq Nat
      BY <1>1
    <2> QED
      BY <1>1, <2>1
  <1>4. /\ awaited' \in Seq(Nat) /\ Len(awaited) <= Len(awaited')
        /\ \A i \in 1 .. Len(awaited) : awaited'[i] = awaited[i]
    BY <1>1, <1>2, <1>3
  <1>5. Len(outbox) \in Nat /\ Len(awaited) \in Nat /\ Len(awaited') \in Nat
    BY <1>1, <1>3, <1>4
  <1>6. Written'
    BY <1>1, <1>4, <1>5 DEF InOrder, Written
  <1>7. ASSUME vpc # "over" PROVE Following'
    <2>1. \A from \in Nat : Awaiting(inbox, from, awaited)
                            => Awaiting(inbox', from, awaited')
      BY <1>1, <1>2, <1>3, <1>4, AwaitingMore
    <2>2. Following
      BY <1>7 DEF InOrder
    <2>3. CASE serving.kind \in Replying
      BY <1>1, <1>4, <1>5, <2>1, <2>2, <2>3 DEF Following
    <2>4. CASE serving.kind \notin Replying
      BY <1>1, <1>5, <2>1, <2>2, <2>4 DEF Following
    <2> QED
      BY <2>3, <2>4
  <1> QED
    BY <1>1, <1>6, <1>7 DEF InOrder

\* Mesa's writes keep the order of replies.
LEMMA AskStep ==
    ASSUME VtestTypes, InOrder,
           Greet \/ AskBlob \/ AskUnref \/ AskSubmit \/ AskSync
    PROVE  VtestTypes' /\ InOrder'
  <1>1. /\ issued \in Nat /\ limit \in Nat /\ mapped \subseteq Nat
        /\ DOMAIN syncs \subseteq Nat
    BY Greeting DEF VtestTypes, VtestTypeOK
  <1>2. ASSUME NEW cmd \in VtestCommands, cmd.number = issued + 1,
               issued < Len(Handshake) + limit, Say(cmd), mapped' \subseteq mapped,
               UNCHANGED <<limit, gone, outbox, serverVars>>
        PROVE  VtestTypes' /\ InOrder'
    BY <1>1, <1>2, SayTypes, SayInOrder
  <1>3. CASE Greet
    <2>1. issued + 1 \in 1 .. 7 /\ issued < Len(Handshake) + limit
      BY <1>1, <1>3, Greeting DEF Greet
    <2>2. Handshake[issued + 1] \in Kinds
      BY <2>1, Greeting DEF Kinds
    <2> QED
      BY <1>1, <1>2, <1>3, <2>1, <2>2, NewCommand DEF Greet
  <1>4. CASE AskBlob
    <2>1. PICK shape \in {"ring", "internal", "application"} :
             Say([VtestCommand("ResourceCreateBlob") EXCEPT !.shape = shape])
      BY <1>4 DEF AskBlob
    <2>2. "ResourceCreateBlob" \in Kinds /\ shape \in Shapes
      BY DEF Kinds, Shapes
    <2> DEFINE cmd == [VtestCommand("ResourceCreateBlob") EXCEPT !.shape = shape]
    <2>3. cmd \in VtestCommands /\ cmd.number = issued + 1
      BY <1>1, <2>2, NewCommand DEF VtestCommands
    <2> QED
      BY <1>2, <1>4, <2>1, <2>3 DEF AskBlob, Ready
  <1>5. CASE AskUnref
    <2>1. PICK r \in mapped :
             /\ Say([VtestCommand("ResourceUnref") EXCEPT !.res = r])
             /\ mapped' = mapped \ {r}
      BY <1>5 DEF AskUnref
    <2>2. "ResourceUnref" \in Kinds /\ r \in Nat
      BY <1>1 DEF Kinds
    <2> DEFINE cmd == [VtestCommand("ResourceUnref") EXCEPT !.res = r]
    <2>3. cmd \in VtestCommands /\ cmd.number = issued + 1
      BY <1>1, <2>2, NewCommand DEF VtestCommands
    <2> QED
      BY <1>2, <1>5, <2>1, <2>3 DEF AskUnref, Ready
  <1>6. CASE AskSubmit
    <2>1. PICK batches \in 1 .. 2, signals \in SUBSET (DOMAIN syncs) :
             Say([VtestCommand("SubmitCmd2") EXCEPT !.batches = batches,
                                                    !.signals = signals])
      BY <1>6 DEF AskSubmit
    <2>2. "SubmitCmd2" \in Kinds /\ batches \in Nat /\ signals \in SUBSET Nat
      BY <1>1 DEF Kinds
    <2> DEFINE cmd == [VtestCommand("SubmitCmd2") EXCEPT !.batches = batches,
                                                         !.signals = signals]
    <2>3. cmd \in VtestCommands /\ cmd.number = issued + 1
      <3>1. \A c \in VtestCommands :
               LET filled == [c EXCEPT !.batches = batches, !.signals = signals]
               IN filled \in VtestCommands /\ filled.number = c.number
        BY <2>2 DEF VtestCommands
      <3> QED
        BY <1>1, <2>2, <3>1, NewCommand
    <2> QED
      BY <1>2, <1>6, <2>1, <2>3 DEF AskSubmit, Ready
  <1>7. CASE AskSync
    <2>1. ASSUME NEW kind \in Kinds, NEW sync \in Nat, NEW value \in Nat
          PROVE  /\ VtestCommand(kind) \in VtestCommands
                 /\ VtestCommand(kind).number = issued + 1
                 /\ [VtestCommand(kind) EXCEPT !.sync = sync] \in VtestCommands
                 /\ [VtestCommand(kind) EXCEPT !.sync = sync].number = issued + 1
                 /\ [VtestCommand(kind) EXCEPT !.sync = sync, !.value = value]
                       \in VtestCommands
                 /\ [VtestCommand(kind) EXCEPT !.sync = sync,
                                               !.value = value].number = issued + 1
      <3>1. \A c \in VtestCommands :
               LET filled == [c EXCEPT !.sync = sync]
               IN filled \in VtestCommands /\ filled.number = c.number
        BY <2>1 DEF VtestCommands
      <3>2. \A c \in VtestCommands :
               LET filled == [c EXCEPT !.sync = sync, !.value = value]
               IN filled \in VtestCommands /\ filled.number = c.number
        BY <2>1 DEF VtestCommands
      <3> QED
        BY <1>1, <3>1, <3>2, NewCommand
    <2>2. {"SyncCreate", "SyncRead", "SyncUnref", "SyncWrite", "SyncWait"}
              \subseteq Kinds
      BY DEF Kinds
    <2>3. 1 .. MaxValue \subseteq Nat /\ 0 \in Nat
      BY VtestAssumption
    <2>4. \E cmd \in VtestCommands : cmd.number = issued + 1 /\ Say(cmd)
      <3>1. CASE Say(VtestCommand("SyncCreate"))
        BY <2>1, <2>2, <2>3, <3>1
      <3>2. ASSUME NEW sync \in DOMAIN syncs, NEW kind \in {"SyncRead", "SyncUnref"},
                   Say([VtestCommand(kind) EXCEPT !.sync = sync])
            PROVE  \E cmd \in VtestCommands : cmd.number = issued + 1 /\ Say(cmd)
        BY <1>1, <2>1, <2>2, <2>3, <3>2
      <3>3. ASSUME NEW sync \in DOMAIN syncs, NEW kind \in {"SyncWrite", "SyncWait"},
                   NEW value \in 1 .. MaxValue,
                   Say([VtestCommand(kind) EXCEPT !.sync = sync, !.value = value])
            PROVE  \E cmd \in VtestCommands : cmd.number = issued + 1 /\ Say(cmd)
        BY <1>1, <2>1, <2>2, <2>3, <3>3
      <3> QED
        BY <1>7, <3>1, <3>2, <3>3 DEF AskSync
    <2> QED
      BY <1>2, <1>7, <2>4 DEF AskSync, Ready
  <1> QED
    BY <1>3, <1>4, <1>5, <1>6, <1>7

\* Mesa reads the reply it has waited for longest.
LEMMA ReadReplyStep ==
    ASSUME VtestTypes, InOrder, ReadReply
    PROVE  VtestTypes' /\ InOrder'
  <1>1. /\ outbox \in Seq(VtestReplies) /\ outbox # << >> /\ awaited # << >>
        /\ issued \in Nat /\ awaited \in Seq(1 .. issued)
        /\ outbox' = Tail(outbox) /\ awaited' = Tail(awaited)
        /\ read' = Head(outbox) /\ mapped \subseteq Nat /\ gone \in BOOLEAN
        /\ inbox \in Seq(VtestCommands)
        /\ UNCHANGED <<limit, issued, inbox, vpc, serving, syncs, nextSync, outcome>>
    BY Greeting DEF VtestTypes, VtestTypeOK, ReadReply, serverVars
  <1>2. outbox' \in Seq(VtestReplies) /\ awaited' \in Seq(1 .. issued)
    BY <1>1
  <1>3. mapped' \subseteq Nat /\ gone' \in BOOLEAN
    <2>1. Head(outbox) \in VtestReplies
      BY <1>1
    <2>2. Head(outbox).value \in Nat /\ Head(outbox).ok \in BOOLEAN
      BY <2>1 DEF VtestReplies
    <2> QED
      BY <1>1, <2>2 DEF ReadReply
  <1>4. VtestTypes'
    BY <1>1, <1>2, <1>3 DEF VtestTypes, VtestTypeOK, Counted
  <1>5. awaited \in Seq(Nat)
    <2>1. 1 .. issued \subseteq Nat
      BY <1>1
    <2> QED
      BY <1>1, <2>1
  <1>6. /\ Len(outbox) \in Nat \ {0} /\ Len(outbox') = Len(outbox) - 1
        /\ \A i \in 1 .. Len(outbox') : outbox'[i] = outbox[i + 1]
    BY <1>1
  <1>7. /\ Len(awaited) \in Nat \ {0} /\ Len(awaited') = Len(awaited) - 1
        /\ \A i \in 1 .. Len(awaited') : awaited'[i] = awaited[i + 1]
    BY <1>1, <1>5
  <1>8. Written'
    <2>1. Len(outbox') <= Len(awaited')
      BY <1>6, <1>7 DEF InOrder, Written
    <2>2. ASSUME NEW i \in 1 .. Len(outbox')
          PROVE  outbox'[i].number = awaited'[i]
      <3>1. i + 1 \in 1 .. Len(outbox) /\ i \in 1 .. Len(awaited')
        BY <1>6, <1>7, <2>1
      <3> QED
        BY <1>6, <1>7, <3>1 DEF InOrder, Written
    <2> QED
      BY <2>1, <2>2 DEF Written
  <1>9. ASSUME vpc # "over" PROVE Following'
    <2>1. Following
      BY <1>9 DEF InOrder
    <2>2. \A from \in Nat \ {0} : Awaiting(inbox, from, awaited)
                                  => Awaiting(inbox, from - 1, awaited')
      BY <1>1, <1>5, AwaitingRead
    <2>3. CASE serving.kind \in Replying
      <3>1. /\ Len(outbox) < Len(awaited)
            /\ awaited[Len(outbox) + 1] = serving.number
            /\ Awaiting(inbox, Len(outbox) + 1, awaited)
        BY <2>1, <2>3 DEF Following
      <3>2. Len(outbox) + 1 \in Nat \ {0} /\ (Len(outbox) + 1) - 1 = Len(outbox') + 1
        BY <1>6
      <3>3. Awaiting(inbox, Len(outbox') + 1, awaited')
        BY <2>2, <3>1, <3>2
      <3>4. Len(outbox') < Len(awaited') /\ Len(outbox') + 1 \in 1 .. Len(awaited')
            /\ (Len(outbox') + 1) + 1 = Len(outbox) + 1
        BY <1>6, <1>7, <3>1
      <3>5. awaited'[Len(outbox') + 1] = serving.number
        BY <1>7, <3>1, <3>4
      <3> QED
        BY <1>1, <2>3, <3>3, <3>4, <3>5 DEF Following
    <2>4. CASE serving.kind \notin Replying
      BY <1>1, <1>6, <2>1, <2>2, <2>4 DEF Following
    <2> QED
      BY <2>3, <2>4
  <1> QED
    BY <1>1, <1>4, <1>8, <1>9 DEF InOrder

\* The application ends, half way through a command or between two.
LEMMA ExitStep ==
    ASSUME VtestTypes, InOrder, Exit
    PROVE  VtestTypes' /\ InOrder'
  <1>1. /\ issued \in Nat /\ awaited \in Seq(1 .. issued)
        /\ inbox \in Seq(VtestCommands) /\ outbox \in Seq(VtestReplies)
        /\ gone' = TRUE
        /\ UNCHANGED <<limit, issued, awaited, mapped, outbox, vpc, serving, syncs,
                       nextSync, outcome>>
    BY Greeting DEF VtestTypes, VtestTypeOK, Exit, serverVars
  <1> DEFINE half == VtestCommand("half")
  <1>2. half \in VtestCommands /\ half.kind = "half"
    <2>1. "half" \in Kinds
      BY DEF Kinds
    <2> QED
      BY <1>1, <2>1, NewCommand
  <1> HIDE DEF half
  <1>3. inbox' = inbox \/ inbox' = Append(inbox, half)
    BY DEF Exit, half
  <1>4. inbox' \in Seq(VtestCommands)
    <2>1. Append(inbox, half) \in Seq(VtestCommands)
      BY <1>1, <1>2
    <2> QED
      BY <1>1, <1>3, <2>1
  <1>5. \A i \in 1 .. Len(inbox') :
           inbox'[i].kind = "half" \/ inbox'[i].number \in 1 .. issued
    <2>1. CASE inbox' = inbox
      BY <2>1 DEF VtestTypes, Counted
    <2>2. CASE inbox' = Append(inbox, half)
      <3> SUFFICES ASSUME NEW i \in 1 .. Len(inbox')
                   PROVE  inbox'[i].kind = "half" \/ inbox'[i].number \in 1 .. issued
        OBVIOUS
      <3>1. CASE i = Len(inbox) + 1
        BY <1>1, <1>2, <2>2, <3>1
      <3>2. CASE i # Len(inbox) + 1
        <4>1. i \in 1 .. Len(inbox) /\ inbox'[i] = inbox[i]
          BY <1>1, <2>2, <3>2
        <4> QED
          BY <4>1 DEF VtestTypes, Counted
      <3> QED
        BY <3>1, <3>2
    <2> QED
      BY <1>3, <2>1, <2>2
  <1>6. VtestTypes'
    BY <1>1, <1>4, <1>5 DEF VtestTypes, VtestTypeOK, Counted
  <1>7. awaited \in Seq(Nat)
    <2>1. 1 .. issued \subseteq Nat
      BY <1>1
    <2> QED
      BY <1>1, <2>1
  <1>8. \A from \in Nat : Awaiting(inbox, from, awaited)
                          => Awaiting(inbox', from, awaited)
    <2>1. half.kind \notin Replying
      BY <1>2 DEF Replying
    <2> QED
      BY <1>1, <1>2, <1>3, <1>7, <2>1, AwaitingMore
  <1>9. Len(outbox) \in Nat /\ Len(outbox) + 1 \in Nat
    BY <1>1
  <1>10. vpc # "over" /\ Following => Following'
    BY <1>1, <1>8, <1>9 DEF Following
  <1> QED
    BY <1>1, <1>6, <1>10 DEF InOrder, Written

\* A command is taken out of the socket.
LEMMA TakeCommand ==
    ASSUME VtestTypes, inbox # << >>, inbox' = Tail(inbox), issued' = issued
    PROVE  /\ Incoming \in VtestCommands /\ Counted(Incoming)
           /\ inbox' \in Seq(VtestCommands)
           /\ \A i \in 1 .. Len(inbox') :
                 inbox'[i].kind = "half" \/ inbox'[i].number \in 1 .. issued'
  <1>1. inbox \in Seq(VtestCommands)
    BY DEF VtestTypes
  <1>2. /\ Incoming = inbox[1] /\ 1 \in 1 .. Len(inbox) /\ Len(inbox) \in Nat
        /\ Incoming \in VtestCommands /\ inbox' \in Seq(VtestCommands)
        /\ Len(inbox') = Len(inbox) - 1
        /\ \A i \in 1 .. Len(inbox') : inbox'[i] = inbox[i + 1]
    BY <1>1 DEF Incoming
  <1>3. ASSUME NEW i \in 1 .. Len(inbox')
        PROVE  inbox'[i].kind = "half" \/ inbox'[i].number \in 1 .. issued'
    <2>1. i + 1 \in 1 .. Len(inbox) /\ inbox'[i] = inbox[i + 1]
      BY <1>2
    <2> QED
      BY <2>1 DEF VtestTypes, Counted
  <1>4. Counted(Incoming)
    BY <1>2 DEF VtestTypes
  <1> QED
    BY <1>2, <1>3, <1>4

\* The reply that is due is written, or the client has gone.
LEMMA WriteKeeps ==
    ASSUME VtestTypes, Written, Len(outbox) < Len(awaited),
           NEW reply \in VtestReplies, reply.number = awaited[Len(outbox) + 1],
           Write(reply), UNCHANGED <<awaited, issued>>
    PROVE  /\ Written' /\ outbox' \in Seq(VtestReplies)
           /\ outcome' \in [context : BOOLEAN, batches : Nat,
                            ended : {"no", "clean", "error"}]
           /\ \/ vpc' = "read" /\ outbox' = Append(outbox, reply) /\ outcome' = outcome
              \/ vpc' = "over" /\ outbox' = outbox /\ outcome'.ended = "error"
  <1>1. /\ outbox \in Seq(VtestReplies)
        /\ outcome \in [context : BOOLEAN, batches : Nat,
                        ended : {"no", "clean", "error"}]
        /\ Len(outbox) \in Nat
    BY DEF VtestTypes
  <1>2. CASE gone
    BY <1>1, <1>2 DEF Write, Fail, Written
  <1>3. CASE ~ gone
    <2>1. vpc' = "read" /\ outbox' = Append(outbox, reply) /\ outcome' = outcome
      BY <1>3 DEF Write
    <2>2. /\ outbox' \in Seq(VtestReplies) /\ Len(outbox') = Len(outbox) + 1
          /\ outbox'[Len(outbox) + 1] = reply
          /\ \A i \in 1 .. Len(outbox) : outbox'[i] = outbox[i]
      BY <1>1, <2>1
    <2>3. awaited \in Seq(1 .. issued) /\ Len(awaited) \in Nat
      BY DEF VtestTypes, VtestTypeOK
    <2>4. Written'
      BY <1>1, <2>2, <2>3 DEF Written
    <2> QED
      BY <1>1, <2>1, <2>2, <2>4
  <1> QED
    BY <1>2, <1>3

\* Between commands nothing is served.
LEMMA Idle ==
    ASSUME VtestTypes, vpc = "read"
    PROVE  serving = Nothing /\ serving.kind = "none" /\ serving.kind \notin Replying
  BY DEF VtestTypes, VtestTypeOK, Nothing, Replying

\* The table of syncs maps ids to values, and so it answers.
LEMMA SyncedTypes ==
    ASSUME VtestTypes, NEW cmd \in VtestCommands
    PROVE  /\ DOMAIN Synced(cmd) \subseteq Nat
           /\ \A sync \in DOMAIN Synced(cmd) : Synced(cmd)[sync] \in Nat
           /\ ReplyValue(cmd) \in Nat
  <1>1. /\ DOMAIN syncs \subseteq Nat /\ nextSync \in Nat
        /\ \A sync \in DOMAIN syncs : syncs[sync] \in Nat
        /\ cmd.sync \in Nat /\ cmd.value \in Nat
    BY DEF VtestTypes, VtestCommands
  <1>2. ASSUME NEW key \in Nat, NEW value \in Nat
        PROVE  /\ DOMAIN With(syncs, {key}, value) \subseteq Nat
               /\ \A sync \in DOMAIN With(syncs, {key}, value) :
                     With(syncs, {key}, value)[sync] \in Nat
    BY <1>1, <1>2 DEF With
  <1>3. /\ DOMAIN Without(syncs, cmd.sync) \subseteq Nat
        /\ \A sync \in DOMAIN Without(syncs, cmd.sync) :
              Without(syncs, cmd.sync)[sync] \in Nat
    BY <1>1 DEF Without
  <1>4. \/ Synced(cmd) = syncs \/ Synced(cmd) = Without(syncs, cmd.sync)
        \/ Synced(cmd) = With(syncs, {nextSync}, 0)
        \/ Synced(cmd) = With(syncs, {cmd.sync}, cmd.value)
    BY DEF Synced, Waited
  <1>5. ReplyValue(cmd) \in Nat
    BY <1>1 DEF ReplyValue
  <1> QED
    BY <1>1, <1>2, <1>3, <1>4, <1>5

\* A command served without the engine writes the reply that comes next.
LEMMA ServeLocalStep ==
    ASSUME VtestTypes, InOrder, ServeLocal
    PROVE  VtestTypes' /\ InOrder'
  <1>1. /\ vpc = "read" /\ inbox # << >> /\ inbox' = Tail(inbox)
        /\ syncs' = Synced(Incoming)
        /\ Incoming.kind \notin Calling \cup {"half"}
        /\ nextSync' = IF Incoming.kind = "SyncCreate" THEN nextSync + 1 ELSE nextSync
        /\ UNCHANGED <<limit, issued, awaited, mapped, gone, serving>>
    BY DEF ServeLocal, mesaVars
  <1>2. /\ Incoming \in VtestCommands /\ Counted(Incoming)
        /\ inbox' \in Seq(VtestCommands)
        /\ \A i \in 1 .. Len(inbox') :
              inbox'[i].kind = "half" \/ inbox'[i].number \in 1 .. issued'
    BY <1>1, TakeCommand
  <1>3. /\ DOMAIN syncs' \subseteq Nat /\ nextSync' \in Nat
        /\ \A sync \in DOMAIN syncs' : syncs'[sync] \in Nat
        /\ ReplyValue(Incoming) \in Nat
    <2>1. nextSync \in Nat
      BY DEF VtestTypes
    <2> QED
      BY <1>1, <1>2, <2>1, SyncedTypes
  <1>4. /\ serving = Nothing /\ serving.kind \notin Replying
        /\ vpc' \in {"read", "over"} /\ serving' = Nothing
    BY <1>1, Idle DEF ServeLocal, Write, Fail
  <1>5. Written /\ Awaiting(inbox, Len(outbox), awaited)
    BY <1>1, <1>4 DEF InOrder, Following
  <1>6. inbox \in Seq(VtestCommands) /\ awaited \in Seq(Nat) /\ Len(outbox) \in Nat
    <2>1. 1 .. issued \subseteq Nat
      BY Greeting DEF VtestTypes, VtestTypeOK
    <2> QED
      BY <2>1 DEF VtestTypes, VtestTypeOK
  <1>7. IF Incoming.kind \in Replying
        THEN /\ Len(outbox) < Len(awaited)
             /\ awaited[Len(outbox) + 1] = Incoming.number
             /\ Awaiting(inbox', Len(outbox) + 1, awaited)
        ELSE Awaiting(inbox', Len(outbox), awaited)
    BY <1>1, <1>5, <1>6, AwaitingRest DEF Incoming
  <1>8. ASSUME outbox' \in Seq(VtestReplies), (vpc' = "over") = (outcome'.ended # "no"),
               outcome' \in [context : BOOLEAN, batches : Nat,
                             ended : {"no", "clean", "error"}]
        PROVE  VtestTypes'
    BY <1>1, <1>2, <1>3, <1>4, <1>8 DEF VtestTypes, VtestTypeOK, Counted, Nothing
  <1>9. outcome.ended = "no"
    BY <1>1 DEF VtestTypes, VtestTypeOK
  <1>10. CASE Incoming.kind \in Replying
    <2> DEFINE reply == Reply(Incoming, TRUE, ReplyValue(Incoming))
    <2>1. reply \in VtestReplies /\ reply.number = Incoming.number
      BY <1>2, <1>3 DEF Reply, VtestReplies, VtestCommands
    <2>2. Write(reply)
      BY <1>10 DEF ServeLocal
    <2> HIDE DEF reply
    <2>3. /\ Written' /\ outbox' \in Seq(VtestReplies)
          /\ outcome' \in [context : BOOLEAN, batches : Nat,
                           ended : {"no", "clean", "error"}]
          /\ \/ vpc' = "read" /\ outbox' = Append(outbox, reply) /\ outcome' = outcome
             \/ vpc' = "over" /\ outbox' = outbox /\ outcome'.ended = "error"
      BY <1>1, <1>5, <1>7, <1>10, <2>1, <2>2, WriteKeeps
    <2>4. VtestTypes'
      BY <1>8, <1>9, <2>3
    <2>5. ASSUME vpc' # "over" PROVE Following'
      <3>1. Len(outbox') = Len(outbox) + 1
        BY <1>6, <2>3, <2>5, <2>1 DEF VtestTypes
      <3> QED
        BY <1>1, <1>4, <1>7, <1>10, <3>1 DEF Following
    <2> QED
      BY <2>3, <2>4, <2>5 DEF InOrder
  <1>11. CASE Incoming.kind \notin Replying
    <2>1. vpc' = "read" /\ outbox' = outbox /\ outcome' = outcome
      BY <1>11 DEF ServeLocal
    <2>2. VtestTypes'
      <3>1. outbox \in Seq(VtestReplies)
            /\ outcome \in [context : BOOLEAN, batches : Nat,
                            ended : {"no", "clean", "error"}]
        BY DEF VtestTypes
      <3> QED
        BY <1>8, <1>9, <2>1, <3>1
    <2>3. Following'
      BY <1>1, <1>4, <1>7, <1>11, <2>1 DEF Following
    <2> QED
      BY <1>1, <1>5, <2>1, <2>2, <2>3 DEF InOrder, Written
  <1> QED
    BY <1>10, <1>11

\* A command for the engine is taken; its reply, if it has one, is still to be
\* written.
LEMMA BeginCallStep ==
    ASSUME VtestTypes, InOrder, BeginCall
    PROVE  VtestTypes' /\ InOrder'
  <1>1. /\ vpc = "read" /\ inbox # << >> /\ inbox' = Tail(inbox)
        /\ Incoming.kind \in Calling /\ serving' = Incoming /\ vpc' = "call"
        /\ UNCHANGED <<limit, issued, awaited, mapped, gone, outbox, syncs, nextSync,
                       outcome>>
    BY DEF BeginCall, mesaVars
  <1>2. /\ Incoming \in VtestCommands /\ Counted(Incoming)
        /\ inbox' \in Seq(VtestCommands)
        /\ \A i \in 1 .. Len(inbox') :
              inbox'[i].kind = "half" \/ inbox'[i].number \in 1 .. issued'
    BY <1>1, TakeCommand
  <1>3. serving' # Nothing /\ serving'.number \in 1 .. issued
    BY <1>1, <1>2 DEF Nothing, Calling, Counted
  <1>4. VtestTypes'
    BY <1>1, <1>2, <1>3 DEF VtestTypes, VtestTypeOK, Counted
  <1>5. Written /\ Awaiting(inbox, Len(outbox), awaited)
    BY <1>1, Idle DEF InOrder, Following
  <1>6. inbox \in Seq(VtestCommands) /\ awaited \in Seq(Nat) /\ Len(outbox) \in Nat
    <2>1. 1 .. issued \subseteq Nat
      BY Greeting DEF VtestTypes, VtestTypeOK
    <2> QED
      BY <2>1 DEF VtestTypes, VtestTypeOK
  <1>7. Following'
    BY <1>1, <1>5, <1>6, AwaitingRest DEF Incoming, Following
  <1> QED
    BY <1>1, <1>4, <1>5, <1>7 DEF InOrder, Written

\* The server ends with Mesa's stream.
LEMMA EndOfStreamStep ==
    ASSUME VtestTypes, InOrder, EndOfStream
    PROVE  VtestTypes' /\ InOrder'
  <1>1. /\ vpc = "read" /\ vpc' = "over"
        /\ UNCHANGED <<limit, issued, awaited, mapped, gone, inbox, outbox, serving,
                       syncs, nextSync>>
    BY DEF EndOfStream, mesaVars
  <1>2. /\ outcome' \in [context : BOOLEAN, batches : Nat,
                         ended : {"no", "clean", "error"}]
        /\ outcome'.ended # "no"
    BY DEF EndOfStream, VtestTypes
  <1>3. VtestTypes'
    BY <1>1, <1>2 DEF VtestTypes, VtestTypeOK, Counted
  <1> QED
    BY <1>1, <1>3 DEF InOrder, Written

\* The engine's call returns.
LEMMA FinishCallStep ==
    ASSUME VtestTypes, InOrder, NEW ok \in BOOLEAN, NEW res \in Nat,
           FinishCall(ok, res)
    PROVE  VtestTypes' /\ InOrder'
  <1>1. /\ vpc = "call"
        /\ UNCHANGED <<limit, issued, awaited, mapped, gone, inbox, nextSync>>
    BY DEF FinishCall, mesaVars
  <1>2. /\ serving \in VtestCommands /\ serving # Nothing
        /\ serving.number \in 1 .. issued /\ issued \in Nat
        /\ outbox \in Seq(VtestReplies) /\ outcome.ended = "no"
        /\ outcome \in [context : BOOLEAN, batches : Nat,
                        ended : {"no", "clean", "error"}]
        /\ Written /\ Following
    BY <1>1, Greeting DEF VtestTypes, VtestTypeOK, InOrder
  <1>3. ASSUME outbox' \in Seq(VtestReplies), (vpc' = "over") = (outcome'.ended # "no"),
               outcome' \in [context : BOOLEAN, batches : Nat,
                             ended : {"no", "clean", "error"}],
               vpc' \in {"read", "over"}, serving' = Nothing,
               DOMAIN syncs' \subseteq Nat,
               \A sync \in DOMAIN syncs' : syncs'[sync] \in Nat
        PROVE  VtestTypes'
    <2>1. Nothing \in VtestCommands
      BY DEF Nothing, VtestCommands, Kinds, Shapes
    <2> QED
      BY <1>1, <1>3, <2>1 DEF VtestTypes, VtestTypeOK, Counted
  <1>4. "none" \notin Replying /\ Nothing.kind = "none"
    BY DEF Replying, Nothing
  <1>5. /\ DOMAIN syncs \subseteq Nat
        /\ \A sync \in DOMAIN syncs : syncs[sync] \in Nat
    BY DEF VtestTypes
  <1>6. ASSUME NEW reply \in VtestReplies, reply.number = serving.number,
               serving.kind \in Replying, Write(reply), serving' = Nothing,
               syncs' = syncs
        PROVE  VtestTypes' /\ InOrder'
    <2>1. /\ Len(outbox) < Len(awaited)
          /\ awaited[Len(outbox) + 1] = serving.number
          /\ Awaiting(inbox, Len(outbox) + 1, awaited)
      BY <1>2, <1>6 DEF Following
    <2>2. /\ Written' /\ outbox' \in Seq(VtestReplies)
          /\ outcome' \in [context : BOOLEAN, batches : Nat,
                           ended : {"no", "clean", "error"}]
          /\ \/ vpc' = "read" /\ outbox' = Append(outbox, reply) /\ outcome' = outcome
             \/ vpc' = "over" /\ outbox' = outbox /\ outcome'.ended = "error"
      BY <1>1, <1>2, <1>6, <2>1, WriteKeeps
    <2>3. VtestTypes'
      BY <1>2, <1>3, <1>5, <1>6, <2>2
    <2>4. ASSUME vpc' # "over" PROVE Following'
      <3>1. Len(outbox') = Len(outbox) + 1
        BY <1>2, <2>2, <2>4
      <3> QED
        BY <1>1, <1>4, <1>6, <2>1, <3>1 DEF Following
    <2> QED
      BY <2>2, <2>3, <2>4 DEF InOrder
  <1>7. CASE FinishCapset(ok)
    <2>1. Reply(serving, ok, 0) \in VtestReplies
          /\ Reply(serving, ok, 0).number = serving.number
      BY <1>2 DEF Reply, VtestReplies, VtestCommands
    <2>2. serving.kind \in Replying
      BY <1>7 DEF FinishCapset, Replying
    <2> QED
      BY <1>6, <1>7, <2>1, <2>2 DEF FinishCapset
  <1>8. ASSUME serving.kind \notin Replying \/ vpc' = "over", serving' = Nothing,
               outbox' = outbox,
               \/ vpc' = "read" /\ outcome'.ended = "no"
               \/ vpc' = "over" /\ outcome'.ended = "error",
               outcome' \in [context : BOOLEAN, batches : Nat,
                             ended : {"no", "clean", "error"}],
               DOMAIN syncs' \subseteq Nat,
               \A sync \in DOMAIN syncs' : syncs'[sync] \in Nat
        PROVE  VtestTypes' /\ InOrder'
    <2>1. VtestTypes'
      BY <1>2, <1>3, <1>8
    <2>2. Written'
      BY <1>1, <1>2, <1>8 DEF Written
    <2>3. vpc' # "over" => Following'
      BY <1>1, <1>2, <1>4, <1>8 DEF Following
    <2> QED
      BY <2>1, <2>2, <2>3 DEF InOrder
  <1>9. CASE FinishContext(ok)
    <2>1. serving.kind \notin Replying
      BY <1>9 DEF FinishContext, Replying
    <2>2. /\ outcome' \in [context : BOOLEAN, batches : Nat,
                           ended : {"no", "clean", "error"}]
          /\ \/ vpc' = "read" /\ outcome'.ended = "no"
             \/ vpc' = "over" /\ outcome'.ended = "error"
      BY <1>2, <1>9 DEF FinishContext, Fail
    <2> QED
      BY <1>5, <1>8, <1>9, <2>1, <2>2 DEF FinishContext
  <1>10. CASE FinishBlob(ok, res)
    <2>1. CASE ok
      <3>1. Reply(serving, TRUE, res) \in VtestReplies
            /\ Reply(serving, TRUE, res).number = serving.number
        BY <1>2 DEF Reply, VtestReplies, VtestCommands
      <3>2. serving.kind \in Replying
        BY <1>10 DEF FinishBlob, Replying
      <3> QED
        BY <1>6, <1>10, <2>1, <3>1, <3>2 DEF FinishBlob
    <2>2. CASE ~ ok
      <3>1. /\ outcome' \in [context : BOOLEAN, batches : Nat,
                             ended : {"no", "clean", "error"}]
            /\ vpc' = "over" /\ outcome'.ended = "error"
        BY <1>2, <1>10, <2>2 DEF FinishBlob, Fail
      <3> QED
        BY <1>5, <1>8, <1>10, <2>2, <3>1 DEF FinishBlob
    <2> QED
      BY <2>1, <2>2
  <1>11. CASE FinishUnref
    <2>1. serving.kind \notin Replying
      BY <1>11 DEF FinishUnref, Replying
    <2> QED
      BY <1>2, <1>5, <1>8, <1>11, <2>1 DEF FinishUnref
  <1>12. CASE FinishBatch(ok)
    <2>1. serving.kind \notin Replying /\ serving.kind = "SubmitCmd2"
      BY <1>12 DEF FinishBatch, Replying
    <2>2. CASE ~ ok
      <3>1. /\ outcome' \in [context : BOOLEAN, batches : Nat,
                             ended : {"no", "clean", "error"}]
            /\ vpc' = "over" /\ outcome'.ended = "error"
        BY <1>2, <1>12, <2>2 DEF FinishBatch, Fail
      <3> QED
        BY <1>5, <1>8, <1>12, <2>2, <3>1 DEF FinishBatch
    <2>3. CASE ok
      <3>1. /\ DOMAIN syncs' \subseteq Nat
            /\ \A sync \in DOMAIN syncs' : syncs'[sync] \in Nat
        <4>1. serving.signals \subseteq Nat /\ MaxValue \in Nat
          BY <1>2, VtestAssumption DEF VtestCommands
        <4>2. syncs' = With(syncs, serving.signals, MaxValue)
          BY <1>12, <2>3 DEF FinishBatch
        <4> QED
          BY <1>5, <4>1, <4>2 DEF With
      <3>2. /\ outcome' \in [context : BOOLEAN, batches : Nat,
                             ended : {"no", "clean", "error"}]
            /\ outcome'.ended = "no" /\ outbox' = outbox
        BY <1>2, <1>12, <2>3 DEF FinishBatch
      <3>3. CASE serving.batches = 1
        BY <1>8, <1>12, <2>1, <2>3, <3>1, <3>2, <3>3 DEF FinishBatch
      <3>4. CASE serving.batches # 1
        <4>1. /\ vpc' = "call" /\ serving' = [serving EXCEPT !.batches = 1]
          BY <1>12, <2>3, <3>4 DEF FinishBatch
        <4>2. /\ serving' \in VtestCommands /\ serving'.kind = serving.kind
              /\ serving'.number = serving.number
          BY <1>2, <4>1 DEF VtestCommands
        <4>3. serving' # Nothing
          BY <2>1, <4>2 DEF Nothing
        <4>4. VtestTypes'
          BY <1>1, <1>2, <3>1, <3>2, <4>1, <4>2, <4>3
             DEF VtestTypes, VtestTypeOK, Counted
        <4>5. InOrder'
          BY <1>1, <1>2, <2>1, <3>2, <4>2 DEF InOrder, Written, Following
        <4> QED
          BY <4>4, <4>5
      <3> QED
        BY <3>3, <3>4
    <2> QED
      BY <2>2, <2>3
  <1> QED
    BY <1>7, <1>9, <1>10, <1>11, <1>12 DEF FinishCall

\* Mesa has sent nothing and awaits nothing.
LEMMA VtestInitial == VtestInit /\ limit \in Nat => VtestTypes /\ InOrder
  <1> SUFFICES ASSUME VtestInit, limit \in Nat PROVE VtestTypes /\ InOrder
    OBVIOUS
  <1>1. Nothing \in VtestCommands /\ Nothing.kind \notin Replying
    BY DEF Nothing, VtestCommands, Kinds, Shapes, Replying
  <1>2. VtestTypes
    <2>1. VtestTypeOK
      <3>1. << >> \in Seq(1 .. 0)
        OBVIOUS
      <3> QED
        BY <3>1, Greeting DEF VtestInit, VtestTypeOK
    <2>2. /\ inbox \in Seq(VtestCommands) /\ Len(inbox) = 0
          /\ outbox \in Seq(VtestReplies)
      BY DEF VtestInit
    <2>3. \A i \in 1 .. Len(inbox) : Counted(inbox[i])
      BY <2>2
    <2>4. /\ DOMAIN syncs = {} /\ nextSync \in Nat /\ mapped \subseteq Nat
          /\ gone \in BOOLEAN /\ serving \in VtestCommands /\ serving = Nothing
          /\ outcome \in [context : BOOLEAN, batches : Nat,
                          ended : {"no", "clean", "error"}]
      BY <1>1 DEF VtestInit, NoEntries
    <2> QED
      BY <2>1, <2>2, <2>3, <2>4 DEF VtestTypes
  <1>3. Awaiting(<< >>, 0, << >>)
    <2> DEFINE at == [i \in 0 .. 0 |-> 0]
    <2>1. /\ at \in [0 .. 0 -> 0 .. 0] /\ at[0] = 0
          /\ \A i, j \in 0 .. 0 : i <= j => at[i] <= at[j]
      OBVIOUS
    <2>2. Len(<< >>) = 0
      OBVIOUS
    <2>3. \A i \in 1 .. 0 : FALSE
      OBVIOUS
    <2> HIDE DEF at
    <2> QED
      BY <2>1, <2>2, <2>3 DEF Awaiting
  <1>4. InOrder
    BY <1>1, <1>3 DEF VtestInit, InOrder, Written, Following
  <1> QED
    BY <1>2, <1>4

-----------------------------------------------------------------------------
(* What a step of the session is for the vtest server and for the engine.   *)

VtestMoves ==
    \/ UNCHANGED vtestVars
    \/ Mesa \/ Server
    \/ \E ok \in BOOLEAN, res \in Nat : FinishCall(ok, res)

\* What each step of the session is for Mesa's socket: a step of one of its
\* ends, or none.
LEMMA VtestStep ==
    ASSUME LinkTypes, [Next]_vars
    PROVE  VtestMoves
  <1>1. CASE MesaSteps \/ ServerSteps
    BY <1>1 DEF MesaSteps, ServerSteps, VtestMoves
  <1>2. CASE CreateVenusContext \/ Submit \/ Unref
    <2>1. FinishCall(link = "up", 0) \/ FinishCall(TRUE, 0)
      BY <1>2 DEF CreateVenusContext, Submit, Unref, SendAndReturn
    <2>2. (link = "up") \in BOOLEAN /\ 0 \in Nat
      OBVIOUS
    <2> QED
      BY <2>1, <2>2 DEF VtestMoves
  <1>3. CASE VenusCapset \/ CreateBlobResource
    <2>1. FinishCall(FALSE, 0) \/ UNCHANGED vtestVars
      BY <1>3 DEF VenusCapset, CreateBlobResource, Ask
    <2> QED
      BY <2>1 DEF VtestMoves
  <1>4. CASE ReceiveAnswer
    <2>1. Head(replies) \in S2C
      BY <1>4 DEF ReceiveAnswer, LinkTypes
    <2>2. Head(replies).res \in Nat
      BY <2>1 DEF S2C, Messages
    <2>3. \E ok \in BOOLEAN : \E res \in {0, Head(replies).res} : FinishCall(ok, res)
      BY <1>4 DEF ReceiveAnswer
    <2> QED
      BY <2>2, <2>3 DEF VtestMoves
  <1>5. CASE NoAnswer
    BY <1>5 DEF NoAnswer, VtestMoves
  <1>6. CASE ReaderThread \/ Watcher
    BY <1>6 DEF ReaderThread, Reader, ReaderEnds, Watcher, WatcherDiffs,
                WatcherShips, VtestMoves
  <1>7. CASE MessageThread
    BY <1>7 DEF MessageThread, Receive, Applied, Undo, Undone, SendAnswer,
                ServeEnds, VtestMoves
  <1>8. CASE Engine \/ Virgl \/ Waiters \/ LinkFails \/ CExits \/ NoEngine
    BY <1>8 DEF Engine, Virgl, Waiters, WaiterAsks, WaiterIsAnswered,
                WaiterLeaves, LinkFails, CExits, NoEngine, VtestMoves
  <1>9. CASE UNCHANGED vars
    BY <1>9 DEF vars, VtestMoves
  <1> QED
    BY <1>1, <1>2, <1>3, <1>4, <1>5, <1>6, <1>7, <1>8, <1>9 DEF Next, VtestThread

\* Every such step keeps its types and its order.
LEMMA VtestKeeps ==
    ASSUME VtestTypes, InOrder, VtestMoves
    PROVE  VtestTypes' /\ InOrder'
  <1>1. CASE UNCHANGED vtestVars
    BY <1>1 DEF vtestVars, mesaVars, serverVars, VtestTypes, VtestTypeOK, Counted,
                InOrder, Written, Following
  <1>2. CASE Mesa
    BY <1>2, AskStep, ReadReplyStep, ExitStep DEF Mesa
  <1>3. CASE Server
    BY <1>3, ServeLocalStep, BeginCallStep, EndOfStreamStep DEF Server
  <1> QED
    BY <1>1, <1>2, <1>3, FinishCallStep DEF VtestMoves

\* The session's one context is a context.
LEMMA TheContext == Context \in Contexts
  BY SessionAssumption DEF Context

\* Every call that the message thread makes is one of the engine's.
LEMMA EngineCalls ==
    ASSUME NEW m \in C2S, ForEngine(m)
    PROVE  /\ EngineCall(m) \in Call /\ EngineCall(m) # NoCall
           /\ EngineCall(m).op \in {"context", "submit", "capset", "blob", "unref"}
           /\ EngineCall(m).op = "blob" => m.type = "CreateBlob"
           /\ m.type = "CreateBlob" => EngineCall(m).op = "blob"
           /\ EngineCall(m).op = "unref" => m.type = "UnrefResource"
           /\ m.type = "UnrefResource" => EngineCall(m) = [op |-> "unref", res |-> m.res]
  <1>1. m.res \in Nat
    BY DEF C2S, Messages
  <1>2. CASE m.type = "CreateContext"
    BY <1>2, TheContext DEF EngineCall, Call, NoCall
  <1>3. CASE m.type = "GetCapset"
    BY <1>3, TheContext DEF EngineCall, Call, NoCall
  <1>4. CASE m.type = "CreateBlob"
    BY <1>4, TheContext DEF EngineCall, Call, NoCall
  <1>5. CASE m.type = "SubmitCmd"
    BY <1>5, TheContext DEF EngineCall, Call, NoCall
  <1>6. CASE m.type = "UnrefResource"
    BY <1>1, <1>6 DEF EngineCall, Call, NoCall
  <1> QED
    BY <1>2, <1>3, <1>4, <1>5, <1>6 DEF ForEngine, IsRequest

\* The message that is read next.
LEMMA NextMessage ==
    ASSUME LinkTypes, c2s # << >>
    PROVE  /\ Head(c2s) \in C2S /\ Tail(c2s) \in Seq(C2S)
           /\ Head(c2s).type \notin {"Hello", "BlobData"} => ForEngine(Head(c2s))
  <1>1. Head(c2s) \in C2S /\ Tail(c2s) \in Seq(C2S)
    BY DEF LinkTypes
  <1> QED
    BY <1>1 DEF C2S

\* What each step of the session is for the engine: a step of the actor, or
\* none.
LEMMA ActorMoves ==
    ASSUME LinkTypes, InPhase, [Next]_vars
    PROVE  [ActorNext]_actorVars
  <1>1. CASE MesaSteps \/ VtestThread
    BY <1>1 DEF MesaSteps, VtestThread, ServerSteps, CreateVenusContext, Submit,
                SendAndReturn, Unref, VenusCapset, CreateBlobResource,
                ReceiveAnswer, NoAnswer
  <1>2. CASE ReaderThread \/ Watcher \/ LinkFails \/ CExits \/ NoEngine
    BY <1>2 DEF ReaderThread, Reader, ReaderEnds, Watcher, WatcherDiffs,
                WatcherShips, LinkFails, CExits, NoEngine
  <1>3. Serve \in Clients
    BY SessionAssumption
  <1>4. CASE Receive
    <2>1. UNCHANGED actorVars \/ (/\ smsg'.type \notin {"Hello", "BlobData"}
                                  /\ Request(Serve, EngineCall(smsg')))
      BY <1>4 DEF Receive
    <2>2. smsg' = Head(c2s) /\ c2s # << >>
      BY <1>4 DEF Receive
    <2> QED
      BY <1>3, <2>1, <2>2, NextMessage, EngineCalls DEF ActorNext
  <1>5. CASE Undo
    <2>1. smsg.res \in Nat
      BY <1>5 DEF LinkTypes, C2S, Messages, None, Message
    <2>2. [op |-> "unref", res |-> smsg.res] \in Call
      BY <2>1 DEF Call
    <2> QED
      BY <1>3, <1>5, <2>2 DEF Undo, ActorNext
  <1>6. CASE Applied \/ Undone
    BY <1>3, <1>6 DEF Applied, Undone, ActorNext
  <1>7. CASE SendAnswer \/ ServeEnds
    BY <1>3, <1>7 DEF SendAnswer, ServeEnds, ActorNext
  <1>8. CASE Engine \/ Virgl
    BY <1>8 DEF Engine, Virgl, ActorNext
  <1>9. CASE WaiterAsks
    <2>1. PICK c \in Clients \ {Serve}, r \in Rings :
             Request(c, [op |-> "wait", ctx |-> Context, ring |-> r])
      BY <1>9 DEF WaiterAsks
    <2>2. [op |-> "wait", ctx |-> Context, ring |-> r] \in Call
      BY TheContext DEF Call
    <2> QED
      BY <2>1, <2>2 DEF ActorNext
  <1>10. CASE WaiterIsAnswered \/ WaiterLeaves
    BY <1>10 DEF WaiterIsAnswered, WaiterLeaves, ActorNext
  <1>11. CASE UNCHANGED vars
    BY <1>11 DEF vars
  <1> QED
    BY <1>1, <1>2, <1>4, <1>5, <1>6, <1>7, <1>8, <1>9, <1>10, <1>11
       DEF Next, MessageThread, Waiters

-----------------------------------------------------------------------------
(* The types of what is sent.                                               *)

LEMMA MessageTypes ==
    ASSUME NEW type \in Types, NEW number \in Nat
    PROVE  /\ Message(type, number) \in Messages
           /\ Message(type, number).type = type
           /\ Message(type, number).number = number
           /\ ~ Message(type, number).solicited
  BY DEF Message, Messages, Shapes

\* Filling in what a type of message adds changes nothing else.
LEMMA FilledRes ==
    \A m \in Messages, res \in Nat :
        /\ [m EXCEPT !.res = res] \in Messages
        /\ [m EXCEPT !.res = res].type = m.type
        /\ [m EXCEPT !.res = res].number = m.number
        /\ [m EXCEPT !.res = res].res = res
  BY DEF Messages

\* A message with a blob's shape in it.
LEMMA FilledShape ==
    \A m \in Messages, shape \in Shapes :
        /\ [m EXCEPT !.shape = shape] \in Messages
        /\ [m EXCEPT !.shape = shape].type = m.type
        /\ [m EXCEPT !.shape = shape].number = m.number
  BY DEF Messages

\* A message with its mark of a solicited answer.
LEMMA FilledSolicited ==
    \A m \in Messages, yes \in BOOLEAN :
        /\ [m EXCEPT !.solicited = yes] \in Messages
        /\ [m EXCEPT !.solicited = yes].type = m.type
        /\ [m EXCEPT !.solicited = yes].number = m.number
        /\ [m EXCEPT !.solicited = yes].solicited = yes
  BY DEF Messages

\* No message is neither a request nor one for the engine.
LEMMA NoMessage ==
    /\ None.type = "none" /\ None.number = 0 /\ None \notin C2S /\ None \notin S2C
    /\ ~ IsRequest(None) /\ ~ ForEngine(None)
  BY DEF None, Message, C2S, S2C, ForEngine, IsRequest

\* What RelayEngine and the watcher send.
LEMMA Sendable ==
    ASSUME NEW number \in Nat, NEW res \in Nat
    PROVE  /\ Message("CreateContext", number) \in C2S
           /\ ~ IsRequest(Message("CreateContext", number))
           /\ Message("CreateContext", number).type = "CreateContext"
           /\ Message("SubmitCmd", number) \in C2S
           /\ ~ IsRequest(Message("SubmitCmd", number))
           /\ Message("SubmitCmd", number).type = "SubmitCmd"
           /\ [Message("UnrefResource", number) EXCEPT !.res = res] \in C2S
           /\ ~ IsRequest([Message("UnrefResource", number) EXCEPT !.res = res])
           /\ [Message("UnrefResource", number) EXCEPT !.res = res].type = "UnrefResource"
           /\ [Message("UnrefResource", number) EXCEPT !.res = res].res = res
           /\ [Message("BlobData", number) EXCEPT !.res = res] \in C2S
           /\ ~ IsRequest([Message("BlobData", number) EXCEPT !.res = res])
           /\ [Message("BlobData", number) EXCEPT !.res = res].type = "BlobData"
  <1>1. {"CreateContext", "SubmitCmd", "UnrefResource", "BlobData"} \subseteq Types
    BY DEF Types
  <1>2. \A m \in Messages :
           ForEngine(m) \/ m.type \in {"Hello", "BlobData"} => m \in C2S
    BY DEF C2S
  <1>3. \A type \in {"CreateContext", "SubmitCmd", "UnrefResource", "BlobData"} :
           /\ Message(type, number) \in Messages
           /\ Message(type, number).type = type
           /\ [Message(type, number) EXCEPT !.res = res] \in Messages
           /\ [Message(type, number) EXCEPT !.res = res].type = type
           /\ [Message(type, number) EXCEPT !.res = res].res = res
    BY <1>1, MessageTypes, FilledRes
  <1> QED
    BY <1>2, <1>3 DEF ForEngine, IsRequest

\* The two requests that are answered.
LEMMA RequestsSendable ==
    ASSUME NEW number \in Nat, NEW shape \in Shapes
    PROVE  /\ Message("GetCapset", number) \in C2S
           /\ IsRequest(Message("GetCapset", number))
           /\ Message("GetCapset", number).type = "GetCapset"
           /\ Message("GetCapset", number).number = number
           /\ [Message("CreateBlob", number) EXCEPT !.shape = shape] \in C2S
           /\ IsRequest([Message("CreateBlob", number) EXCEPT !.shape = shape])
           /\ [Message("CreateBlob", number) EXCEPT !.shape = shape].type = "CreateBlob"
           /\ [Message("CreateBlob", number) EXCEPT !.shape = shape].number = number
  <1>1. {"GetCapset", "CreateBlob"} \subseteq Types
    BY DEF Types
  <1>2. \A m \in Messages : ForEngine(m) => m \in C2S
    BY DEF C2S
  <1>3. \A type \in {"GetCapset", "CreateBlob"} :
           /\ Message(type, number) \in Messages
           /\ Message(type, number).type = type
           /\ Message(type, number).number = number
           /\ [Message(type, number) EXCEPT !.shape = shape] \in Messages
           /\ [Message(type, number) EXCEPT !.shape = shape].type = type
           /\ [Message(type, number) EXCEPT !.shape = shape].number = number
    BY <1>1, MessageTypes, FilledShape
  <1> QED
    BY <1>2, <1>3 DEF ForEngine, IsRequest

\* What S's message thread answers.
LEMMA Answerable ==
    ASSUME LinkTypes, NEW res \in Nat
    PROVE  /\ Error \in S2C /\ Error.type = "Error" /\ Error.number = smsg.number
           /\ IsAnswer(Error) <=> IsRequest(smsg)
           /\ Message("Capset", smsg.number) \in S2C
           /\ Message("Capset", smsg.number).type = "Capset"
           /\ Message("Capset", smsg.number).number = smsg.number
           /\ LET made == [Message("BlobCreated", smsg.number) EXCEPT !.res = res]
              IN /\ made \in S2C /\ made.type = "BlobCreated" /\ made.res = res
                 /\ made.number = smsg.number
  <1>1. smsg.number \in Nat
    BY NoMessage DEF LinkTypes, C2S, Messages
  <1>2. {"Error", "Capset", "BlobCreated"} \subseteq Types
    BY DEF Types
  <1>3. \A m \in Messages : m.type \in {"Error", "Capset", "BlobCreated"} => m \in S2C
    BY DEF S2C
  <1>4. MessageIsSolicited(smsg) \in BOOLEAN
    BY DEF MessageIsSolicited
  <1>5. \A type \in {"Error", "Capset", "BlobCreated"} :
           /\ Message(type, smsg.number) \in Messages
           /\ Message(type, smsg.number).type = type
           /\ Message(type, smsg.number).number = smsg.number
    BY <1>1, <1>2, MessageTypes
  <1>8. /\ Error \in S2C /\ Error.type = "Error" /\ Error.number = smsg.number
        /\ Error.solicited = MessageIsSolicited(smsg)
    BY <1>3, <1>4, <1>5, FilledSolicited DEF Error
  <1>9. IsAnswer(Error) <=> IsRequest(smsg)
    BY <1>8 DEF IsAnswer, IsRequest, MessageIsSolicited
  <1>10. LET made == [Message("BlobCreated", smsg.number) EXCEPT !.res = res]
         IN /\ made \in S2C /\ made.type = "BlobCreated" /\ made.res = res
            /\ made.number = smsg.number
    BY <1>3, <1>5, FilledRes
  <1> QED
    BY <1>3, <1>5, <1>8, <1>9, <1>10

\* Commands are numbered upwards.
LEMMA IssuedGrows ==
    ASSUME VtestTypes, VtestMoves
    PROVE  issued \in Nat /\ issued' \in Nat /\ issued <= issued'
  <1>1. issued \in Nat
    BY Greeting DEF VtestTypes, VtestTypeOK
  <1>2. issued' = issued \/ issued' = issued + 1
    <2>1. CASE UNCHANGED vtestVars
      BY <2>1 DEF vtestVars, mesaVars
    <2>2. CASE Mesa
      BY <2>2 DEF Mesa, Greet, AskBlob, AskUnref, AskSubmit, AskSync, ReadReply,
                  Exit, Say
    <2>3. CASE Server
      BY <2>3 DEF Server, ServeLocal, BeginCall, EndOfStream, mesaVars
    <2>4. CASE \E ok \in BOOLEAN, res \in Nat : FinishCall(ok, res)
      BY <2>4 DEF FinishCall, mesaVars
    <2> QED
      BY <2>1, <2>2, <2>3, <2>4 DEF VtestMoves
  <1> QED
    BY <1>1, <1>2

\* A served command carries a number already given, an id and a shape.
LEMMA CallsTheEngine ==
    ASSUME VtestTypes, vpc = "call"
    PROVE  /\ serving \in VtestCommands /\ serving.number \in Nat
           /\ serving.number \in 1 .. issued /\ serving.res \in Nat
           /\ serving.shape \in Shapes
  <1>1. serving \in VtestCommands /\ serving.number \in 1 .. issued
    BY DEF VtestTypes, VtestTypeOK
  <1> QED
    BY <1>1 DEF VtestCommands

\* The queue to S takes any message to S.
LEMMA SendTypes ==
    ASSUME LinkTypes, NEW m \in C2S
    PROVE  Append(c2s, m) \in Seq(C2S)
  BY DEF LinkTypes

\* Steps of RelayEngine that leave its own state alone, or forget a blob.
LEMMA LinkTypesOfCalls ==
    ASSUME LinkTypes, VtestTypes, issued' \in Nat, issued <= issued',
           CreateVenusContext \/ Submit \/ Unref
    PROVE  LinkTypes'
  <1>1. vpc = "call"
    BY DEF CreateVenusContext, Submit, Unref, Calls
  <1>2. /\ serving.number \in Nat /\ serving.res \in Nat /\ serving.shape \in Shapes
        /\ issued \in Nat
    BY <1>1, CallsTheEngine, Greeting DEF VtestTypes, VtestTypeOK
  <1>3. c2s' \in Seq(C2S)
    <2>1. \/ c2s' = c2s \/ c2s' = Append(c2s, Message("CreateContext", serving.number))
          \/ c2s' = Append(c2s, Message("SubmitCmd", serving.number))
          \/ c2s' = Append(c2s, [Message("UnrefResource", serving.number)
                                    EXCEPT !.res = serving.res])
      BY DEF CreateVenusContext, Submit, Unref, SendAndReturn, SendC2S
    <2>2. /\ Message("CreateContext", serving.number) \in C2S
          /\ Message("SubmitCmd", serving.number) \in C2S
          /\ [Message("UnrefResource", serving.number) EXCEPT !.res = serving.res]
                \in C2S
      BY <1>2, Sendable
    <2>3. c2s \in Seq(C2S)
      BY DEF LinkTypes
    <2> QED
      BY <2>1, <2>2, <2>3, SendTypes
  <1>4. DOMAIN cblobs' \subseteq Nat
    BY DEF CreateVenusContext, Submit, Unref, SendAndReturn, cVars, ForgetBlob,
           Without, LinkTypes
  <1>5. /\ UNCHANGED <<asked, pending, ringSlot, reader, replies, batch, link, s2c>>
        /\ UNCHANGED <<spc, smsg, sout>>
    BY DEF CreateVenusContext, Submit, Unref, SendAndReturn, cVars, sVars
  <1>6. pending' \in 0 .. issued'
    BY <1>2, <1>5 DEF LinkTypes
  <1> QED
    BY <1>3, <1>4, <1>5, <1>6 DEF LinkTypes

\* Requests keep the types of the link.
LEMMA LinkTypesOfRequests ==
    ASSUME LinkTypes, VtestTypes, issued' \in Nat, issued <= issued',
           VenusCapset \/ CreateBlobResource
    PROVE  LinkTypes'
  <1>1. vpc = "call"
    BY DEF VenusCapset, CreateBlobResource, Calls
  <1>2. /\ serving.number \in Nat /\ serving.res \in Nat /\ serving.shape \in Shapes
        /\ serving.number \in 1 .. issued /\ issued \in Nat
    BY <1>1, CallsTheEngine, Greeting DEF VtestTypes, VtestTypeOK
  <1> DEFINE capset == Message("GetCapset", serving.number)
  <1> DEFINE blob == [Message("CreateBlob", serving.number)
                         EXCEPT !.shape = serving.shape]
  <1>3. capset \in C2S /\ blob \in C2S
    BY <1>2, RequestsSendable
  <1>4. \/ UNCHANGED <<c2s, asked>>
        \/ c2s' = Append(c2s, capset) /\ asked' = capset
        \/ c2s' = Append(c2s, blob) /\ asked' = blob
    BY DEF VenusCapset, CreateBlobResource, Ask, SendC2S
  <1> HIDE DEF capset, blob
  <1>5. c2s' \in Seq(C2S) /\ asked' \in C2S \cup {None}
    <2>1. Append(c2s, capset) \in Seq(C2S) /\ Append(c2s, blob) \in Seq(C2S)
      BY <1>3, SendTypes
    <2> QED
      BY <1>3, <1>4, <2>1 DEF LinkTypes
  <1>6. pending' = pending \/ pending' = serving.number
    BY DEF VenusCapset, CreateBlobResource
  <1>7. pending' \in 0 .. issued'
    BY <1>2, <1>6 DEF LinkTypes
  <1>8. UNCHANGED <<cblobs, ringSlot, reader, replies, batch, link, s2c, spc, smsg, sout>>
    BY DEF VenusCapset, CreateBlobResource, sVars
  <1> QED
    BY <1>5, <1>7, <1>8 DEF LinkTypes

\* The first message of a queue to C, and what is left of it.
LEMMA NextAnswer ==
    ASSUME LinkTypes
    PROVE  /\ replies # << >> => /\ Head(replies) \in S2C /\ Head(replies).res \in Nat
                                 /\ Head(replies) = replies[1]
                                 /\ 1 \in 1 .. Len(replies)
                                 /\ Tail(replies) \in Seq(S2C)
           /\ s2c # << >> => /\ Head(s2c) \in S2C /\ Head(s2c).res \in Nat
                             /\ Head(s2c) = s2c[1] /\ 1 \in 1 .. Len(s2c)
                             /\ Tail(s2c) \in Seq(S2C)
  <1>1. replies \in Seq(S2C) /\ s2c \in Seq(S2C)
    BY DEF LinkTypes
  <1>2. \A m \in S2C : m.res \in Nat
    BY DEF S2C, Messages
  <1> QED
    BY <1>1, <1>2

\* So does what the reader and RelayEngine take off it.
LEMMA LinkTypesOfAnswers ==
    ASSUME LinkTypes, VtestTypes, issued' \in Nat, issued <= issued',
           ReceiveAnswer \/ NoAnswer \/ ReaderThread
    PROVE  LinkTypes'
  <1>1. issued \in Nat
    BY Greeting DEF VtestTypes, VtestTypeOK
  <1>2. CASE ReceiveAnswer
    <2>1. /\ replies # << >> /\ asked' = None /\ replies' = Tail(replies)
          /\ ringSlot' = ringSlot \/ ringSlot' = Head(replies).res
          /\ UNCHANGED <<pending, cblobs, reader, batch, link, c2s, s2c, spc, smsg, sout>>
      BY <1>2 DEF ReceiveAnswer, linkVars, sVars
    <2>2. replies' \in Seq(S2C) /\ ringSlot' \in Nat
      BY <2>1, NextAnswer DEF LinkTypes
    <2>3. pending' \in 0 .. issued'
      BY <1>1, <2>1 DEF LinkTypes
    <2> QED
      BY <2>1, <2>2, <2>3 DEF LinkTypes
  <1>3. CASE NoAnswer
    <2>1. /\ asked' = None
          /\ UNCHANGED <<pending, cblobs, ringSlot, reader, replies, batch, link, c2s, s2c,
                         spc, smsg, sout>>
      BY <1>3 DEF NoAnswer, linkVars, sVars
    <2>2. pending' \in 0 .. issued'
      BY <1>1, <2>1 DEF LinkTypes
    <2> QED
      BY <2>1, <2>2 DEF LinkTypes
  <1>4. CASE Reader
    <2>1. /\ s2c # << >> /\ s2c' = Tail(s2c)
          /\ CommitPendingBlob(Head(s2c))
          /\ replies' = replies \/ replies' = Append(replies, Head(s2c))
          /\ UNCHANGED <<asked, ringSlot, reader, batch, link, c2s, spc, smsg, sout>>
      BY <1>4 DEF Reader, sVars
    <2>2. s2c' \in Seq(S2C) /\ Head(s2c).res \in Nat
      BY <2>1, NextAnswer
    <2>3. replies' \in Seq(S2C)
      <3>1. replies \in Seq(S2C) /\ Head(s2c) \in S2C
        BY <2>1, NextAnswer DEF LinkTypes
      <3>2. Append(replies, Head(s2c)) \in Seq(S2C)
        BY <3>1
      <3> QED
        BY <2>1, <3>1, <3>2
    <2>4. pending' \in 0 .. issued' /\ DOMAIN cblobs' \subseteq Nat
      BY <1>1, <2>1, <2>2 DEF CommitPendingBlob, With, LinkTypes
    <2> QED
      BY <2>1, <2>2, <2>3, <2>4 DEF LinkTypes
  <1>5. CASE ReaderEnds
    <2>1. /\ reader' = "gone"
          /\ UNCHANGED <<asked, pending, cblobs, ringSlot, replies, batch, link, c2s, s2c,
                         spc, smsg, sout>>
      BY <1>5 DEF ReaderEnds, linkVars, sVars
    <2>2. pending' \in 0 .. issued'
      BY <1>1, <2>1 DEF LinkTypes
    <2> QED
      BY <2>1, <2>2 DEF LinkTypes
  <1> QED
    BY <1>2, <1>3, <1>4, <1>5 DEF ReaderThread

\* What is left of a queue is a queue.
LEMMA Prefix ==
    ASSUME NEW S, NEW q \in Seq(S), NEW n \in 0 .. Len(q)
    PROVE  /\ SubSeq(q, 1, n) \in Seq(S) /\ Len(SubSeq(q, 1, n)) = n
           /\ \A i \in 1 .. n : i \in 1 .. Len(q) /\ SubSeq(q, 1, n)[i] = q[i]
  OBVIOUS

\* So do the watcher's batch, the end of the link, and all who do not touch it.
LEMMA LinkTypesOfOthers ==
    ASSUME LinkTypes, VtestTypes, issued' \in Nat, issued <= issued',
           Watcher \/ LinkFails \/ CExits \/ NoEngine \/ MesaSteps \/ ServerSteps
             \/ Engine \/ Virgl \/ Waiters \/ UNCHANGED vars
    PROVE  LinkTypes'
  <1>1. issued \in Nat
    BY Greeting DEF VtestTypes, VtestTypeOK
  <1>2. CASE WatcherDiffs
    <2>1. /\ batch' \in DOMAIN cblobs
          /\ UNCHANGED <<asked, pending, cblobs, ringSlot, reader, replies, link, c2s, s2c,
                         spc, smsg, sout>>
      BY <1>2 DEF WatcherDiffs, linkVars, sVars
    <2>2. pending' \in 0 .. issued' /\ batch' \in Nat
      BY <1>1, <2>1 DEF LinkTypes
    <2> QED
      BY <2>1, <2>2 DEF LinkTypes
  <1>3. CASE WatcherShips
    <2>1. /\ batch' = 0
          /\ c2s' = c2s \/ c2s' = Append(c2s, [Message("BlobData", 0) EXCEPT !.res = batch])
          /\ UNCHANGED <<asked, pending, cblobs, ringSlot, reader, replies, link, s2c,
                         spc, smsg, sout>>
      BY <1>3 DEF WatcherShips, sVars
    <2>2. [Message("BlobData", 0) EXCEPT !.res = batch] \in C2S
      <3>1. batch \in Nat
        BY DEF LinkTypes
      <3> QED
        BY <3>1, Sendable
    <2>3. c2s' \in Seq(C2S)
      BY <2>1, <2>2, SendTypes DEF LinkTypes
    <2>4. pending' \in 0 .. issued'
      BY <1>1, <2>1 DEF LinkTypes
    <2> QED
      BY <2>1, <2>3, <2>4 DEF LinkTypes
  <1>4. CASE LinkFails \/ CExits \/ NoEngine
    <2>1. /\ link' = "down"
          /\ \E n \in 0 .. Len(c2s) : c2s' = SubSeq(c2s, 1, n)
          /\ \E n \in 0 .. Len(s2c) : s2c' = SubSeq(s2c, 1, n)
          /\ UNCHANGED <<asked, pending, cblobs, ringSlot, reader, replies, batch,
                         spc, smsg, sout>>
      BY <1>4 DEF LinkFails, CExits, NoEngine, cVars, sVars
    <2>2. c2s' \in Seq(C2S) /\ s2c' \in Seq(S2C)
      <3>1. c2s \in Seq(C2S) /\ s2c \in Seq(S2C)
        BY DEF LinkTypes
      <3> QED
        BY <2>1, <3>1, Prefix
    <2>3. pending' \in 0 .. issued'
      BY <1>1, <2>1 DEF LinkTypes
    <2> QED
      BY <2>1, <2>2, <2>3 DEF LinkTypes
  <1>5. CASE MesaSteps \/ ServerSteps \/ Engine \/ Virgl \/ Waiters \/ UNCHANGED vars
    <2>1. UNCHANGED <<cVars, linkVars, sVars>>
      BY <1>5 DEF MesaSteps, ServerSteps, Engine, Virgl, Waiters, WaiterAsks,
                  WaiterIsAnswered, WaiterLeaves, vars
    <2>2. UNCHANGED <<asked, pending, cblobs, ringSlot, reader, replies, batch, link, c2s,
                      s2c, spc, smsg, sout>>
      BY <2>1 DEF cVars, linkVars, sVars
    <2>3. pending' \in 0 .. issued'
      BY <1>1, <2>2 DEF LinkTypes
    <2> QED
      BY <2>2, <2>3 DEF LinkTypes
  <1> QED
    BY <1>2, <1>3, <1>4, <1>5 DEF Watcher

\* The answer of the engine that the message thread collects.
LEMMA EngineAnswer ==
    ASSUME ActorInv, answers[Serve] # << >>
    PROVE  /\ Head(answers[Serve]) = answers[Serve][1]
           /\ answers[Serve][1] \in Answer
           /\ answers[Serve][1].res \in Nat /\ answers[Serve][1].ok \in BOOLEAN
  <1>1. answers[Serve] \in Seq(Answer)
    BY SessionAssumption DEF ActorInv, ActorTypeOK
  <1>2. /\ Head(answers[Serve]) = answers[Serve][1]
        /\ answers[Serve][1] \in Answer
    BY <1>1
  <1> QED
    BY <1>2 DEF Answer

\* What Applied makes of the engine's answer, case by case.
AppliedRefused ==
    /\ ~ answers[Serve][1].ok
    /\ Answering(Error)

AppliedContext ==
    /\ answers[Serve][1].ok /\ smsg.type = "CreateContext"
    /\ sout' = None /\ spc' = "send"
    /\ UNCHANGED <<smsg, sblobs, exported, internal, rings>>

AppliedCapset ==
    /\ answers[Serve][1].ok /\ smsg.type = "GetCapset"
    /\ Answering(Message("Capset", smsg.number))

AppliedBlob ==
    /\ answers[Serve][1].ok /\ smsg.type = "CreateBlob"
    /\ Registered(answers[Serve][1].res)

AppliedUnmapped ==
    /\ answers[Serve][1].ok /\ smsg.type = "CreateBlob"
    /\ MapFailed(answers[Serve][1].res)

AppliedSubmit ==
    /\ answers[Serve][1].ok /\ smsg.type = "SubmitCmd"
    /\ Answering(None)

AppliedUnref ==
    /\ answers[Serve][1].ok /\ smsg.type = "UnrefResource"
    /\ Forgotten(smsg.res)

AppliedCases ==
    \/ AppliedRefused \/ AppliedContext \/ AppliedCapset \/ AppliedBlob
    \/ AppliedUnmapped \/ AppliedSubmit \/ AppliedUnref

\* try_apply goes on with an answer of the engine in hand, by the message's
\* kind, and touches nothing of C's.
LEMMA AppliedDoes ==
    ASSUME ActorInv, InPhase, Applied
    PROVE  /\ AppliedCases
           /\ spc = "engine" /\ answers[Serve] # << >>
           /\ UNCHANGED <<vtestVars, cVars, linkVars>>
  <1>1. /\ spc = "engine" /\ answers[Serve] # << >> /\ ForEngine(smsg)
        /\ UNCHANGED <<vtestVars, cVars, linkVars>>
    BY DEF Applied, InPhase
  <1>2. Head(answers[Serve]) = answers[Serve][1]
    BY <1>1, EngineAnswer
  <1>3. CASE ~ answers[Serve][1].ok
    BY <1>1, <1>2, <1>3 DEF Applied, AppliedCases, AppliedRefused
  <1>4. CASE answers[Serve][1].ok
    <2>1. CASE smsg.type = "CreateContext"
      BY <1>1, <1>2, <1>4, <2>1 DEF Applied, AppliedCases, AppliedContext
    <2>2. CASE smsg.type = "GetCapset"
      BY <1>1, <1>2, <1>4, <2>2 DEF Applied, AppliedCases, AppliedCapset
    <2>3. CASE smsg.type = "CreateBlob"
      BY <1>1, <1>2, <1>4, <2>3 DEF Applied, AppliedCases, AppliedBlob, AppliedUnmapped
    <2>4. CASE smsg.type = "SubmitCmd"
      BY <1>1, <1>2, <1>4, <2>4 DEF Applied, AppliedCases, AppliedSubmit
    <2>5. CASE smsg.type = "UnrefResource"
      BY <1>1, <1>2, <1>4, <2>5 DEF Applied, AppliedCases, AppliedUnref
    <2> QED
      BY <1>1, <2>1, <2>2, <2>3, <2>4, <2>5 DEF ForEngine, IsRequest
  <1> QED
    BY <1>1, <1>3, <1>4

\* So do S's message thread and its answers.
LEMMA LinkTypesOfMessages ==
    ASSUME LinkTypes, VtestTypes, ActorInv, InPhase, issued' \in Nat,
           issued <= issued', MessageThread
    PROVE  LinkTypes'
  <1>1. issued \in Nat
    BY Greeting DEF VtestTypes, VtestTypeOK
  <1>2. /\ None \in S2C \cup {None} /\ None \in C2S \cup {None}
        /\ c2s \in Seq(C2S) /\ s2c \in Seq(S2C) /\ smsg \in C2S \cup {None}
        /\ sout \in S2C \cup {None}
    BY DEF LinkTypes
  <1>3. ASSUME UNCHANGED cVars, link' = link, c2s' \in Seq(C2S), s2c' \in Seq(S2C),
               smsg' \in C2S \cup {None}, sout' \in S2C \cup {None},
               spc' \in {"recv", "engine", "undo", "undoing", "send", "over"}
        PROVE  LinkTypes'
    <2>1. UNCHANGED <<asked, pending, cblobs, ringSlot, reader, replies, batch>>
      BY <1>3 DEF cVars
    <2>2. pending' \in 0 .. issued'
      BY <1>1, <2>1 DEF LinkTypes
    <2> QED
      BY <1>3, <2>1, <2>2 DEF LinkTypes
  <1>4. CASE Receive
    <2>1. /\ c2s # << >> /\ c2s' = Tail(c2s) /\ smsg' = Head(c2s)
          /\ UNCHANGED <<cVars, link, s2c>> /\ spc' \in {"send", "engine"}
          /\ sout' = Error' \/ sout' = None \/ sout' = sout
      BY <1>4 DEF Receive
    <2>2. c2s' \in Seq(C2S) /\ smsg' \in C2S
      BY <2>1, NextMessage
    <2>3. sout' \in S2C \cup {None}
      <3>1. smsg'.number \in Nat
        BY <2>2 DEF C2S, Messages
      <3>2. "Error" \in Types /\ MessageIsSolicited(smsg)' \in BOOLEAN
        BY DEF Types, MessageIsSolicited
      <3>3. Error' \in Messages /\ Error'.type = "Error"
        BY <3>1, <3>2, MessageTypes, FilledSolicited DEF Error
      <3> QED
        BY <1>2, <2>1, <3>3 DEF S2C
    <2> QED
      BY <1>2, <1>3, <2>1, <2>2, <2>3
  <1>5. CASE Applied
    <2>1. /\ AppliedCases /\ answers[Serve] # << >>
          /\ UNCHANGED <<cVars, link, c2s, s2c>>
      BY <1>5, AppliedDoes DEF linkVars
    <2>2. answers[Serve][1].res \in Nat
      BY <2>1, EngineAnswer
    <2>3. /\ sout' \in S2C \cup {None} /\ smsg' \in C2S \cup {None}
          /\ spc' \in {"send", "undo"}
      <3>1. CASE AppliedRefused
        BY <1>2, <3>1, Answerable DEF AppliedRefused, Answering
      <3>2. CASE AppliedContext
        BY <1>2, <3>2 DEF AppliedContext
      <3>3. CASE AppliedCapset
        BY <1>2, <2>2, <3>3, Answerable DEF AppliedCapset, Answering
      <3>4. CASE AppliedBlob
        BY <1>2, <2>2, <3>4, Answerable DEF AppliedBlob, Registered
      <3>5. CASE AppliedUnmapped
        <4>1. /\ smsg' = [smsg EXCEPT !.res = answers[Serve][1].res]
              /\ smsg.type = "CreateBlob" /\ sout' = sout /\ spc' = "undo"
          BY <3>5 DEF AppliedUnmapped, MapFailed
        <4>2. smsg \in Messages
          BY <1>2, <4>1, NoMessage DEF C2S
        <4>3. smsg' \in Messages /\ smsg'.type = "CreateBlob"
          BY <2>2, <4>1, <4>2, FilledRes
        <4> QED
          BY <1>2, <4>1, <4>3 DEF C2S, ForEngine, IsRequest
      <3>6. CASE AppliedSubmit
        BY <1>2, <3>6 DEF AppliedSubmit, Answering
      <3>7. CASE AppliedUnref
        BY <1>2, <3>7 DEF AppliedUnref, Forgotten
      <3> QED
        BY <2>1, <3>1, <3>2, <3>3, <3>4, <3>5, <3>6, <3>7 DEF AppliedCases
    <2> QED
      BY <1>2, <1>3, <2>1, <2>3
  <1>6. CASE Undo
    BY <1>2, <1>3, <1>6 DEF Undo, linkVars
  <1>7. CASE Undone
    <2>1. /\ sout' = Error /\ smsg' = smsg /\ spc' = "send"
          /\ UNCHANGED <<cVars, link, c2s, s2c>>
      BY <1>7 DEF Undone, Answering, linkVars
    <2>2. 0 \in Nat
      OBVIOUS
    <2>3. sout' \in S2C
      BY <2>1, <2>2, Answerable
    <2> QED
      BY <1>2, <1>3, <2>1, <2>3
  <1>8. CASE SendAnswer
    <2>1. /\ smsg' = None /\ sout' = None /\ UNCHANGED <<cVars, link, c2s>>
          /\ spc' \in {"recv", "over"}
          /\ s2c' = s2c \/ (sout # None /\ s2c' = Append(s2c, sout))
      BY <1>8 DEF SendAnswer
    <2>2. s2c' \in Seq(S2C)
      <3>1. sout \in S2C => Append(s2c, sout) \in Seq(S2C)
        BY <1>2
      <3> QED
        BY <1>2, <2>1, <3>1
    <2> QED
      BY <1>2, <1>3, <2>1, <2>2
  <1>9. CASE ServeEnds
    BY <1>2, <1>3, <1>9 DEF ServeEnds, linkVars
  <1> QED
    BY <1>4, <1>5, <1>6, <1>7, <1>8, <1>9 DEF MessageThread

\* Every step keeps the types of the link and of the state of both its ends.
LEMMA LinkTypesKept ==
    ASSUME LinkTypes, VtestTypes, ActorInv, InPhase, [Next]_vars
    PROVE  LinkTypes'
  <1>1. issued' \in Nat /\ issued <= issued'
    BY VtestStep, IssuedGrows
  <1> QED
    BY <1>1, LinkTypesOfCalls, LinkTypesOfRequests, LinkTypesOfAnswers,
       LinkTypesOfOthers, LinkTypesOfMessages DEF Next, VtestThread

-----------------------------------------------------------------------------
(* One request in flight.                                                   *)

Flight == OneInFlight /\ Matching /\ SlotIsForIt /\ ReaderGone

\* The queues between the machines are sequences.
LEMMA Queues ==
    ASSUME LinkTypes
    PROVE  /\ c2s \in Seq(C2S) /\ Len(c2s) \in Nat
           /\ s2c \in Seq(S2C) /\ Len(s2c) \in Nat
           /\ replies \in Seq(S2C) /\ Len(replies) \in Nat
           /\ replies = << >> <=> Len(replies) = 0
           /\ s2c = << >> <=> Len(s2c) = 0
           /\ c2s = << >> <=> Len(c2s) = 0
  BY DEF LinkTypes

\* While C waits for nothing, nothing is in flight.
LEMMA NothingAsked ==
    ASSUME LinkTypes, Flight, asked = None
    PROVE  /\ replies = << >> /\ ~ OnItsWayBack
           /\ link = "up" => ~ OnItsWay /\ ~ InHand
  <1>1. ~ IsRequest(asked) /\ asked.type = "none"
    BY NoMessage
  <1>2. \A m : ~ IsAnswerTo(m, asked)
    BY <1>1 DEF IsAnswerTo
  <1>3. ~ OnItsWayBack
    BY <1>2 DEF Flight, Matching, OnItsWayBack
  <1>4. replies = << >>
    <2>1. Len(replies) = 0
      BY <1>2, Queues DEF Flight, Matching
    <2> QED
      BY <2>1, Queues
  <1>5. link = "up" => ~ OnItsWay
    BY <1>1 DEF Flight, Matching, OnItsWay
  <1>6. link = "up" => ~ InHand
    BY <1>1 DEF Flight, Matching, InHand, IsRequest
  <1> QED
    BY <1>3, <1>4, <1>5, <1>6

\* Something is sent to S that it will not answer, or nothing is.
LEMMA FlightOfSends ==
    ASSUME LinkTypes, Flight, UNCHANGED <<s2c, replies, smsg, asked, pending, link, reader>>,
           asked # None => vpc' = vpc /\ serving' = serving,
           NEW m, ~ IsRequest(m), c2s' = c2s \/ c2s' = Append(c2s, m)
    PROVE  Flight'
  <1>1. /\ \A i \in 1 .. Len(c2s') : IsRequest(c2s'[i])
              => i \in 1 .. Len(c2s) /\ c2s'[i] = c2s[i]
    <2>1. CASE c2s' = c2s
      BY <2>1
    <2>2. CASE c2s' = Append(c2s, m)
      <3>1. /\ Len(c2s') = Len(c2s) + 1 /\ c2s'[Len(c2s) + 1] = m
            /\ \A i \in 1 .. Len(c2s) : c2s'[i] = c2s[i]
        BY <2>2, Queues
      <3> QED
        BY <3>1, Queues
    <2> QED
      BY <2>1, <2>2
  <1>2. OneInFlight'
    BY <1>1 DEF Flight, OneInFlight, OnItsWay, InHand, OnItsWayBack
  <1>3. Matching'
    BY <1>1 DEF Flight, Matching, InHand
  <1> QED
    BY <1>2, <1>3 DEF Flight, SlotIsForIt, ReaderGone

\* Calls without an answer put no request in flight.
LEMMA FlightOfCalls ==
    ASSUME LinkTypes, VtestTypes, Flight, CreateVenusContext \/ Submit \/ Unref
    PROVE  Flight'
  <1>1. /\ asked = None /\ vpc = "call"
        /\ UNCHANGED <<s2c, replies, smsg, asked, pending, link, reader>>
    BY DEF CreateVenusContext, Submit, Unref, SendAndReturn, Calls, cVars, sVars
  <1>2. serving.number \in Nat /\ serving.res \in Nat
    BY <1>1, CallsTheEngine
  <1>3. \E m : ~ IsRequest(m) /\ (c2s' = c2s \/ c2s' = Append(c2s, m))
    <2>1. CASE CreateVenusContext
      <3>1. ~ IsRequest(Message("CreateContext", serving.number))
        BY <1>2, Sendable
      <3> QED
        BY <2>1, <3>1 DEF CreateVenusContext, SendAndReturn, SendC2S
    <2>2. CASE Submit
      <3>1. ~ IsRequest(Message("SubmitCmd", serving.number))
        BY <1>2, Sendable
      <3> QED
        BY <2>2, <3>1 DEF Submit, SendAndReturn, SendC2S
    <2>3. CASE Unref
      <3>1. ~ IsRequest([Message("UnrefResource", serving.number)
                            EXCEPT !.res = serving.res])
        BY <1>2, Sendable
      <3> QED
        BY <2>3, <3>1 DEF Unref, SendC2S
    <2> QED
      BY <2>1, <2>2, <2>3
  <1> QED
    BY <1>1, <1>3, FlightOfSends

\* A request goes out when nothing else is in flight, and is the one awaited.
LEMMA FlightOfAsk ==
    ASSUME LinkTypes, Flight, asked = None, link = "up", vpc = "call",
           NEW m \in C2S, IsRequest(m), c2s' = Append(c2s, m), asked' = m,
           m.number = serving.number,
           serving.kind = IF m.type = "GetCapset" THEN "GetCapset"
                          ELSE "ResourceCreateBlob",
           m.type = "CreateBlob" => pending' = m.number,
           UNCHANGED <<s2c, replies, smsg, link, reader, vpc, serving>>
    PROVE  Flight'
  <1>1. /\ replies = << >> /\ ~ OnItsWayBack /\ ~ OnItsWay /\ ~ InHand
    BY NothingAsked
  <1>2. \A i \in 1 .. Len(c2s') : IsRequest(c2s'[i]) => i = Len(c2s) + 1 /\ c2s'[i] = m
    <2>1. /\ Len(c2s') = Len(c2s) + 1 /\ c2s'[Len(c2s) + 1] = m
          /\ \A i \in 1 .. Len(c2s) : c2s'[i] = c2s[i]
      BY Queues
    <2> QED
      BY <1>1, <2>1, Queues DEF OnItsWay
  <1>3. OneInFlight'
    BY <1>1, <1>2 DEF Flight, OneInFlight, OnItsWay, InHand, OnItsWayBack
  <1>4. m # None
    BY NoMessage
  <1>5. Matching'
    BY <1>1, <1>2, <1>4, Queues DEF Flight, Matching, InHand, OnItsWayBack
  <1> QED
    BY <1>3, <1>5 DEF Flight, SlotIsForIt, ReaderGone

\* The two calls that ask.
LEMMA FlightOfRequests ==
    ASSUME LinkTypes, VtestTypes, Flight, VenusCapset \/ CreateBlobResource
    PROVE  Flight'
  <1>1. /\ asked = None /\ vpc = "call"
        /\ UNCHANGED <<s2c, replies, smsg, link, reader>>
    BY DEF VenusCapset, CreateBlobResource, Calls, sVars
  <1>2. /\ serving.number \in Nat /\ serving.shape \in Shapes
    BY <1>1, CallsTheEngine
  <1>3. CASE UNCHANGED <<c2s, asked>>
    <2>1. ~ IsRequest(None) /\ None.type = "none"
      BY NoMessage
    <2>2. OneInFlight' /\ ReaderGone'
      BY <1>1, <1>3 DEF Flight, OneInFlight, OnItsWay, InHand, OnItsWayBack, ReaderGone
    <2>3. Matching' /\ SlotIsForIt'
      BY <1>1, <1>3, <2>1 DEF Flight, Matching, InHand, SlotIsForIt
    <2> QED
      BY <2>2, <2>3 DEF Flight
  <1>4. CASE VenusCapset /\ ~ UNCHANGED <<c2s, asked>>
    <2> DEFINE m == Message("GetCapset", serving.number)
    <2>1. /\ m \in C2S /\ IsRequest(m) /\ m.number = serving.number
          /\ m.type = "GetCapset"
      BY <1>2, RequestsSendable
    <2>2. /\ link = "up" /\ c2s' = Append(c2s, m) /\ asked' = m /\ UNCHANGED vtestVars
          /\ serving.kind = "GetCapset"
      BY <1>4 DEF VenusCapset, Ask, SendC2S, Calls
    <2>3. UNCHANGED <<vpc, serving>>
      BY <2>2 DEF vtestVars, serverVars
    <2> HIDE DEF m
    <2> QED
      BY <1>1, <2>1, <2>2, <2>3, FlightOfAsk
  <1>5. CASE CreateBlobResource /\ ~ UNCHANGED <<c2s, asked>>
    <2> DEFINE m == [Message("CreateBlob", serving.number)
                        EXCEPT !.shape = serving.shape]
    <2>1. /\ m \in C2S /\ IsRequest(m) /\ m.number = serving.number
          /\ m.type = "CreateBlob"
      BY <1>2, RequestsSendable
    <2>2. /\ link = "up" /\ c2s' = Append(c2s, m) /\ asked' = m /\ UNCHANGED vtestVars
          /\ serving.kind = "ResourceCreateBlob" /\ pending' = serving.number
      BY <1>5 DEF CreateBlobResource, Ask, SendC2S, Calls
    <2>3. UNCHANGED <<vpc, serving>>
      BY <2>2 DEF vtestVars, serverVars
    <2> HIDE DEF m
    <2> QED
      BY <1>1, <2>1, <2>2, <2>3, FlightOfAsk
  <1> QED
    BY <1>3, <1>4, <1>5

\* RelayEngine takes the answer, or learns that there is none.
LEMMA FlightOfAnswers ==
    ASSUME LinkTypes, Flight, ReceiveAnswer \/ NoAnswer
    PROVE  Flight'
  <1>1. None.type = "none" /\ ~ IsRequest(None)
    BY NoMessage
  <1>2. CASE ReceiveAnswer
    <2>1. /\ replies # << >> /\ replies' = Tail(replies) /\ asked' = None
          /\ UNCHANGED <<pending, reader, link, c2s, s2c, smsg>>
      BY <1>2 DEF ReceiveAnswer, linkVars, sVars
    <2>2. ~ OnItsWay /\ ~ InHand /\ ~ OnItsWayBack
      BY <2>1 DEF Flight, OneInFlight
    <2>3. replies' = << >> /\ Len(replies') = 0
      <3>1. Len(replies) = 1
        <4>1. Len(replies) <= 1
          BY DEF Flight, OneInFlight
        <4>2. Len(replies) # 0 /\ Len(replies) \in Nat
          BY <2>1, Queues
        <4> QED
          BY <4>1, <4>2
      <3>2. replies \in Seq(S2C)
        BY Queues
      <3>3. Tail(replies) \in Seq(S2C) /\ Len(Tail(replies)) = 0
        BY <3>1, <3>2
      <3> QED
        BY <2>1, <3>3
    <2>4. OneInFlight'
      BY <2>1, <2>2, <2>3 DEF Flight, OneInFlight, OnItsWay, InHand, OnItsWayBack
    <2>5. Matching'
      <3>1. /\ \A i \in 1 .. Len(c2s') : ~ IsRequest(c2s'[i])
            /\ \A i \in 1 .. Len(s2c') : ~ IsAnswer(s2c'[i])
            /\ ~ InHand'
        BY <2>1, <2>2 DEF OnItsWay, InHand, OnItsWayBack
      <3>2. \A i \in 1 .. Len(replies') : FALSE
        BY <2>3
      <3> QED
        BY <2>1, <3>1, <3>2 DEF Matching
    <2> QED
      BY <1>1, <2>1, <2>4, <2>5 DEF Flight, SlotIsForIt, ReaderGone
  <1>3. CASE NoAnswer
    <2>1. /\ replies = << >> /\ reader = "gone" /\ asked' = None
          /\ UNCHANGED <<pending, reader, replies, link, c2s, s2c, smsg>>
      BY <1>3 DEF NoAnswer, linkVars, sVars
    <2>2. link = "down" /\ s2c = << >> /\ Len(s2c) = 0 /\ Len(replies) = 0
      BY <2>1, Queues DEF Flight, ReaderGone
    <2>3. OneInFlight'
      BY <2>1 DEF Flight, OneInFlight, OnItsWay, InHand, OnItsWayBack
    <2>4. Matching'
      BY <1>1, <2>1, <2>2 DEF Matching
    <2> QED
      BY <1>1, <2>1, <2>3, <2>4 DEF Flight, SlotIsForIt, ReaderGone
  <1> QED
    BY <1>2, <1>3

\* The reader moves an answer from the link to the channel, its blob from the
\* slot to the table first.
LEMMA FlightOfReader ==
    ASSUME LinkTypes, Flight, ReaderThread
    PROVE  Flight'
  <1>1. CASE Reader
    <2> DEFINE m == Head(s2c)
    <2>1. /\ s2c # << >> /\ s2c' = Tail(s2c) /\ CommitPendingBlob(m)
          /\ replies' = IF IsAnswer(m) THEN Append(replies, m) ELSE replies
          /\ reader = "up" /\ UNCHANGED <<asked, reader, link, c2s, smsg, vpc, serving>>
      BY <1>1 DEF Reader, sVars, vtestVars, serverVars
    <2>2. /\ m = s2c[1] /\ 1 \in 1 .. Len(s2c) /\ m \in S2C
          /\ Len(s2c') = Len(s2c) - 1
          /\ \A i \in 1 .. Len(s2c') : i + 1 \in 1 .. Len(s2c) /\ s2c'[i] = s2c[i + 1]
      BY <2>1, Queues
    <2> HIDE DEF m
    <2>3. \A i, j \in 1 .. Len(s2c') : IsAnswer(s2c'[i]) /\ IsAnswer(s2c'[j]) => i = j
      <3> SUFFICES ASSUME NEW i \in 1 .. Len(s2c'), NEW j \in 1 .. Len(s2c'),
                          IsAnswer(s2c'[i]), IsAnswer(s2c'[j])
                   PROVE  i = j
        OBVIOUS
      <3>1. i + 1 = j + 1
        BY <2>2 DEF Flight, OneInFlight
      <3> QED
        BY <2>2, <3>1, Queues
    <2>4. OnItsWayBack' => OnItsWayBack
      BY <2>2 DEF OnItsWayBack
    <2>5. \A i \in 1 .. Len(s2c') : IsAnswer(s2c'[i]) => IsAnswerTo(s2c'[i], asked)
      BY <2>2 DEF Flight, Matching
    <2>6. CASE ~ IsAnswer(m)
      <3>1. m.type # "BlobCreated"
        BY <2>6 DEF IsAnswer
      <3>2. UNCHANGED <<replies, pending>>
        BY <2>1, <2>6, <3>1 DEF CommitPendingBlob
      <3>3. OneInFlight'
        BY <2>1, <2>3, <2>4, <3>2 DEF Flight, OneInFlight, OnItsWay, InHand
      <3>4. Matching'
        BY <2>1, <2>5, <3>2 DEF Flight, Matching, InHand
      <3> QED
        BY <2>1, <3>2, <3>3, <3>4 DEF Flight, SlotIsForIt, ReaderGone
    <2>7. CASE IsAnswer(m)
      <3>1. OnItsWayBack
        BY <2>2, <2>7 DEF OnItsWayBack
      <3>2. replies = << >> /\ ~ OnItsWay /\ ~ InHand
        BY <3>1 DEF Flight, OneInFlight
      <3>3. /\ replies' = Append(replies, m) /\ Len(replies') = 1 /\ replies'[1] = m
            /\ replies' # << >>
        BY <2>1, <2>7, <3>2
      <3>4. ~ OnItsWayBack'
        <4> SUFFICES ASSUME NEW i \in 1 .. Len(s2c'), IsAnswer(s2c'[i]) PROVE FALSE
          BY DEF OnItsWayBack
        <4>1. i + 1 = 1
          BY <2>2, <2>7 DEF Flight, OneInFlight
        <4> QED
          BY <4>1, Queues
      <3>5. IsAnswerTo(m, asked)
        BY <2>2, <2>7 DEF Flight, Matching
      <3>6. OneInFlight'
        BY <2>1, <2>3, <3>2, <3>3, <3>4 DEF Flight, OneInFlight, OnItsWay, InHand
      <3>7. Matching'
        BY <2>1, <2>5, <3>2, <3>3, <3>5 DEF Flight, Matching, InHand
      <3> QED
        BY <2>1, <3>3, <3>6, <3>7 DEF Flight, SlotIsForIt, ReaderGone
    <2> QED
      BY <2>6, <2>7
  <1>2. CASE ReaderEnds
    <2>1. /\ link = "down" /\ s2c = << >>
          /\ UNCHANGED <<asked, pending, replies, link, c2s, s2c, smsg, vpc, serving>>
      BY <1>2 DEF ReaderEnds, linkVars, sVars, vtestVars, serverVars
    <2> QED
      BY <2>1 DEF Flight, OneInFlight, OnItsWay, InHand, OnItsWayBack, Matching,
                  SlotIsForIt, ReaderGone
  <1> QED
    BY <1>1, <1>2 DEF ReaderThread

\* A link that fails takes requests and answers with it.
LEMMA FlightOfLink ==
    ASSUME LinkTypes, Flight, LinkFails \/ CExits \/ NoEngine
    PROVE  Flight'
  <1>1. /\ link' = "down"
        /\ UNCHANGED <<asked, pending, replies, reader, smsg, vpc, serving>>
    BY DEF LinkFails, CExits, NoEngine, cVars, sVars, vtestVars, serverVars
  <1>2. /\ \A i \in 1 .. Len(c2s') : i \in 1 .. Len(c2s) /\ c2s'[i] = c2s[i]
        /\ \A i \in 1 .. Len(s2c') : i \in 1 .. Len(s2c) /\ s2c'[i] = s2c[i]
        /\ s2c = << >> => s2c' = << >>
    <2>1. PICK n \in 0 .. Len(c2s) : c2s' = SubSeq(c2s, 1, n)
      BY DEF LinkFails, CExits, NoEngine
    <2>2. PICK k \in 0 .. Len(s2c) : s2c' = SubSeq(s2c, 1, k)
      BY DEF LinkFails, CExits, NoEngine
    <2>3. \A i \in 1 .. Len(c2s') : i \in 1 .. Len(c2s) /\ c2s'[i] = c2s[i]
      BY <2>1, Queues, Prefix
    <2>4. /\ s2c' \in Seq(S2C) /\ Len(s2c') <= Len(s2c)
          /\ \A i \in 1 .. Len(s2c') : i \in 1 .. Len(s2c) /\ s2c'[i] = s2c[i]
      BY <2>2, Queues, Prefix
    <2>5. s2c = << >> => s2c' = << >>
      BY <2>4, Queues
    <2> QED
      BY <2>3, <2>4, <2>5
  <1>3. OneInFlight'
    BY <1>1, <1>2 DEF Flight, OneInFlight, OnItsWay, InHand, OnItsWayBack
  <1>4. Matching'
    BY <1>1, <1>2 DEF Flight, Matching
  <1> QED
    BY <1>1, <1>2, <1>3, <1>4 DEF Flight, SlotIsForIt, ReaderGone

\* S takes the request in hand and sends one answer to it.
LEMMA FlightOfMessages ==
    ASSUME LinkTypes, VtestTypes, ActorInv, InPhase, Flight, MessageThread
    PROVE  Flight'
  <1>1. None.type = "none" /\ ~ IsRequest(None)
    BY NoMessage
  <1>2. CASE Receive
    <2>1. /\ spc = "recv" /\ c2s # << >> /\ c2s' = Tail(c2s) /\ smsg' = Head(c2s)
          /\ UNCHANGED <<asked, pending, replies, reader, link, s2c, vpc, serving>>
      BY <1>2 DEF Receive, cVars, vtestVars, serverVars
    <2>2. ~ InHand
      BY <1>1, <2>1 DEF InPhase, InHand
    <2>3. /\ smsg' = c2s[1] /\ 1 \in 1 .. Len(c2s) /\ Len(c2s') = Len(c2s) - 1
          /\ \A i \in 1 .. Len(c2s') : i + 1 \in 1 .. Len(c2s) /\ c2s'[i] = c2s[i + 1]
      BY <2>1, Queues
    <2>4. \A i, j \in 1 .. Len(c2s') : IsRequest(c2s'[i]) /\ IsRequest(c2s'[j]) => i = j
      <3> SUFFICES ASSUME NEW i \in 1 .. Len(c2s'), NEW j \in 1 .. Len(c2s'),
                          IsRequest(c2s'[i]), IsRequest(c2s'[j])
                   PROVE  i = j
        OBVIOUS
      <3>1. i + 1 = j + 1
        BY <2>3 DEF Flight, OneInFlight
      <3> QED
        BY <2>3, <3>1, Queues
    <2>5. OnItsWay' => OnItsWay
      BY <2>3 DEF OnItsWay
    <2>6. InHand' => OnItsWay /\ ~ OnItsWay'
      <3> SUFFICES ASSUME InHand' PROVE OnItsWay /\ ~ OnItsWay'
        OBVIOUS
      <3>1. IsRequest(c2s[1]) /\ OnItsWay
        BY <2>3 DEF InHand, OnItsWay
      <3>2. ASSUME NEW i \in 1 .. Len(c2s'), IsRequest(c2s'[i]) PROVE FALSE
        <4>1. i + 1 = 1
          BY <2>3, <3>1, <3>2 DEF Flight, OneInFlight
        <4> QED
          BY <4>1, Queues
      <3> QED
        BY <3>1, <3>2 DEF OnItsWay
    <2>7. OneInFlight'
      BY <2>1, <2>4, <2>5, <2>6 DEF Flight, OneInFlight, OnItsWayBack
    <2>8. link = "up" /\ InHand' => asked.type = smsg'.type /\ asked.number = smsg'.number
      BY <2>3 DEF Flight, Matching, InHand
    <2>9. link = "up" => \A i \in 1 .. Len(c2s') : IsRequest(c2s'[i]) => c2s'[i] = asked
      BY <2>3 DEF Flight, Matching
    <2>10. Matching'
      BY <2>1, <2>8, <2>9 DEF Flight, Matching
    <2> QED
      BY <2>1, <2>7, <2>10 DEF Flight, SlotIsForIt, ReaderGone
  <1>3. ASSUME smsg'.type = smsg.type, smsg'.number = smsg.number,
               UNCHANGED <<asked, pending, replies, reader, link, c2s, s2c, vpc, serving>>
        PROVE  Flight'
    BY <1>3 DEF Flight, OneInFlight, OnItsWay, InHand, OnItsWayBack, IsRequest,
                Matching, SlotIsForIt, ReaderGone
  <1>4. CASE Applied
    <2>1. /\ AppliedCases /\ answers[Serve] # << >>
          /\ UNCHANGED <<asked, pending, replies, reader, link, c2s, s2c, vpc, serving>>
      BY <1>4, AppliedDoes DEF linkVars, cVars, vtestVars, serverVars
    <2>2. answers[Serve][1].res \in Nat
      BY <2>1, EngineAnswer
    <2>3. smsg' = smsg \/ AppliedUnmapped
      BY <2>1 DEF AppliedCases, AppliedRefused, AppliedContext, AppliedCapset,
                  AppliedBlob, AppliedSubmit, AppliedUnref, Answering, Registered,
                  Forgotten
    <2>4. AppliedUnmapped => smsg'.type = smsg.type /\ smsg'.number = smsg.number
      <3> SUFFICES ASSUME AppliedUnmapped
                   PROVE  smsg'.type = smsg.type /\ smsg'.number = smsg.number
        OBVIOUS
      <3>1. /\ smsg' = [smsg EXCEPT !.res = answers[Serve][1].res]
            /\ smsg.type = "CreateBlob"
        BY DEF AppliedUnmapped, MapFailed
      <3>2. smsg \in Messages
        BY <3>1, NoMessage DEF LinkTypes, C2S
      <3> QED
        BY <2>2, <3>1, <3>2, FilledRes
    <2> QED
      BY <1>3, <2>1, <2>3, <2>4
  <1>5. CASE Undo \/ Undone \/ ServeEnds
    <2>1. UNCHANGED <<smsg, asked, pending, replies, reader, link, c2s, s2c, vpc, serving>>
      BY <1>5 DEF Undo, Undone, ServeEnds, Answering, linkVars, cVars, vtestVars,
                  serverVars
    <2> QED
      BY <1>3, <2>1
  <1>6. CASE SendAnswer
    <2>1. /\ smsg' = None
          /\ UNCHANGED <<asked, pending, replies, reader, link, c2s, vpc, serving>>
      BY <1>6 DEF SendAnswer, cVars, vtestVars, serverVars
    <2>2. ~ InHand'
      BY <1>1, <2>1 DEF InHand
    <2>3. CASE s2c' = s2c
      <3>1. OneInFlight'
        BY <2>1, <2>2, <2>3 DEF Flight, OneInFlight, OnItsWay, OnItsWayBack
      <3>2. Matching'
        BY <2>1, <2>2, <2>3 DEF Flight, Matching
      <3> QED
        BY <2>1, <2>3, <3>1, <3>2 DEF Flight, SlotIsForIt, ReaderGone
    <2>4. CASE s2c' # s2c
      <3>1. link = "up" /\ sout # None /\ s2c' = Append(s2c, sout)
        BY <1>6, <2>4 DEF SendAnswer, LinkTypes
      <3>2. /\ Len(s2c') = Len(s2c) + 1 /\ s2c'[Len(s2c) + 1] = sout
            /\ \A i \in 1 .. Len(s2c) : s2c'[i] = s2c[i]
        BY <3>1, Queues
      <3>3. ReaderGone'
        BY <2>1, <3>1 DEF Flight, ReaderGone
      <3>4. /\ sout.number = smsg.number
            /\ IsAnswer(sout) => InHand
            /\ sout.type = "BlobCreated" => smsg.type = "CreateBlob"
        BY <3>1 DEF InPhase, InHand
      <3>5. CASE ~ IsAnswer(sout)
        <4>1. \A i \in 1 .. Len(s2c') : IsAnswer(s2c'[i])
                 => i \in 1 .. Len(s2c) /\ s2c'[i] = s2c[i]
          BY <3>2, <3>5, Queues
        <4>2. OneInFlight'
          BY <2>1, <2>2, <4>1 DEF Flight, OneInFlight, OnItsWay, OnItsWayBack
        <4>3. Matching'
          BY <2>1, <2>2, <4>1 DEF Flight, Matching
        <4> QED
          BY <2>1, <3>3, <4>2, <4>3 DEF Flight, SlotIsForIt
      <3>6. CASE IsAnswer(sout)
        <4>1. InHand /\ ~ OnItsWay /\ ~ OnItsWayBack /\ replies = << >>
          BY <3>4, <3>6 DEF Flight, OneInFlight
        <4>2. \A i \in 1 .. Len(s2c') : IsAnswer(s2c'[i])
                 => i = Len(s2c) + 1 /\ s2c'[i] = sout
          BY <3>2, <4>1, Queues DEF OnItsWayBack
        <4>3. IsAnswerTo(sout, asked)
          BY <3>1, <3>4, <3>6, <4>1 DEF Flight, Matching, InHand, IsAnswerTo, IsRequest
        <4>4. OneInFlight'
          BY <2>1, <2>2, <4>1, <4>2 DEF Flight, OneInFlight, OnItsWay, OnItsWayBack
        <4>5. Matching'
          BY <2>1, <2>2, <4>2, <4>3 DEF Flight, Matching
        <4> QED
          BY <2>1, <3>3, <4>4, <4>5 DEF Flight, SlotIsForIt
      <3> QED
        BY <3>5, <3>6
    <2> QED
      BY <2>3, <2>4
  <1> QED
    BY <1>2, <1>4, <1>5, <1>6 DEF MessageThread

\* Every step keeps at most one request in flight, the awaited one.
LEMMA FlightKept ==
    ASSUME LinkTypes, VtestTypes, ActorInv, InPhase, Flight, [Next]_vars
    PROVE  Flight'
  <1>1. CASE WatcherShips
    <2>1. [Message("BlobData", 0) EXCEPT !.res = batch] \in C2S
          /\ ~ IsRequest([Message("BlobData", 0) EXCEPT !.res = batch])
      <3>1. batch \in Nat /\ 0 \in Nat
        BY DEF LinkTypes
      <3> QED
        BY <3>1, Sendable
    <2>2. /\ UNCHANGED <<s2c, replies, smsg, asked, pending, link, reader, vpc, serving>>
          /\ c2s' = c2s \/ c2s' = Append(c2s, [Message("BlobData", 0) EXCEPT !.res = batch])
      BY <1>1 DEF WatcherShips, sVars, vtestVars, serverVars
    <2> QED
      BY <2>1, <2>2, FlightOfSends
  <1>2. CASE WatcherDiffs \/ MesaSteps \/ ServerSteps \/ Engine \/ Virgl \/ Waiters
               \/ UNCHANGED vars
    <2>1. UNCHANGED <<c2s, s2c, replies, smsg, asked, pending, link, reader>>
      BY <1>2 DEF WatcherDiffs, MesaSteps, ServerSteps, Engine, Virgl, Waiters,
                  WaiterAsks, WaiterIsAnswered, WaiterLeaves, vars, cVars, linkVars,
                  sVars
    <2>2. asked # None => vpc' = vpc /\ serving' = serving
      <3>1. CASE MesaSteps
        BY <3>1 DEF MesaSteps, Mesa, Greet, AskBlob, AskUnref, AskSubmit, AskSync,
                    ReadReply, Exit, serverVars
      <3>2. CASE ServerSteps
        <4>1. vpc = "read"
          BY <3>2 DEF ServerSteps, Server, ServeLocal, BeginCall, EndOfStream
        <4> QED
          BY <4>1 DEF Flight, Matching
      <3>3. CASE WatcherDiffs \/ Engine \/ Virgl \/ Waiters \/ UNCHANGED vars
        BY <3>3 DEF WatcherDiffs, Engine, Virgl, Waiters, WaiterAsks,
                    WaiterIsAnswered, WaiterLeaves, vars, vtestVars, serverVars
      <3> QED
        BY <1>2, <3>1, <3>2, <3>3
    <2> QED
      BY <2>1, <2>2, NoMessage, FlightOfSends
  <1> QED
    BY <1>1, <1>2, FlightOfCalls, FlightOfRequests, FlightOfAnswers, FlightOfReader,
       FlightOfLink, FlightOfMessages DEF Next, VtestThread, Watcher

-----------------------------------------------------------------------------
(* S's message thread, phase by phase, and its engine.                      *)

LEMMA ErrorAnswers ==
    ASSUME NEW m \in Messages
    PROVE  LET error == [Message("Error", m.number)
                            EXCEPT !.solicited = MessageIsSolicited(m)]
           IN /\ error.type = "Error" /\ error.number = m.number
              /\ IsAnswer(error) <=> IsRequest(m)
  <1>1. m.number \in Nat /\ "Error" \in Types /\ MessageIsSolicited(m) \in BOOLEAN
    BY DEF Messages, Types, MessageIsSolicited
  <1>2. /\ Message("Error", m.number) \in Messages
        /\ Message("Error", m.number).type = "Error"
        /\ Message("Error", m.number).number = m.number
    BY <1>1, MessageTypes
  <1> DEFINE error == [Message("Error", m.number)
                          EXCEPT !.solicited = MessageIsSolicited(m)]
  <1>3. /\ error.type = "Error" /\ error.number = m.number
        /\ error.solicited = MessageIsSolicited(m)
    BY <1>1, <1>2, FilledSolicited
  <1> HIDE DEF error
  <1>4. IsAnswer(error) <=> IsRequest(m)
    BY <1>3 DEF IsAnswer, IsRequest, MessageIsSolicited
  <1> QED
    BY <1>3, <1>4 DEF error

\* What each client is blocked on.
LEMMA RequestBlocks ==
    ASSUME ActorInv, NEW c \in Clients, NEW call, Request(c, call)
    PROVE  /\ c \in held /\ calls[c] = NoCall /\ answers[c] = << >>
           /\ calls'[c] = call
           /\ \A d \in Clients \ {c} : calls'[d] = calls[d]
           /\ UNCHANGED <<actor, held, answers, resources, nextResource>>
  <1>1. calls \in [Clients -> Call \cup {NoCall}]
    BY DEF ActorInv, ActorTypeOK
  <1>2. answers[c] = << >>
    BY DEF Request, ActorInv, Channel, AnswerOwes
  <1> QED
    BY <1>1, <1>2 DEF Request, tableVars

\* Who takes its answer is free, and nobody else is touched.
LEMMA CollectFrees ==
    ASSUME ActorInv, NEW c \in Clients, Collect(c)
    PROVE  /\ calls[c] # NoCall /\ answers[c] # << >>
           /\ calls'[c] = NoCall /\ answers'[c] = << >>
           /\ \A d \in Clients \ {c} : calls'[d] = calls[d] /\ answers'[d] = answers[d]
           /\ UNCHANGED <<actor, held, resources, nextResource>>
  <1>1. /\ calls \in [Clients -> Call \cup {NoCall}]
        /\ answers \in [Clients -> Seq(Answer)]
    BY DEF ActorInv, ActorTypeOK
  <1> QED
    BY <1>1 DEF Collect, tableVars

\* What leaves the message thread and its call alone leaves its phase alone.
LEMMA PhaseSame ==
    ASSUME InPhase, UNCHANGED <<spc, smsg, sout>>, calls'[Serve] = calls[Serve]
    PROVE  InPhase'
  BY DEF InPhase, EngineCall

\* Steps of anyone but the message thread.
LEMMA OthersCall ==
    ASSUME ActorInv, OthersWait, [Next]_vars, ~ MessageThread
    PROVE  /\ UNCHANGED <<spc, smsg, sout>> /\ calls'[Serve] = calls[Serve]
           /\ UNCHANGED applierVars
           /\ OthersWait'
  <1>1. CASE MesaSteps \/ VtestThread \/ ReaderThread \/ Watcher \/ LinkFails
               \/ CExits \/ NoEngine \/ UNCHANGED vars
    <2>1. UNCHANGED <<actorVars, sVars>>
      <3>1. CASE MesaSteps \/ VtestThread
        BY <3>1 DEF MesaSteps, VtestThread, ServerSteps, CreateVenusContext, Submit,
                    SendAndReturn, Unref, VenusCapset, CreateBlobResource,
                    ReceiveAnswer, NoAnswer
      <3>2. CASE ReaderThread \/ Watcher \/ LinkFails \/ CExits \/ NoEngine
                   \/ UNCHANGED vars
        BY <3>2 DEF ReaderThread, Reader, ReaderEnds, Watcher, WatcherDiffs,
                    WatcherShips, LinkFails, CExits, NoEngine, vars
      <3> QED
        BY <1>1, <3>1, <3>2
    <2> QED
      BY <2>1 DEF actorVars, channelVars, sVars, OthersWait
  <1>2. CASE Engine \/ Virgl
    <2>1. UNCHANGED sVars /\ calls' = calls
      BY <1>2 DEF Engine, Virgl, RunActor, Construct, HandleCommand,
                  HandleCreateVenusContext, HandleSubmit, HandleVenusCapset,
                  HandleCreateBlobResource, HandleUnrefResource,
                  HandleWaitForWorkRetired, Drained, PollFence, Teardown, Library,
                  Signal, WriteContextFence, Deadline, channelVars
    <2> QED
      BY <2>1 DEF sVars, OthersWait
  <1>3. CASE WaiterAsks
    <2>1. PICK c \in Clients \ {Serve}, r \in Rings :
             Request(c, [op |-> "wait", ctx |-> Context, ring |-> r])
      BY <1>3 DEF WaiterAsks
    <2>2. /\ calls'[c] = [op |-> "wait", ctx |-> Context, ring |-> r]
          /\ \A d \in Clients \ {c} : calls'[d] = calls[d]
      BY <2>1, RequestBlocks
    <2>3. UNCHANGED sVars
      BY <1>3 DEF WaiterAsks
    <2> QED
      BY <2>2, <2>3, SessionAssumption DEF sVars, OthersWait
  <1>4. CASE WaiterIsAnswered
    <2>1. PICK c \in Clients \ {Serve} : Collect(c)
      BY <1>4 DEF WaiterIsAnswered
    <2>2. /\ calls'[c] = NoCall
          /\ \A d \in Clients \ {c} : calls'[d] = calls[d]
      BY <2>1, CollectFrees
    <2>3. UNCHANGED sVars
      BY <1>4 DEF WaiterIsAnswered
    <2> QED
      BY <2>2, <2>3, SessionAssumption DEF sVars, OthersWait
  <1>5. CASE WaiterLeaves
    <2>1. UNCHANGED sVars /\ calls' = calls
      BY <1>5 DEF WaiterLeaves, Leave
    <2> QED
      BY <2>1 DEF sVars, OthersWait
  <1> QED
    BY <1>1, <1>2, <1>3, <1>4, <1>5 DEF Next, Waiters

\* No client but the message thread asks for anything but a wait.
LEMMA OthersWaitKept ==
    ASSUME ActorInv, OthersWait, [Next]_vars
    PROVE  OthersWait'
  <1>1. Serve \in Clients
    BY SessionAssumption
  <1>2. CASE Receive \/ Undo
    <2>1. UNCHANGED actorVars \/ \E call : Request(Serve, call)
      BY <1>2 DEF Receive, Undo
    <2> QED
      BY <1>1, <2>1, RequestBlocks DEF actorVars, channelVars, OthersWait
  <1>3. CASE Applied \/ Undone
    <2>1. Collect(Serve)
      BY <1>3 DEF Applied, Undone
    <2> QED
      BY <1>1, <2>1, CollectFrees DEF OthersWait
  <1>4. CASE SendAnswer \/ ServeEnds
    <2>1. calls' = calls
      BY <1>4 DEF SendAnswer, ServeEnds, Leave, actorVars, channelVars
    <2> QED
      BY <2>1 DEF OthersWait
  <1> QED
    BY <1>2, <1>3, <1>4, OthersCall DEF MessageThread

\* The message thread is in the engine exactly for the message it has in hand.
LEMMA InPhaseKept ==
    ASSUME ActorInv, LinkTypes, OthersWait, InPhase, [Next]_vars
    PROVE  InPhase'
  <1>1. Serve \in Clients
    BY SessionAssumption
  <1>2. None.type = "none" /\ ~ ForEngine(None) /\ ~ IsRequest(None)
    BY NoMessage
  <1>3. CASE Receive
    <2>1. /\ spc = "recv" /\ c2s # << >> /\ smsg' = Head(c2s)
          /\ \/ spc' = "send" /\ sout' \in {Error', None} /\ UNCHANGED actorVars
             \/ /\ spc' = "engine" /\ sout' = sout
                /\ smsg'.type \notin {"Hello", "BlobData"}
                /\ Request(Serve, EngineCall(smsg'))
      BY <1>3 DEF Receive
    <2>2. /\ smsg' \in Messages
          /\ smsg'.type \notin {"Hello", "BlobData"} => ForEngine(smsg')
      BY <2>1, NextMessage DEF C2S
    <2>3. sout = None /\ calls[Serve] = NoCall
      BY <2>1 DEF InPhase
    <2>4. CASE spc' = "send" /\ sout' \in {Error', None} /\ UNCHANGED actorVars
      <3>1. Error' = [Message("Error", smsg'.number)
                         EXCEPT !.solicited = MessageIsSolicited(smsg')]
        BY DEF Error, MessageIsSolicited
      <3>2. /\ Error'.type = "Error" /\ Error'.number = smsg'.number
            /\ IsAnswer(Error') <=> IsRequest(smsg')
        BY <2>2, <3>1, ErrorAnswers
      <3>3. calls'[Serve] = NoCall
        BY <2>3, <2>4 DEF actorVars, channelVars
      <3> QED
        BY <2>4, <3>2, <3>3 DEF InPhase
    <2>5. CASE /\ spc' = "engine" /\ sout' = sout
               /\ smsg'.type \notin {"Hello", "BlobData"}
               /\ Request(Serve, EngineCall(smsg'))
      <3>1. calls'[Serve] = EngineCall(smsg')
        BY <1>1, <2>5, RequestBlocks
      <3> QED
        BY <2>2, <2>3, <2>5, <3>1 DEF InPhase, EngineCall
    <2> QED
      BY <2>1, <2>4, <2>5
  <1>4. CASE Applied
    <2>1. AppliedCases /\ spc = "engine" /\ answers[Serve] # << >> /\ Collect(Serve)
      BY <1>4, AppliedDoes DEF Applied
    <2>2. calls'[Serve] = NoCall /\ answers[Serve][1].res \in Nat
      BY <1>1, <2>1, CollectFrees, EngineAnswer
    <2>3. sout = None /\ ForEngine(smsg)
      BY <2>1 DEF InPhase
    <2>4. smsg \in Messages
      BY <1>2, <2>3 DEF LinkTypes, C2S
    <2>5. CASE AppliedRefused
      <3>1. sout' = Error /\ smsg' = smsg /\ spc' = "send"
        BY <2>5 DEF AppliedRefused, Answering
      <3>2. /\ Error.type = "Error" /\ Error.number = smsg.number
            /\ IsAnswer(Error) <=> IsRequest(smsg)
        BY <2>2, Answerable
      <3> QED
        BY <2>2, <3>1, <3>2 DEF InPhase
    <2>6. CASE AppliedContext
      BY <2>2, <2>6 DEF InPhase, AppliedContext
    <2>7. CASE AppliedCapset
      <3>1. /\ sout' = Message("Capset", smsg.number) /\ smsg' = smsg /\ spc' = "send"
            /\ smsg.type = "GetCapset"
        BY <2>7 DEF AppliedCapset, Answering
      <3>2. /\ sout'.type = "Capset" /\ sout'.number = smsg.number
        BY <2>2, <3>1, Answerable
      <3> QED
        BY <2>2, <3>1, <3>2 DEF InPhase, IsRequest
    <2>8. CASE AppliedBlob
      <3>1. /\ sout' = [Message("BlobCreated", smsg.number)
                           EXCEPT !.res = answers[Serve][1].res]
            /\ smsg' = smsg /\ spc' = "send" /\ smsg.type = "CreateBlob"
        BY <2>8 DEF AppliedBlob, Registered
      <3>2. /\ sout'.type = "BlobCreated" /\ sout'.number = smsg.number
        BY <2>2, <3>1, Answerable
      <3> QED
        BY <2>2, <3>1, <3>2 DEF InPhase, IsRequest
    <2>9. CASE AppliedUnmapped
      <3>1. /\ smsg' = [smsg EXCEPT !.res = answers[Serve][1].res]
            /\ smsg.type = "CreateBlob" /\ spc' = "undo" /\ sout' = sout
        BY <2>9 DEF AppliedUnmapped, MapFailed
      <3>2. smsg'.type = "CreateBlob"
        BY <2>2, <2>4, <3>1, FilledRes
      <3> QED
        BY <2>2, <2>3, <3>1, <3>2 DEF InPhase
    <2>10. CASE AppliedSubmit
      BY <2>2, <2>10 DEF InPhase, AppliedSubmit, Answering
    <2>11. CASE AppliedUnref
      BY <2>2, <2>11 DEF InPhase, AppliedUnref, Forgotten
    <2> QED
      BY <2>1, <2>5, <2>6, <2>7, <2>8, <2>9, <2>10, <2>11 DEF AppliedCases
  <1>5. CASE Undo
    <2>1. /\ Request(Serve, [op |-> "unref", res |-> smsg.res]) /\ spc = "undo"
          /\ spc' = "undoing" /\ UNCHANGED <<smsg, sout>>
      BY <1>5 DEF Undo
    <2>2. calls'[Serve] = [op |-> "unref", res |-> smsg.res]
      BY <1>1, <2>1, RequestBlocks
    <2> QED
      BY <2>1, <2>2 DEF InPhase
  <1>6. CASE Undone
    <2>1. /\ Collect(Serve) /\ sout' = Error /\ smsg' = smsg /\ spc' = "send"
      BY <1>6 DEF Undone, Answering
    <2>2. calls'[Serve] = NoCall
      BY <1>1, <2>1, CollectFrees
    <2>3. /\ Error.type = "Error" /\ Error.number = smsg.number
          /\ IsAnswer(Error) <=> IsRequest(smsg)
      <3>1. 0 \in Nat
        OBVIOUS
      <3> QED
        BY <3>1, Answerable
    <2> QED
      BY <2>1, <2>2, <2>3 DEF InPhase
  <1>7. CASE SendAnswer
    <2>1. /\ spc = "send" /\ spc' \in {"recv", "over"} /\ smsg' = None /\ sout' = None
          /\ calls' = calls
      BY <1>7 DEF SendAnswer, Leave, actorVars, channelVars
    <2> QED
      BY <2>1 DEF InPhase
  <1>8. CASE ServeEnds
    <2>1. /\ spc = "recv" /\ spc' = "over" /\ UNCHANGED <<smsg, sout, calls>>
      BY <1>8 DEF ServeEnds, actorVars, channelVars
    <2> QED
      BY <2>1 DEF InPhase
  <1>9. CASE ~ MessageThread
    BY <1>9, OthersCall, PhaseSame
  <1> QED
    BY <1>3, <1>4, <1>5, <1>6, <1>7, <1>8, <1>9 DEF MessageThread

(* The engine's table.                                                      *)

\* Nothing that the table depends on changes.
LEMMA EngineSame ==
    ASSUME EngineHolds, UNCHANGED <<spc, smsg, exported>>,
           answers'[Serve] = answers[Serve],
           Engaged' => Engaged /\ DOMAIN resources' = DOMAIN resources,
           actor' = "starting" => held' = {}
    PROVE  EngineHolds'
  <1>1. /\ Orphaned' = Orphaned /\ Orphan' = Orphan /\ Dropped' = Dropped
        /\ TakingBack' = TakingBack
    BY DEF Orphaned, Orphan, Dropped, TakingBack, Answered
  <1> QED
    BY <1>1 DEF EngineHolds

\* Between two calls the engine's table is S's.
LEMMA EngineQuiet ==
    ASSUME EngineHolds, ~ Orphaned, ~ Dropped, ~ TakingBack, ~ Orphaned', ~ Dropped',
           ~ TakingBack', exported' = exported,
           Engaged' => Engaged /\ DOMAIN resources' = DOMAIN resources,
           actor' = "starting" => held' = {}
    PROVE  EngineHolds'
  BY DEF EngineHolds

\* The command that the actor takes next.
LEMMA NextCommand ==
    ASSUME ActorInv, OthersWait, commands # << >>
    PROVE  /\ Caller \in Clients /\ Called = calls[Caller] /\ Called # NoCall
           /\ answers[Caller] = << >>
           /\ Caller # Serve => Called.op = "wait"
           /\ Caller = Serve => Serve \in held
  <1>1. commands \in Seq(Command) /\ 1 \in 1 .. Len(commands)
    BY DEF ActorInv, ActorTypeOK
  <1>2. /\ Head(commands) = commands[1] /\ commands[1] \in Command
    BY <1>1
  <1>3. Caller \in Clients /\ Called \in Call
    BY <1>2 DEF Caller, Called, Command
  <1>4. Called # NoCall
    BY <1>3, SomeCall
  <1>5. calls[Caller] = Called /\ answers[Caller] = << >>
    BY <1>1, <1>2 DEF Caller, Called, ActorInv, Channel, QueueOwes
  <1>6. Caller \in held
    BY <1>3, <1>4, <1>5 DEF ActorInv, BlockedHolds
  <1>7. Caller # Serve => Called.op = "wait"
    BY <1>3, <1>4, <1>5 DEF OthersWait
  <1> QED
    BY <1>3, <1>4, <1>5, <1>6, <1>7

\* What it was sent for, when the message thread sent it.
LEMMA CommandOfServe ==
    ASSUME ActorInv, LinkTypes, InPhase, OthersWait, commands # << >>, Caller = Serve
    PROVE  /\ Called.op \in {"context", "submit", "capset", "blob", "unref"}
           /\ ~ Answered /\ Serve \in held
           /\ Called.op = "unref" => /\ Called.res = smsg.res
                                     /\ \/ spc = "engine" /\ smsg.type = "UnrefResource"
                                        \/ spc = "undoing"
           /\ Called.op # "unref" => spc = "engine" /\ smsg.type # "UnrefResource"
           /\ Called.op = "blob" <=> spc = "engine" /\ smsg.type = "CreateBlob"
  <1>1. /\ Called = calls[Serve] /\ Called # NoCall /\ answers[Serve] = << >>
        /\ Serve \in held
    BY NextCommand
  <1>2. ~ Answered
    BY <1>1 DEF Answered
  <1>3. CASE spc = "engine"
    <2>1. ForEngine(smsg) /\ Called = EngineCall(smsg)
      BY <1>1, <1>3 DEF InPhase
    <2>2. smsg \in C2S
      BY <2>1, NoMessage DEF LinkTypes
    <2>3. smsg.type = "UnrefResource" => Called.res = smsg.res /\ Called.op = "unref"
      BY <2>1, <2>2, EngineCalls
    <2> QED
      BY <1>1, <1>2, <1>3, <2>1, <2>2, <2>3, EngineCalls
  <1>4. CASE spc = "undoing"
    <2>1. Called = [op |-> "unref", res |-> smsg.res]
      BY <1>1, <1>4 DEF InPhase
    <2> QED
      BY <1>1, <1>2, <1>4, <2>1
  <1>5. spc \in {"engine", "undoing"}
    BY <1>1 DEF InPhase
  <1> QED
    BY <1>3, <1>4, <1>5

\* What a step of the engine is to the message thread.
EngineIdles ==
    /\ answers'[Serve] = answers[Serve] /\ nextResource' = nextResource
    /\ Engaged' => Engaged /\ DOMAIN resources' = DOMAIN resources
    /\ actor' = "starting" => held' = {}

AnswersServe ==
    /\ Caller = Serve /\ ~ Answered /\ Serve \in held
    /\ answers'[Serve] # << >>
    /\ UNCHANGED <<actor, held>>

EngineReplies ==
    /\ AnswersServe
    /\ spc = "engine" /\ smsg.type # "UnrefResource"
    /\ smsg.type = "CreateBlob" => ~ answers'[Serve][1].ok
    /\ nextResource' \in {nextResource, nextResource + 1}
    /\ DOMAIN resources' = DOMAIN resources

EngineMakes ==
    /\ AnswersServe
    /\ spc = "engine" /\ smsg.type = "CreateBlob"
    /\ answers'[Serve][1].ok /\ answers'[Serve][1].res = nextResource
    /\ nextResource' = nextResource + 1
    /\ DOMAIN resources' = DOMAIN resources \cup {nextResource}

EngineDrops ==
    /\ AnswersServe
    /\ \/ spc = "undoing"
       \/ spc = "engine" /\ smsg.type = "UnrefResource"
    /\ answers'[Serve][1].ok
    /\ nextResource' = nextResource
    /\ DOMAIN resources' = DOMAIN resources \ {smsg.res}

\* The engine's answer reaches its caller and nobody else.
LEMMA AnswerToServe ==
    ASSUME ActorInv, commands # << >>, NEW a \in Answer, commands' = Tail(commands),
           Send(Caller, a), calls' = calls, inflight' = inflight
    PROVE  /\ Caller = Serve => answers'[Serve] = <<a>>
           /\ Caller # Serve => answers'[Serve] = answers[Serve]
  BY AnswerTheHead, SessionAssumption

\* What a step of the engine does for the message thread: nothing, an answer, a
\* new resource with its answer, or one dropped with its answer.
LEMMA EngineDoes ==
    ASSUME ActorInv, LinkTypes, InPhase, OthersWait, EngineHolds, RunActor \/ Library
    PROVE  EngineIdles \/ EngineReplies \/ EngineMakes \/ EngineDrops
  <1>1. actor = "starting" => held = {}
    BY DEF EngineHolds
  <1>2. ASSUME UNCHANGED <<answers, nextResource, resources, actor, held>>
        PROVE  EngineIdles
    BY <1>1, <1>2 DEF EngineIdles, Engaged
  <1>3. CASE Construct
    BY <1>3 DEF Construct, tableVars, EngineIdles, Engaged
  <1>4. CASE Drained \/ Teardown
    BY <1>4 DEF Drained, Teardown, channelVars, tableVars, EngineIdles, Engaged
  <1>5. CASE Library
    <2>1. UNCHANGED <<answers, nextResource, resources, actor, held>>
      BY <1>5 DEF Library, Signal, WriteContextFence, Deadline, channelVars, tableVars
    <2> QED
      BY <1>2, <2>1
  <1>6. CASE PollFence
    <2>1. /\ actor' = "drain" /\ UNCHANGED <<held, nextResource, resources>>
          /\ actor = "poll" /\ inflight # NoFence
      BY <1>6 DEF PollFence, tableVars, ActorInv, PollsAFence
    <2>2. inflight.client # Serve
      <3>1. inflight.client = Serve => calls[Serve].op = "wait" /\ calls[Serve] # NoCall
        BY <2>1 DEF ActorInv, FenceOwes, NoCall
      <3>2. calls[Serve] # NoCall => calls[Serve].op # "wait"
        <4>1. CASE spc = "engine"
          <5>1. ForEngine(smsg) /\ calls[Serve] = EngineCall(smsg)
            BY <4>1 DEF InPhase
          <5>2. smsg \in C2S
            BY <5>1, NoMessage DEF LinkTypes
          <5> QED
            BY <5>1, <5>2, EngineCalls
        <4>2. CASE spc # "engine"
          BY <4>2 DEF InPhase
        <4> QED
          BY <4>1, <4>2
      <3> QED
        BY <3>1, <3>2
    <2>3. answers'[Serve] = answers[Serve]
      <3>1. answers \in [Clients -> Seq(Answer)]
        BY DEF ActorInv, ActorTypeOK
      <3>2. \/ answers' = answers
            \/ \E a : answers' = [answers EXCEPT ![inflight.client]
                                      = Append(answers[inflight.client], a)]
        BY <1>6 DEF PollFence, Send
      <3> QED
        BY <2>2, <3>1, <3>2, SessionAssumption
    <2> QED
      BY <2>1, <2>3 DEF EngineIdles, Engaged
  <1>7. CASE HandleCommand
    <2>1. /\ commands # << >> /\ commands' = Tail(commands)
          /\ UNCHANGED <<actor, held, calls>>
      BY <1>7 DEF HandleCommand, HandleCreateVenusContext, HandleSubmit,
                  HandleVenusCapset, HandleCreateBlobResource, HandleUnrefResource,
                  HandleWaitForWorkRetired, Taken
    <2>2. Caller # Serve => Called.op = "wait"
      BY <2>1, NextCommand
    <2>3. Caller = Serve =>
            /\ Called.op \in {"context", "submit", "capset", "blob", "unref"}
            /\ ~ Answered /\ Serve \in held
            /\ Called.op = "unref" => /\ Called.res = smsg.res
                                      /\ \/ spc = "engine" /\ smsg.type = "UnrefResource"
                                         \/ spc = "undoing"
            /\ Called.op # "unref" => spc = "engine" /\ smsg.type # "UnrefResource"
            /\ Called.op = "blob" <=> spc = "engine" /\ smsg.type = "CreateBlob"
      BY <2>1, CommandOfServe
    <2>4. \A a \in Answer :
             Send(Caller, a) /\ inflight' = inflight =>
                 /\ Caller = Serve => /\ answers'[Serve] # << >>
                                      /\ answers'[Serve][1] = a
                 /\ Caller # Serve => answers'[Serve] = answers[Serve]
      <3> SUFFICES ASSUME NEW a \in Answer, Send(Caller, a), inflight' = inflight
                   PROVE  /\ Caller = Serve => /\ answers'[Serve] # << >>
                                               /\ answers'[Serve][1] = a
                          /\ Caller # Serve => answers'[Serve] = answers[Serve]
        OBVIOUS
      <3>1. <<a>> # << >> /\ <<a>>[1] = a
        OBVIOUS
      <3> QED
        BY <2>1, <3>1, AnswerToServe
    <2>5. CASE HandleCreateVenusContext \/ HandleSubmit \/ HandleVenusCapset
      <3>1. /\ Called.op \in {"context", "submit", "capset"}
            /\ UNCHANGED <<inflight, nextResource, resources>>
        BY <2>5 DEF HandleCreateVenusContext, HandleSubmit, HandleVenusCapset, Taken,
                    tableVars
      <3>2. \E a \in {Done, Refused} : Send(Caller, a)
        BY <2>5 DEF HandleCreateVenusContext, HandleSubmit, HandleVenusCapset
      <3>3. Caller = Serve /\ answers'[Serve] # << >>
        BY <2>2, <2>4, <3>1, <3>2, Answers
      <3>4. smsg.type # "CreateBlob"
        BY <2>3, <3>1, <3>3
      <3> QED
        BY <2>1, <2>3, <3>1, <3>3, <3>4 DEF EngineReplies, AnswersServe
    <2>6. CASE HandleCreateBlobResource
      <3>1. Called.op = "blob" /\ inflight' = inflight /\ Caller = Serve
        BY <2>2, <2>6 DEF HandleCreateBlobResource, Taken
      <3>2. CASE /\ Send(Caller, Refused)
                 /\ DOMAIN resources' = DOMAIN resources
                 /\ nextResource' \in {nextResource, nextResource + 1}
        BY <2>1, <2>3, <2>4, <3>1, <3>2, Answers DEF EngineReplies, AnswersServe
      <3>3. CASE /\ Send(Caller, [Done EXCEPT !.res = nextResource])
                 /\ DOMAIN resources' = DOMAIN resources \cup {nextResource}
                 /\ nextResource' = nextResource + 1
        <4>1. /\ [Done EXCEPT !.res = nextResource] \in Answer
              /\ [Done EXCEPT !.res = nextResource].ok
              /\ [Done EXCEPT !.res = nextResource].res = nextResource
          BY DEF Done, Answer, ActorInv, ActorTypeOK
        <4>2. /\ answers'[Serve] # << >>
              /\ answers'[Serve][1] = [Done EXCEPT !.res = nextResource]
          BY <2>4, <3>1, <3>3, <4>1
        <4>3. answers'[Serve][1].ok /\ answers'[Serve][1].res = nextResource
          BY <4>1, <4>2
        <4> QED
          BY <2>1, <2>3, <3>1, <3>3, <4>2, <4>3 DEF EngineMakes, AnswersServe
      <3> QED
        BY <2>6, <3>2, <3>3 DEF HandleCreateBlobResource, ExportFailed
    <2>7. CASE HandleUnrefResource
      <3>1. /\ Called.op = "unref" /\ inflight' = inflight /\ Caller = Serve
            /\ Send(Caller, Done) /\ nextResource' = nextResource
            /\ DOMAIN resources' = DOMAIN resources \ {Called.res}
        BY <2>2, <2>7 DEF HandleUnrefResource, Taken
      <3>2. answers'[Serve] # << >> /\ answers'[Serve][1].ok
        BY <2>4, <3>1, Answers DEF Done
      <3> QED
        BY <2>1, <2>3, <3>1, <3>2 DEF EngineDrops, AnswersServe
    <2>8. CASE HandleWaitForWorkRetired
      <3>1. /\ Called.op = "wait" /\ UNCHANGED <<nextResource, resources>>
            /\ answers' = answers \/ (Send(Caller, Refused) /\ inflight' = inflight)
        BY <2>8 DEF HandleWaitForWorkRetired, Taken, tableVars
      <3>2. Caller # Serve
        BY <2>3, <3>1
      <3>3. answers'[Serve] = answers[Serve]
        BY <2>4, <3>1, <3>2, Answers
      <3> QED
        BY <1>1, <2>1, <3>1, <3>3 DEF EngineIdles, Engaged
    <2> QED
      BY <1>7, <2>5, <2>6, <2>7, <2>8 DEF HandleCommand
  <1> QED
    BY <1>3, <1>4, <1>5, <1>6, <1>7 DEF RunActor

\* The engine's own steps keep its table and the applier's in step, phase by
\* phase.
LEMMA EngineHoldsOfEngine ==
    ASSUME ActorInv, LinkTypes, InPhase, OthersWait, EngineHolds,
           exported \subseteq 1 .. nextResource - 1,
           RunActor \/ Library, UNCHANGED <<spc, smsg, exported>>
    PROVE  EngineHolds'
  <1>1. CASE EngineIdles
    BY <1>1, EngineSame DEF EngineIdles
  <1>2. ASSUME AnswersServe
        PROVE  /\ Engaged /\ ~ Orphaned /\ ~ Dropped /\ actor # "starting"
               /\ actor' = actor /\ held' = held
    BY <1>2 DEF AnswersServe, Engaged, Orphaned, Dropped, EngineHolds
  <1>3. CASE EngineReplies
    <2>1. ~ TakingBack /\ ~ TakingBack' /\ ~ Orphaned' /\ ~ Dropped'
      BY <1>3 DEF EngineReplies, TakingBack, Orphaned, Dropped, Answered
    <2> QED
      BY <1>2, <1>3, <2>1, EngineQuiet DEF EngineReplies
  <1>4. CASE EngineMakes
    <2>1. /\ ~ TakingBack /\ ~ TakingBack' /\ ~ Dropped'
          /\ Orphaned' /\ Orphan' = nextResource
      BY <1>4 DEF EngineMakes, AnswersServe, TakingBack, Orphaned, Orphan, Dropped,
                  Answered
    <2>2. nextResource \notin exported
      BY DEF ActorInv, ActorTypeOK
    <2>3. DOMAIN resources = exported
      BY <1>2, <1>4, <2>1 DEF EngineHolds, EngineMakes
    <2>4. DOMAIN resources' = exported' \cup {nextResource}
      BY <1>4, <2>3 DEF EngineMakes
    <2> QED
      BY <1>2, <1>4, <2>1, <2>2, <2>4 DEF EngineHolds, EngineMakes
  <1>5. CASE EngineDrops /\ spc = "undoing"
    <2>1. /\ TakingBack /\ ~ TakingBack' /\ ~ Dropped' /\ ~ Orphaned'
      BY <1>5 DEF EngineDrops, AnswersServe, TakingBack, Orphaned, Dropped, Answered
    <2>2. DOMAIN resources = exported \cup {smsg.res} /\ smsg.res \notin exported
      BY <1>2, <1>5, <2>1 DEF EngineHolds, EngineDrops
    <2>3. DOMAIN resources' = exported'
      BY <1>5, <2>2 DEF EngineDrops
    <2> QED
      BY <1>2, <1>5, <2>1, <2>3 DEF EngineHolds, EngineDrops
  <1>6. CASE EngineDrops /\ spc # "undoing"
    <2>1. spc = "engine" /\ smsg.type = "UnrefResource"
      BY <1>6 DEF EngineDrops
    <2>2. /\ ~ TakingBack /\ ~ TakingBack' /\ Dropped' /\ ~ Orphaned'
      BY <1>6, <2>1 DEF EngineDrops, AnswersServe, TakingBack, Orphaned, Dropped, Answered
    <2>3. DOMAIN resources = exported
      BY <1>2, <1>6, <2>2 DEF EngineHolds, EngineDrops
    <2>4. DOMAIN resources' = exported' \ {smsg'.res}
      BY <1>6, <2>3 DEF EngineDrops
    <2> QED
      BY <1>2, <1>6, <2>2, <2>4 DEF EngineHolds, EngineDrops
  <1> QED
    BY <1>1, <1>3, <1>4, <1>5, <1>6, EngineDoes

\* So does every other step.
LEMMA EngineHoldsKept ==
    ASSUME ActorInv, LinkTypes, InPhase, OthersWait, EngineHolds,
           exported \subseteq 1 .. nextResource - 1, [Next]_vars
    PROVE  EngineHolds'
  <1>1. Serve \in Clients /\ (actor = "starting" => held = {})
    BY SessionAssumption DEF EngineHolds
  <1>2. CASE Engine \/ Virgl
    <2>1. (RunActor \/ Library) /\ UNCHANGED <<spc, smsg, exported>>
      BY <1>2 DEF Engine, Virgl, sVars, applierVars
    <2> QED
      BY <2>1, EngineHoldsOfEngine
  <1>3. CASE ~ MessageThread /\ ~ (Engine \/ Virgl)
    <2>1. UNCHANGED <<spc, smsg, exported>>
      BY <1>3, OthersCall DEF applierVars
    <2>2. /\ answers'[Serve] = answers[Serve]
          /\ resources' = resources /\ actor' = actor
          /\ Serve \in held' => Serve \in held
          /\ held = {} => held' = {}
      <3>1. CASE WaiterAsks
        <4>1. PICK c \in Clients \ {Serve}, r \in Rings :
                 Request(c, [op |-> "wait", ctx |-> Context, ring |-> r])
          BY <3>1 DEF WaiterAsks
        <4> QED
          BY <4>1, RequestBlocks
      <3>2. CASE WaiterIsAnswered
        <4>1. PICK c \in Clients \ {Serve} : Collect(c)
          BY <3>2 DEF WaiterIsAnswered
        <4> QED
          BY <1>1, <4>1, CollectFrees
      <3>3. CASE WaiterLeaves
        BY <3>3 DEF WaiterLeaves, Leave, tableVars
      <3>4. CASE ~ Waiters
        <4>1. UNCHANGED actorVars
          BY <1>3, <3>4 DEF Next, MesaSteps, VtestThread, ServerSteps,
             CreateVenusContext, Submit, SendAndReturn, Unref, VenusCapset,
             CreateBlobResource, ReceiveAnswer, NoAnswer, ReaderThread, Reader,
             ReaderEnds, Watcher, WatcherDiffs, WatcherShips, LinkFails, CExits,
             NoEngine, vars
        <4> QED
          BY <4>1 DEF actorVars, channelVars, tableVars
      <3> QED
        BY <3>1, <3>2, <3>3, <3>4 DEF Waiters
    <2> QED
      BY <1>1, <2>1, <2>2, EngineSame DEF Engaged
  <1>4. ASSUME spc \notin {"engine", "undo", "undoing"},
               spc' \notin {"engine", "undo", "undoing"}
        PROVE  /\ ~ Orphaned /\ ~ Dropped /\ ~ TakingBack
               /\ ~ Orphaned' /\ ~ Dropped' /\ ~ TakingBack'
    BY <1>4 DEF Orphaned, Dropped, TakingBack
  <1>5. CASE Receive
    <2>1. /\ spc = "recv" /\ exported' = exported
          /\ \/ spc' = "send" /\ UNCHANGED actorVars
             \/ spc' = "engine" /\ Request(Serve, EngineCall(smsg'))
      BY <1>5 DEF Receive, applierVars
    <2>2. CASE spc' = "send" /\ UNCHANGED actorVars
      BY <1>1, <1>4, <2>1, <2>2, EngineQuiet
         DEF Engaged, actorVars, channelVars, tableVars
    <2>3. CASE spc' = "engine" /\ Request(Serve, EngineCall(smsg'))
      <3>1. answers'[Serve] = << >> /\ UNCHANGED <<actor, held, resources>>
        BY <1>1, <2>3, RequestBlocks
      <3>2. /\ ~ Orphaned /\ ~ Dropped /\ ~ TakingBack
            /\ ~ Orphaned' /\ ~ Dropped' /\ ~ TakingBack'
        BY <2>1, <2>3, <3>1 DEF Orphaned, Dropped, TakingBack, Answered
      <3> QED
        BY <1>1, <2>1, <3>1, <3>2, EngineQuiet DEF Engaged
    <2> QED
      BY <2>1, <2>2, <2>3
  <1>6. CASE Applied
    <2>1. /\ AppliedCases /\ spc = "engine" /\ answers[Serve] # << >>
          /\ Collect(Serve)
      BY <1>6, AppliedDoes DEF Applied
    <2>2. /\ answers'[Serve] = << >> /\ UNCHANGED <<actor, held, resources>>
      BY <1>1, <2>1, CollectFrees
    <2>3. Answered /\ ~ TakingBack
      BY <2>1 DEF Answered, TakingBack
    <2>4. Engaged' => Engaged /\ DOMAIN resources' = DOMAIN resources
      BY <2>2 DEF Engaged
    <2>5. spc' = "send" => ~ Orphaned' /\ ~ Dropped' /\ ~ TakingBack'
      BY DEF Orphaned, Dropped, TakingBack
    <2>6. CASE AppliedRefused \/ AppliedContext \/ AppliedCapset \/ AppliedSubmit
      <3>1. ~ Orphaned /\ ~ Dropped
        BY <2>6 DEF AppliedRefused, AppliedContext, AppliedCapset, AppliedSubmit,
                    Orphaned, EngineHolds, Dropped
      <3>2. spc' = "send" /\ exported' = exported
        BY <2>6 DEF AppliedRefused, AppliedContext, AppliedCapset, AppliedSubmit,
                    Answering, applierVars
      <3> QED
        BY <1>1, <2>2, <2>3, <2>4, <2>5, <3>1, <3>2, EngineQuiet
    <2>7. CASE AppliedBlob
      <3>1. Orphaned /\ exported' = exported \cup {Orphan} /\ spc' = "send"
        BY <2>1, <2>3, <2>7 DEF AppliedBlob, Registered, Orphaned, Orphan
      <3>2. Engaged => DOMAIN resources = exported \cup {Orphan}
        BY <3>1 DEF EngineHolds
      <3> QED
        BY <1>1, <2>2, <2>4, <2>5, <3>1, <3>2 DEF EngineHolds
    <2>8. CASE AppliedUnmapped
      <3>1. /\ Orphaned /\ exported' = exported /\ spc' = "undo"
            /\ smsg' = [smsg EXCEPT !.res = Orphan]
        BY <2>1, <2>3, <2>8
           DEF AppliedUnmapped, MapFailed, Orphaned, Orphan, applierVars
      <3>2. smsg \in Messages /\ Orphan \in Nat
        <4>1. smsg # None
          BY <3>1, NoMessage DEF Orphaned
        <4> QED
          BY <2>1, <4>1, EngineAnswer DEF LinkTypes, C2S, Orphan
      <3>3. smsg'.res = Orphan
        BY <3>1, <3>2, FilledRes
      <3>4. TakingBack' /\ ~ Orphaned' /\ ~ Dropped'
        BY <3>1 DEF TakingBack, Orphaned, Dropped
      <3>5. /\ Engaged => DOMAIN resources = exported \cup {Orphan}
            /\ Orphan \notin exported
        BY <3>1 DEF EngineHolds
      <3> QED
        BY <1>1, <2>2, <2>4, <3>1, <3>3, <3>4, <3>5 DEF EngineHolds
    <2>9. CASE AppliedUnref
      <3>1. /\ Dropped /\ ~ Orphaned /\ exported' = exported \ {smsg.res}
            /\ spc' = "send"
        BY <2>1, <2>3, <2>9 DEF AppliedUnref, Forgotten, Orphaned, Dropped
      <3>2. Engaged => DOMAIN resources = exported \ {smsg.res}
        BY <3>1 DEF EngineHolds
      <3> QED
        BY <1>1, <2>2, <2>4, <2>5, <3>1, <3>2 DEF EngineHolds
    <2> QED
      BY <2>1, <2>6, <2>7, <2>8, <2>9 DEF AppliedCases
  <1>7. CASE Undo
    <2>1. /\ Request(Serve, [op |-> "unref", res |-> smsg.res]) /\ spc = "undo"
          /\ spc' = "undoing" /\ UNCHANGED <<smsg, exported>>
      BY <1>7 DEF Undo, applierVars
    <2>2. answers'[Serve] = << >> /\ UNCHANGED <<actor, held, resources>>
      BY <1>1, <2>1, RequestBlocks
    <2>3. /\ TakingBack /\ ~ Orphaned /\ ~ Dropped
          /\ TakingBack' /\ ~ Orphaned' /\ ~ Dropped'
      BY <2>1, <2>2 DEF TakingBack, Orphaned, Dropped, Answered
    <2>4. Engaged' = Engaged
      BY <2>2 DEF Engaged
    <2> QED
      BY <2>1, <2>2, <2>3, <2>4 DEF EngineHolds
  <1>8. CASE Undone
    <2>1. /\ Collect(Serve) /\ spc = "undoing" /\ spc' = "send" /\ exported' = exported
      BY <1>8 DEF Undone, Answering, applierVars
    <2>2. /\ answers[Serve] # << >> /\ UNCHANGED <<actor, held, resources>>
      BY <1>1, <2>1, CollectFrees
    <2>3. /\ ~ TakingBack /\ ~ Orphaned /\ ~ Dropped
          /\ ~ TakingBack' /\ ~ Orphaned' /\ ~ Dropped'
      BY <2>1, <2>2 DEF TakingBack, Orphaned, Dropped, Answered
    <2> QED
      BY <1>1, <2>1, <2>2, <2>3, EngineQuiet DEF Engaged
  <1>9. CASE SendAnswer \/ ServeEnds
    <2>1. /\ spc \in {"send", "recv"} /\ spc' \in {"recv", "over"} /\ exported' = exported
          /\ UNCHANGED <<actor, resources>>
          /\ held' = held \/ held' = held \ {Serve}
      BY <1>9 DEF SendAnswer, ServeEnds, Leave, actorVars, channelVars, tableVars,
                  applierVars
    <2>2. /\ Engaged' => Engaged /\ DOMAIN resources' = DOMAIN resources
          /\ actor' = "starting" => held' = {}
      BY <1>1, <2>1 DEF Engaged
    <2> QED
      BY <1>4, <2>1, <2>2, EngineQuiet
  <1> QED
    BY <1>2, <1>3, <1>5, <1>6, <1>7, <1>8, <1>9 DEF MessageThread

(* The accounts: what is in the tables, whose it is, and on its way where.  *)

LEMMA OneMore ==
    \A S : \A queue \in Seq(S), x \in S :
        Elements(Append(queue, x)) = Elements(queue) \cup {x}
  <1> SUFFICES ASSUME NEW S, NEW queue \in Seq(S), NEW x \in S
               PROVE  Elements(Append(queue, x)) = Elements(queue) \cup {x}
    OBVIOUS
  <1> DEFINE longer == Append(queue, x)
  <1>1. /\ Len(longer) = Len(queue) + 1 /\ Len(queue) \in Nat
        /\ \A i \in 1 .. Len(queue) : longer[i] = queue[i]
        /\ longer[Len(queue) + 1] = x
    OBVIOUS
  <1> HIDE DEF longer
  <1>2. Elements(longer) \subseteq Elements(queue) \cup {x}
    <2> SUFFICES ASSUME NEW i \in 1 .. Len(longer)
                 PROVE  longer[i] \in Elements(queue) \cup {x}
      BY DEF Elements
    <2>1. i \in 1 .. Len(queue) \/ i = Len(queue) + 1
      BY <1>1
    <2> QED
      BY <1>1, <2>1 DEF Elements
  <1>3. Elements(queue) \cup {x} \subseteq Elements(longer)
    <2>1. \A i \in 1 .. Len(queue) : i \in 1 .. Len(longer)
      BY <1>1
    <2>2. Len(queue) + 1 \in 1 .. Len(longer)
      BY <1>1
    <2> QED
      BY <1>1, <2>1, <2>2 DEF Elements
  <1> QED
    BY <1>2, <1>3 DEF longer

\* What is in a queue and in what is left of it.
LEMMA OneLess ==
    \A S : \A queue \in Seq(S) :
        queue # << >> => Elements(queue) = {Head(queue)} \cup Elements(Tail(queue))
  <1> SUFFICES ASSUME NEW S, NEW queue \in Seq(S), queue # << >>
               PROVE  Elements(queue) = {Head(queue)} \cup Elements(Tail(queue))
    OBVIOUS
  <1> DEFINE rest == Tail(queue)
  <1>1. /\ Len(queue) \in Nat \ {0} /\ Len(rest) = Len(queue) - 1
        /\ \A i \in 1 .. Len(queue) - 1 : rest[i] = queue[i + 1]
        /\ Head(queue) = queue[1]
    OBVIOUS
  <1> HIDE DEF rest
  <1>2. Elements(queue) \subseteq {Head(queue)} \cup Elements(rest)
    <2> SUFFICES ASSUME NEW i \in 1 .. Len(queue)
                 PROVE  queue[i] \in {Head(queue)} \cup Elements(rest)
      BY DEF Elements
    <2>1. CASE i = 1
      BY <1>1, <2>1
    <2>2. CASE i # 1
      <3>1. i - 1 \in 1 .. Len(rest) /\ i - 1 \in 1 .. Len(queue) - 1 /\ (i - 1) + 1 = i
        BY <1>1, <2>2
      <3>2. rest[i - 1] = queue[i]
        BY <1>1, <3>1
      <3> QED
        BY <3>1, <3>2 DEF Elements
    <2> QED
      BY <2>1, <2>2
  <1>3. {Head(queue)} \cup Elements(rest) \subseteq Elements(queue)
    <2>1. 1 \in 1 .. Len(queue)
      BY <1>1
    <2>2. \A i \in 1 .. Len(rest) : i + 1 \in 1 .. Len(queue) /\ rest[i] = queue[i + 1]
      BY <1>1
    <2> QED
      BY <1>1, <2>1, <2>2 DEF Elements
  <1> QED
    BY <1>2, <1>3 DEF rest

\* A queue cut short holds nothing new.
LEMMA SomeLess ==
    \A S : \A queue \in Seq(S) : \A n \in 0 .. Len(queue) :
        Elements(SubSeq(queue, 1, n)) \subseteq Elements(queue)
  <1> SUFFICES ASSUME NEW S, NEW queue \in Seq(S), NEW n \in 0 .. Len(queue)
               PROVE  Elements(SubSeq(queue, 1, n)) \subseteq Elements(queue)
    OBVIOUS
  <1> QED
    BY Prefix DEF Elements

\* Nothing is in an empty queue.
LEMMA NoneIn == Elements(<< >>) = {}
  BY DEF Elements

\* Who is told what, before and after a step that leaves it alone.
LEMMA ViewsSame ==
    /\ UNCHANGED <<mapped, outbox>> => MesaOwns' = MesaOwns
    /\ UNCHANGED <<inbox, serving>> => BackAtC' = BackAtC
    /\ UNCHANGED <<c2s, smsg>> => BackAtS' = BackAtS
    /\ replies' = replies => TellingAtC' = TellingAtC
    /\ UNCHANGED <<s2c, sout>> => TellingFromS' = TellingFromS
  BY DEF MesaOwns, BackAtC, BackAtS, TellingAtC, TellingFromS

\* A blob that only the engine knows of is one while the message thread has its
\* answer.
LEMMA OrphanSame ==
    ASSUME UNCHANGED <<spc, smsg>>, answers'[Serve] = answers[Serve]
    PROVE  Orphaned' = Orphaned /\ Orphan' = Orphan
  BY DEF Orphaned, Orphan, Answered

\* The tables as they were, and everyone's views of them.
LEMMA AccountsSame ==
    ASSUME Accounts, nextResource \in Nat, nextResource' \in Nat,
           nextResource <= nextResource',
           UNCHANGED <<sblobs, cblobs, exported, internal, rings>>,
           MesaOwns' = MesaOwns, BackAtC' = BackAtC, BackAtS' = BackAtS,
           TellingAtC' = TellingAtC, TellingFromS' = TellingFromS,
           link' = "up" /\ vpc' # "over" => link = "up" /\ vpc # "over",
           spc' = "send" /\ smsg'.type = "UnrefResource" => smsg'.res \notin exported,
           Orphaned' => Orphan' \in 1 .. nextResource' - 1 /\ Orphan' \notin Back
    PROVE  Accounts'
  <1>1. Back' = Back /\ Coming' = Coming /\ ComingAtC' = ComingAtC
    BY DEF Back, Coming, ComingAtC
  <1>2. 1 .. nextResource - 1 \subseteq 1 .. nextResource' - 1
    BY MoreIds
  <1>3. Tables'
    BY <1>2 DEF Accounts, Tables
  <1>4. Apart'
    BY <1>1, <1>2 DEF Accounts, Apart
  <1>5. NoneForgotten'
    BY <1>1 DEF Accounts, NoneForgotten
  <1> QED
    BY <1>3, <1>4, <1>5 DEF Accounts

\* The vtest commands and replies.
LEMMA VtestQueues ==
    ASSUME VtestTypes
    PROVE  /\ inbox \in Seq(VtestCommands) /\ outbox \in Seq(VtestReplies)
           /\ serving \in VtestCommands
           /\ vpc # "call" => serving.kind = "none"
           /\ inbox # << >> => /\ Incoming \in VtestCommands
                               /\ Elements(inbox) = {Incoming} \cup Elements(Tail(inbox))
  <1>1. inbox \in Seq(VtestCommands) /\ outbox \in Seq(VtestReplies)
        /\ serving \in VtestCommands
    BY DEF VtestTypes
  <1>2. vpc # "call" => serving = Nothing
    BY DEF VtestTypes, VtestTypeOK
  <1>3. Nothing.kind = "none"
    BY DEF Nothing
  <1>4. inbox # << >> => /\ Incoming \in VtestCommands
                         /\ Elements(inbox) = {Incoming} \cup Elements(Tail(inbox))
    BY <1>1, OneLess DEF Incoming
  <1> QED
    BY <1>1, <1>2, <1>3, <1>4

\* What Mesa says it gives back, or does not.
LEMMA SayViews ==
    ASSUME VtestTypes, NEW cmd \in VtestCommands, Say(cmd), serving' = serving
    PROVE  /\ cmd.kind # "ResourceUnref" => BackAtC' = BackAtC
           /\ cmd.kind = "ResourceUnref" => BackAtC' = BackAtC \cup {cmd.res}
  <1>1. inbox' = Append(inbox, cmd)
    BY DEF Say
  <1>2. Elements(inbox') = Elements(inbox) \cup {cmd}
    BY <1>1, VtestQueues, OneMore
  <1> QED
    BY <1>2 DEF BackAtC

\* A reply gives Mesa a descriptor when it is that of a creation.
LEMMA WriteViews ==
    ASSUME VtestTypes, NEW reply \in VtestReplies, Write(reply), mapped' = mapped
    PROVE  /\ reply.kind # "ResourceCreateBlob" => MesaOwns' = MesaOwns
           /\ MesaOwns' = MesaOwns \/ MesaOwns' = MesaOwns \cup {reply.value}
           /\ vpc' # "over" /\ reply.kind = "ResourceCreateBlob"
                => MesaOwns' = MesaOwns \cup {reply.value}
  <1>1. \/ outbox' = outbox /\ vpc' = "over"
        \/ outbox' = Append(outbox, reply)
    BY DEF Write, Fail
  <1>2. CASE outbox' = outbox /\ vpc' = "over"
    BY <1>2, ViewsSame
  <1>3. CASE outbox' = Append(outbox, reply)
    <2>1. Elements(outbox') = Elements(outbox) \cup {reply}
      BY <1>3, VtestQueues, OneMore
    <2> QED
      BY <2>1 DEF MesaOwns
  <1> QED
    BY <1>1, <1>2, <1>3

\* Mesa's steps but the giving back, and the server's that call nobody.
LEMMA VtestViews ==
    ASSUME VtestTypes,
           Greet \/ AskBlob \/ AskSubmit \/ AskSync \/ ReadReply \/ Exit \/ Server
    PROVE  /\ MesaOwns' = MesaOwns /\ BackAtC' = BackAtC
           /\ vpc' # "over" => vpc # "over"
  <1>1. issued \in Nat
    BY Greeting DEF VtestTypes, VtestTypeOK
  <1>2. ASSUME NEW cmd \in VtestCommands, cmd.kind # "ResourceUnref", Say(cmd),
               UNCHANGED <<mapped, outbox, serverVars>>
        PROVE  /\ MesaOwns' = MesaOwns /\ BackAtC' = BackAtC
               /\ vpc' # "over" => vpc # "over"
    BY <1>2, SayViews, ViewsSame DEF serverVars
  <1>3. CASE Greet
    <2>1. issued + 1 \in 1 .. 7
      BY <1>1, <1>3, Greeting DEF Greet
    <2>2. /\ Handshake[issued + 1] \in Kinds
          /\ Handshake[issued + 1] # "ResourceUnref"
      BY <2>1, Greeting DEF Kinds, Greetings
    <2> QED
      BY <1>1, <1>2, <1>3, <2>2, NewCommand DEF Greet
  <1>4. CASE AskBlob
    <2>1. PICK shape \in {"ring", "internal", "application"} :
             Say([VtestCommand("ResourceCreateBlob") EXCEPT !.shape = shape])
      BY <1>4 DEF AskBlob
    <2>2. "ResourceCreateBlob" \in Kinds /\ shape \in Shapes
      BY DEF Kinds, Shapes
    <2> DEFINE cmd == [VtestCommand("ResourceCreateBlob") EXCEPT !.shape = shape]
    <2>3. cmd \in VtestCommands /\ cmd.kind = "ResourceCreateBlob"
      BY <1>1, <2>2, NewCommand DEF VtestCommands
    <2> QED
      BY <1>2, <1>4, <2>1, <2>3 DEF AskBlob
  <1>5. CASE AskSubmit
    <2>1. PICK batches \in 1 .. 2, signals \in SUBSET (DOMAIN syncs) :
             Say([VtestCommand("SubmitCmd2") EXCEPT !.batches = batches,
                                                    !.signals = signals])
      BY <1>5 DEF AskSubmit
    <2>2. "SubmitCmd2" \in Kinds /\ batches \in Nat /\ signals \in SUBSET Nat
      BY DEF Kinds, VtestTypes
    <2>3. \A c \in VtestCommands :
             LET filled == [c EXCEPT !.batches = batches, !.signals = signals]
             IN  filled \in VtestCommands /\ filled.kind = c.kind
      BY <2>2 DEF VtestCommands
    <2>4. /\ VtestCommand("SubmitCmd2") \in VtestCommands
          /\ VtestCommand("SubmitCmd2").kind = "SubmitCmd2"
      BY <1>1, <2>2, NewCommand
    <2> DEFINE cmd == [VtestCommand("SubmitCmd2") EXCEPT !.batches = batches,
                                                         !.signals = signals]
    <2>5. cmd \in VtestCommands /\ cmd.kind = "SubmitCmd2"
      BY <2>3, <2>4
    <2>6. Say(cmd)
      BY <2>1
    <2> HIDE DEF cmd
    <2> QED
      BY <1>2, <1>5, <2>5, <2>6 DEF AskSubmit
  <1>6. CASE AskSync
    <2>1. \A kind \in {"SyncCreate", "SyncRead", "SyncUnref", "SyncWrite", "SyncWait"} :
             kind \in Kinds /\ kind # "ResourceUnref"
      BY DEF Kinds
    <2>2. \A c \in VtestCommands : \A sync, value \in Nat :
             /\ [c EXCEPT !.sync = sync] \in VtestCommands
             /\ [c EXCEPT !.sync = sync].kind = c.kind
             /\ LET filled == [c EXCEPT !.sync = sync, !.value = value]
                IN  filled \in VtestCommands /\ filled.kind = c.kind
      BY DEF VtestCommands
    <2>3. \E cmd \in VtestCommands : cmd.kind # "ResourceUnref" /\ Say(cmd)
      <3>1. \A kind \in {"SyncCreate", "SyncRead", "SyncUnref", "SyncWrite", "SyncWait"} :
               VtestCommand(kind) \in VtestCommands /\ VtestCommand(kind).kind = kind
        BY <1>1, <2>1, NewCommand
      <3>2. CASE Say(VtestCommand("SyncCreate"))
        BY <2>1, <3>1, <3>2
      <3>3. ASSUME NEW sync \in DOMAIN syncs, NEW kind \in {"SyncRead", "SyncUnref"},
                   Say([VtestCommand(kind) EXCEPT !.sync = sync])
            PROVE  \E cmd \in VtestCommands : cmd.kind # "ResourceUnref" /\ Say(cmd)
        <4>1. sync \in Nat /\ 0 \in Nat
          BY <3>3 DEF VtestTypes
        <4> QED
          BY <2>1, <2>2, <3>1, <3>3, <4>1
      <3>4. ASSUME NEW sync \in DOMAIN syncs, NEW kind \in {"SyncWrite", "SyncWait"},
                   NEW value \in 1 .. MaxValue,
                   Say([VtestCommand(kind) EXCEPT !.sync = sync, !.value = value])
            PROVE  \E cmd \in VtestCommands : cmd.kind # "ResourceUnref" /\ Say(cmd)
        <4>1. sync \in Nat /\ value \in Nat
          BY <3>4, VtestAssumption DEF VtestTypes
        <4> DEFINE cmd == [VtestCommand(kind) EXCEPT !.sync = sync, !.value = value]
        <4>2. cmd \in VtestCommands /\ cmd.kind = kind
          <5>1. \A c \in VtestCommands :
                   LET filled == [c EXCEPT !.sync = sync, !.value = value]
                   IN  filled \in VtestCommands /\ filled.kind = c.kind
            BY <2>2, <4>1
          <5>2. VtestCommand(kind) \in VtestCommands /\ VtestCommand(kind).kind = kind
            BY <3>1
          <5> QED
            BY <5>1, <5>2
        <4>3. Say(cmd) /\ kind # "ResourceUnref"
          BY <2>1, <3>4
        <4> HIDE DEF cmd
        <4> QED
          BY <4>2, <4>3
      <3> QED
        BY <1>6, <3>2, <3>3, <3>4 DEF AskSync
    <2> QED
      BY <1>2, <1>6, <2>3 DEF AskSync
  <1>7. CASE ReadReply
    <2>1. /\ outbox # << >> /\ outbox' = Tail(outbox)
          /\ mapped' = IF Head(outbox).kind = "ResourceCreateBlob"
                       THEN mapped \cup {Head(outbox).value} ELSE mapped
          /\ UNCHANGED <<inbox, vpc, serving>>
      BY <1>7 DEF ReadReply, serverVars
    <2>2. Elements(outbox) = {Head(outbox)} \cup Elements(outbox')
      BY <2>1, VtestQueues, OneLess
    <2>3. MesaOwns' = MesaOwns
      BY <2>1, <2>2 DEF MesaOwns
    <2> QED
      BY <2>1, <2>3, ViewsSame
  <1>8. CASE Exit
    <2>1. /\ inbox' = inbox \/ inbox' = Append(inbox, VtestCommand("half"))
          /\ UNCHANGED <<mapped, outbox, vpc, serving>>
      BY <1>8 DEF Exit, serverVars
    <2>2. /\ VtestCommand("half") \in VtestCommands
          /\ VtestCommand("half").kind = "half"
      <3>1. "half" \in Kinds
        BY DEF Kinds
      <3> QED
        BY <1>1, <3>1, NewCommand
    <2>3. CASE inbox' = Append(inbox, VtestCommand("half"))
      <3>1. Elements(inbox') = Elements(inbox) \cup {VtestCommand("half")}
        BY <2>2, <2>3, VtestQueues, OneMore
      <3>2. BackAtC' = BackAtC
        BY <2>1, <2>2, <3>1 DEF BackAtC
      <3> QED
        BY <2>1, <3>2, ViewsSame
    <2> QED
      BY <2>1, <2>3, ViewsSame
  <1>9. CASE ServeLocal
    <2>1. /\ vpc = "read" /\ inbox # << >> /\ Incoming.kind \notin Calling
          /\ inbox' = Tail(inbox) /\ UNCHANGED <<mapped, serving>>
          /\ outbox' = outbox \/ Write(Reply(Incoming, TRUE, ReplyValue(Incoming)))
      BY <1>9 DEF ServeLocal, mesaVars
    <2>2. Elements(inbox) = {Incoming} \cup Elements(inbox')
      BY <2>1, VtestQueues
    <2>3. BackAtC' = BackAtC
      BY <2>1, <2>2 DEF BackAtC, Calling
    <2>4. MesaOwns' = MesaOwns
      <3>1. CASE outbox' = outbox
        BY <2>1, <3>1, ViewsSame
      <3>2. CASE outbox' # outbox
        <4>1. outbox' = Append(outbox, Reply(Incoming, TRUE, ReplyValue(Incoming)))
          BY <2>1, <3>2 DEF Write
        <4> DEFINE reply == Reply(Incoming, TRUE, ReplyValue(Incoming))
        <4>2. reply.kind # "ResourceCreateBlob"
          BY <2>1 DEF Reply, Calling
        <4> HIDE DEF reply
        <4>3. Elements(outbox') = Elements(outbox) \cup {reply}
          <5>1. outbox \in Seq(VtestReplies \cup {reply}) /\ reply \in VtestReplies \cup {reply}
            BY VtestQueues
          <5>2. outbox' = Append(outbox, reply)
            BY <4>1 DEF reply
          <5> QED
            BY <5>1, <5>2, OneMore
        <4> QED
          BY <2>1, <4>2, <4>3 DEF MesaOwns
      <3> QED
        BY <3>1, <3>2
    <2> QED
      BY <2>1, <2>3, <2>4
  <1>10. CASE BeginCall
    <2>1. /\ vpc = "read" /\ inbox # << >> /\ inbox' = Tail(inbox) /\ serving' = Incoming
          /\ UNCHANGED <<mapped, outbox>>
      BY <1>10 DEF BeginCall, mesaVars
    <2>2. Elements(inbox) = {Incoming} \cup Elements(inbox') /\ serving.kind = "none"
      BY <2>1, VtestQueues
    <2>3. BackAtC' = BackAtC
      BY <2>1, <2>2 DEF BackAtC
    <2> QED
      BY <2>1, <2>3, ViewsSame
  <1>11. CASE EndOfStream
    BY <1>11, ViewsSame DEF EndOfStream, mesaVars
  <1> QED
    BY <1>3, <1>4, <1>5, <1>6, <1>7, <1>8, <1>9, <1>10, <1>11 DEF Server

\* The engine's returns.
LEMMA FinishViews ==
    ASSUME VtestTypes, NEW ok \in BOOLEAN, NEW res \in Nat, FinishCall(ok, res)
    PROVE  /\ serving.kind # "ResourceUnref" => BackAtC' = BackAtC
           /\ serving.kind = "ResourceUnref" => BackAtC = BackAtC' \cup {serving.res}
           /\ serving.kind # "ResourceCreateBlob" \/ ~ ok => MesaOwns' = MesaOwns
           /\ MesaOwns' = MesaOwns \/ MesaOwns' = MesaOwns \cup {res}
           /\ serving.kind = "ResourceCreateBlob" /\ vpc' # "over"
                => ok /\ MesaOwns' = MesaOwns \cup {res}
           /\ vpc = "call"
  <1>1. /\ vpc = "call" /\ UNCHANGED <<mapped, inbox>>
        /\ serving \in VtestCommands /\ Nothing.kind = "none"
    BY VtestQueues DEF FinishCall, mesaVars, Nothing
  <1>2. \A yes \in BOOLEAN : \A r \in Nat :
           /\ Reply(serving, yes, r) \in VtestReplies
           /\ Reply(serving, yes, r).kind = serving.kind
           /\ Reply(serving, yes, r).value = r
    BY <1>1 DEF Reply, VtestReplies, VtestCommands
  <1>3. ASSUME serving' = Nothing
        PROVE  /\ serving.kind # "ResourceUnref" => BackAtC' = BackAtC
               /\ serving.kind = "ResourceUnref" => BackAtC = BackAtC' \cup {serving.res}
    BY <1>1, <1>3 DEF BackAtC
  <1>4. CASE FinishCapset(ok)
    <2>1. /\ serving.kind = "GetCapset" /\ serving' = Nothing
          /\ Write(Reply(serving, ok, 0))
      BY <1>4 DEF FinishCapset
    <2> QED
      BY <1>1, <1>2, <1>3, <2>1, WriteViews
  <1>5. CASE FinishContext(ok)
    <2>1. serving.kind = "ContextInit" /\ serving' = Nothing /\ outbox' = outbox
      BY <1>5 DEF FinishContext
    <2> QED
      BY <1>1, <1>3, <2>1, ViewsSame
  <1>6. CASE FinishBlob(ok, res)
    <2>1. /\ serving.kind = "ResourceCreateBlob" /\ serving' = Nothing
          /\ IF ok THEN Write(Reply(serving, TRUE, res))
             ELSE vpc' = "over" /\ outbox' = outbox
      BY <1>6 DEF FinishBlob, Fail
    <2>2. CASE ok
      <3> DEFINE reply == Reply(serving, TRUE, res)
      <3>1. /\ reply \in VtestReplies /\ reply.kind = "ResourceCreateBlob"
            /\ reply.value = res
        BY <1>2, <2>1
      <3>2. Write(reply)
        BY <2>1, <2>2
      <3> HIDE DEF reply
      <3> QED
        BY <1>1, <1>3, <2>1, <2>2, <3>1, <3>2, WriteViews
    <2>3. CASE ~ ok
      BY <1>1, <1>3, <2>1, <2>3, ViewsSame
    <2> QED
      BY <2>2, <2>3
  <1>7. CASE FinishUnref
    <2>1. serving.kind = "ResourceUnref" /\ serving' = Nothing /\ outbox' = outbox
      BY <1>7 DEF FinishUnref
    <2> QED
      BY <1>1, <1>3, <2>1, ViewsSame
  <1>8. CASE FinishBatch(ok)
    <2>1. /\ serving.kind = "SubmitCmd2" /\ outbox' = outbox
          /\ serving' = Nothing \/ serving' = [serving EXCEPT !.batches = 1]
      BY <1>8 DEF FinishBatch
    <2>2. serving'.kind # "ResourceUnref"
      BY <1>1, <2>1 DEF VtestCommands
    <2>3. BackAtC' = BackAtC
      BY <1>1, <2>1, <2>2 DEF BackAtC
    <2> QED
      BY <1>1, <2>1, <2>3, ViewsSame
  <1> QED
    BY <1>1, <1>4, <1>5, <1>6, <1>7, <1>8 DEF FinishCall

\* Everyone but the message thread and the engine.
LEMMA OthersLeave ==
    ASSUME ActorInv, OthersWait, [Next]_vars, ~ MessageThread, ~ Engine
    PROVE  /\ answers'[Serve] = answers[Serve] /\ nextResource' = nextResource
           /\ UNCHANGED <<spc, smsg, sout, sblobs, exported, internal, rings>>
  <1>1. UNCHANGED <<spc, smsg, sout, sblobs, exported, internal, rings>>
    BY OthersCall DEF applierVars
  <1>2. Serve \in Clients
    BY SessionAssumption
  <1>3. CASE WaiterAsks
    <2>1. PICK c \in Clients \ {Serve}, r \in Rings :
             Request(c, [op |-> "wait", ctx |-> Context, ring |-> r])
      BY <1>3 DEF WaiterAsks
    <2> QED
      BY <1>1, <2>1, RequestBlocks
  <1>4. CASE WaiterIsAnswered
    <2>1. PICK c \in Clients \ {Serve} : Collect(c)
      BY <1>4 DEF WaiterIsAnswered
    <2> QED
      BY <1>1, <1>2, <2>1, CollectFrees
  <1>5. CASE WaiterLeaves
    BY <1>1, <1>5 DEF WaiterLeaves, Leave, tableVars
  <1>6. CASE Virgl
    <2>1. UNCHANGED <<channelVars, tableVars>>
      BY <1>6 DEF Virgl, Library, Signal, WriteContextFence, Deadline
    <2> QED
      BY <1>1, <2>1 DEF channelVars, tableVars
  <1>7. CASE ~ Waiters /\ ~ Virgl
    <2>1. UNCHANGED actorVars
      BY <1>7 DEF Next, MesaSteps, VtestThread, ServerSteps, CreateVenusContext,
         Submit, SendAndReturn, Unref, VenusCapset, CreateBlobResource, ReceiveAnswer,
         NoAnswer, ReaderThread, Reader, ReaderEnds, Watcher, WatcherDiffs,
         WatcherShips, LinkFails, CExits, NoEngine, vars
    <2> QED
      BY <1>1, <2>1 DEF actorVars, channelVars, tableVars
  <1> QED
    BY <1>3, <1>4, <1>5, <1>6, <1>7 DEF Waiters

\* What AccountsSame asks of the message thread and the engine, when neither
\* of them moves.
LEMMA NeitherMoves ==
    ASSUME ActorInv, OthersWait, Accounts, [Next]_vars, ~ MessageThread, ~ Engine
    PROVE  /\ nextResource \in Nat /\ nextResource' = nextResource
           /\ UNCHANGED <<spc, smsg, sout, sblobs, exported, internal, rings>>
           /\ spc' = "send" /\ smsg'.type = "UnrefResource" => smsg'.res \notin exported
           /\ Orphaned' => Orphan' \in 1 .. nextResource' - 1 /\ Orphan' \notin Back
           /\ Orphaned' => Orphaned /\ Orphan' = Orphan
  <1>1. nextResource \in Nat
    BY DEF ActorInv, ActorTypeOK
  <1>2. Orphaned' = Orphaned /\ Orphan' = Orphan
    BY OthersLeave, OrphanSame
  <1> QED
    BY <1>1, <1>2, OthersLeave DEF Accounts, Tables, Apart

\* The steps of Mesa's socket keep the accounts.
LEMMA AccountsOfVtest ==
    ASSUME VtestTypes, InOrder, ActorInv, OthersWait, EngineHolds, Accounts,
           [Next]_vars, ~ MessageThread, ~ Engine, MesaSteps \/ ServerSteps
    PROVE  Accounts'
  <1>1. UNCHANGED <<cblobs, replies, link, c2s, s2c>>
    BY DEF MesaSteps, ServerSteps, cVars, linkVars
  <1>2. /\ BackAtS' = BackAtS /\ TellingAtC' = TellingAtC /\ TellingFromS' = TellingFromS
    BY <1>1, NeitherMoves, ViewsSame
  <1>3. CASE Greet \/ AskBlob \/ AskSubmit \/ AskSync \/ ReadReply \/ Exit \/ Server
    BY <1>1, <1>2, <1>3, VtestViews, NeitherMoves, AccountsSame
  <1>4. CASE AskUnref
    <2>1. PICK r \in mapped :
             /\ Say([VtestCommand("ResourceUnref") EXCEPT !.res = r])
             /\ mapped' = mapped \ {r}
      BY <1>4 DEF AskUnref
    <2>2. awaited = << >> /\ UNCHANGED <<outbox, vpc, serving>>
      BY <1>4 DEF AskUnref, Ready, serverVars
    <2>3. outbox = << >>
      <3>1. Len(awaited) = 0 /\ Len(outbox) <= Len(awaited)
        BY <2>2 DEF InOrder, Written
      <3> QED
        BY <3>1, VtestQueues
    <2>4. MesaOwns = mapped /\ MesaOwns' = mapped \ {r}
      BY <2>1, <2>2, <2>3, NoneIn DEF MesaOwns
    <2>5. BackAtC' = BackAtC \cup {r}
      <3>1. issued \in Nat /\ r \in Nat /\ "ResourceUnref" \in Kinds
        BY Greeting DEF VtestTypes, VtestTypeOK, Kinds
      <3> DEFINE cmd == [VtestCommand("ResourceUnref") EXCEPT !.res = r]
      <3>2. cmd \in VtestCommands /\ cmd.kind = "ResourceUnref" /\ cmd.res = r
        BY <3>1, NewCommand DEF VtestCommands
      <3>3. Say(cmd)
        BY <2>1
      <3> HIDE DEF cmd
      <3> QED
        BY <2>2, <3>2, <3>3, SayViews
    <2>6. r \in exported /\ r \notin Coming
      BY <2>4 DEF Accounts, Tables, Apart
    <2>7. Back' = Back \cup {r} /\ Coming' = Coming /\ ComingAtC' = ComingAtC
      BY <1>2, <2>5 DEF Back, Coming, ComingAtC
    <2>8. Tables'
      BY <1>1, <1>2, <2>4, NeitherMoves DEF Accounts, Tables
    <2>9. Apart'
      <3>1. Back' \subseteq 1 .. nextResource' - 1
        BY <2>6, <2>7, NeitherMoves DEF Accounts, Apart, Tables
      <3>2. \A x \in Back' : x \notin MesaOwns' /\ x \notin Coming'
        BY <2>4, <2>6, <2>7 DEF Accounts, Apart
      <3>3. \A x \in Coming' : x \notin MesaOwns'
        BY <2>4, <2>7 DEF Accounts, Apart
      <3>4. Orphaned' => Orphan' # r
        <4>1. Orphaned => Orphan \notin exported
          BY DEF EngineHolds
        <4> QED
          BY <2>6, <4>1, NeitherMoves
      <3> QED
        BY <2>7, <3>1, <3>2, <3>3, <3>4, NeitherMoves DEF Apart
    <2>10. NoneForgotten'
      BY <1>1, <2>2, <2>4, <2>5, <2>7, NeitherMoves DEF Accounts, NoneForgotten
    <2> QED
      BY <2>8, <2>9, <2>10 DEF Accounts
  <1> QED
    BY <1>3, <1>4 DEF MesaSteps, ServerSteps, Mesa

\* A message is sent to S.
LEMMA SentViews ==
    ASSUME LinkTypes, smsg' = smsg, NEW m \in C2S, c2s' = Append(c2s, m)
    PROVE  /\ m.type # "UnrefResource" => BackAtS' = BackAtS
           /\ m.type = "UnrefResource" => BackAtS' = BackAtS \cup {m.res}
  <1>1. Elements(c2s') = Elements(c2s) \cup {m}
    BY Queues, OneMore
  <1> QED
    BY <1>1 DEF BackAtS

\* RelayEngine's steps that neither name a resource nor learn of one.
LEMMA AccountsOfCalls ==
    ASSUME VtestTypes, LinkTypes, ActorInv, OthersWait, Accounts, Flight, [Next]_vars,
           ~ MessageThread, ~ Engine,
           CreateVenusContext \/ Submit \/ VenusCapset \/ CreateBlobResource \/ NoAnswer
    PROVE  Accounts'
  <1>1. UNCHANGED <<cblobs, replies, link, s2c>>
    BY DEF CreateVenusContext, Submit, SendAndReturn, VenusCapset, CreateBlobResource,
           NoAnswer, cVars, linkVars
  <1>2. vpc = "call" /\ serving.kind # "ResourceUnref"
    <2>1. CASE CreateVenusContext \/ Submit \/ VenusCapset \/ CreateBlobResource
      BY <2>1 DEF CreateVenusContext, Submit, VenusCapset, CreateBlobResource, Calls
    <2>2. CASE NoAnswer
      BY <2>2 DEF NoAnswer, Flight, Matching
    <2> QED
      BY <2>1, <2>2
  <1>3. MesaOwns' = MesaOwns /\ BackAtC' = BackAtC
    <2>1. CASE UNCHANGED vtestVars
      BY <2>1, ViewsSame DEF vtestVars, mesaVars, serverVars
    <2>2. ASSUME FinishCall(FALSE, 0)
          PROVE  MesaOwns' = MesaOwns /\ BackAtC' = BackAtC
      BY <1>2, <2>2, FinishViews
    <2>3. CASE CreateVenusContext \/ Submit
      <3>1. FinishCall(link = "up", 0) /\ serving.kind # "ResourceCreateBlob"
        BY <2>3 DEF CreateVenusContext, Submit, SendAndReturn, Calls
      <3>2. (link = "up") \in BOOLEAN /\ 0 \in Nat
        OBVIOUS
      <3> QED
        BY <1>2, <3>1, <3>2, FinishViews
    <2>4. CASE VenusCapset \/ CreateBlobResource \/ NoAnswer
      <3>1. FinishCall(FALSE, 0) \/ UNCHANGED vtestVars
        BY <2>4 DEF VenusCapset, CreateBlobResource, Ask, NoAnswer
      <3> QED
        BY <2>1, <2>2, <3>1
    <2> QED
      BY <2>3, <2>4
  <1>4. BackAtS' = BackAtS
    <2>1. CASE c2s' = c2s
      BY <2>1, NeitherMoves, ViewsSame
    <2>2. CASE c2s' # c2s
      <3>1. vpc = "call" /\ ~ NoAnswer
        BY <1>2, <2>2 DEF NoAnswer, linkVars
      <3>2. /\ serving.number \in Nat /\ serving.res \in Nat /\ serving.shape \in Shapes
        BY <3>1, CallsTheEngine
      <3>3. \E m \in C2S : m.type # "UnrefResource" /\ c2s' = Append(c2s, m)
        <4>1. CASE CreateVenusContext \/ Submit
          <5>1. \/ c2s' = Append(c2s, Message("CreateContext", serving.number))
                \/ c2s' = Append(c2s, Message("SubmitCmd", serving.number))
            BY <2>2, <4>1 DEF CreateVenusContext, Submit, SendAndReturn, SendC2S
          <5>2. /\ Message("CreateContext", serving.number) \in C2S
                /\ Message("CreateContext", serving.number).type = "CreateContext"
                /\ Message("SubmitCmd", serving.number) \in C2S
                /\ Message("SubmitCmd", serving.number).type = "SubmitCmd"
            BY <3>2, Sendable
          <5> QED
            BY <5>1, <5>2
        <4>2. CASE VenusCapset \/ CreateBlobResource
          <5> DEFINE blob == [Message("CreateBlob", serving.number)
                                 EXCEPT !.shape = serving.shape]
          <5>1. \/ c2s' = Append(c2s, Message("GetCapset", serving.number))
                \/ c2s' = Append(c2s, blob)
            BY <2>2, <4>2 DEF VenusCapset, CreateBlobResource, Ask, SendC2S
          <5>2. /\ Message("GetCapset", serving.number) \in C2S
                /\ Message("GetCapset", serving.number).type = "GetCapset"
                /\ blob \in C2S /\ blob.type = "CreateBlob"
            BY <3>2, RequestsSendable
          <5> HIDE DEF blob
          <5> QED
            BY <5>1, <5>2
        <4> QED
          BY <3>1, <4>1, <4>2
      <3> QED
        BY <3>3, NeitherMoves, SentViews
    <2> QED
      BY <2>1, <2>2
  <1>5. TellingAtC' = TellingAtC /\ TellingFromS' = TellingFromS
    BY <1>1, NeitherMoves, ViewsSame
  <1>6. vpc # "over"
    BY <1>2
  <1> QED
    BY <1>1, <1>3, <1>4, <1>5, <1>6, NeitherMoves, AccountsSame

\* C forgets what Mesa gives back, and tells S.
LEMMA AccountsOfUnref ==
    ASSUME VtestTypes, LinkTypes, ActorInv, OthersWait, Accounts, [Next]_vars,
           ~ MessageThread, ~ Engine, Unref
    PROVE  Accounts'
  <1> DEFINE r == serving.res
  <1>1. /\ vpc = "call" /\ serving.kind = "ResourceUnref" /\ FinishCall(TRUE, 0)
        /\ cblobs' = Without(cblobs, r)
        /\ UNCHANGED <<replies, link, s2c>>
        /\ \/ link = "up" /\ c2s' = Append(c2s, [Message("UnrefResource", serving.number)
                                                    EXCEPT !.res = r])
           \/ link # "up" /\ c2s' = c2s
    BY DEF Unref, Calls, ForgetBlob, SendC2S
  <1>2. /\ DOMAIN cblobs' = DOMAIN cblobs \ {r}
        /\ \A x \in DOMAIN cblobs' : cblobs'[x] = cblobs[x]
    BY <1>1 DEF Without
  <1>3. MesaOwns' = MesaOwns /\ BackAtC = BackAtC' \cup {r}
    BY <1>1, FinishViews
  <1>4. /\ link = "up" => BackAtS' = BackAtS \cup {r}
        /\ link # "up" => BackAtS' = BackAtS
    <2>1. CASE link = "up"
      <3> DEFINE m == [Message("UnrefResource", serving.number) EXCEPT !.res = r]
      <3>1. serving.number \in Nat /\ r \in Nat
        BY <1>1, CallsTheEngine
      <3>2. m \in C2S /\ m.type = "UnrefResource" /\ m.res = r
        BY <3>1, Sendable
      <3>3. c2s' = Append(c2s, m)
        BY <1>1, <2>1
      <3> HIDE DEF m
      <3> QED
        BY <2>1, <3>2, <3>3, NeitherMoves, SentViews
    <2>2. CASE link # "up"
      BY <1>1, <2>2, NeitherMoves, ViewsSame
    <2> QED
      BY <2>1, <2>2
  <1>5. TellingAtC' = TellingAtC /\ TellingFromS' = TellingFromS
    BY <1>1, NeitherMoves, ViewsSame
  <1>6. /\ Back' \subseteq Back /\ Coming' = Coming /\ ComingAtC' = ComingAtC
        /\ link = "up" => Back' = Back
    BY <1>3, <1>4, <1>5 DEF Back, Coming, ComingAtC
  <1>7. r \notin MesaOwns /\ r \notin Coming
    BY <1>3 DEF Accounts, Apart, Back
  <1>8. Tables'
    <2>1. \A x \in MesaOwns' : /\ x \in DOMAIN cblobs' /\ x \in DOMAIN sblobs'
                               /\ cblobs'[x] = sblobs'[x]
      BY <1>2, <1>3, <1>7, NeitherMoves DEF Accounts, Tables
    <2>2. \A m \in TellingAtC' : m.res \in DOMAIN cblobs' /\ cblobs'[m.res] = m.number
      BY <1>2, <1>5, <1>7 DEF Accounts, Tables, Coming
    <2> QED
      BY <1>5, <2>1, <2>2, NeitherMoves DEF Accounts, Tables
  <1>9. Apart'
    BY <1>3, <1>6, NeitherMoves DEF Accounts, Apart
  <1>10. NoneForgotten'
    BY <1>1, <1>2, <1>3, <1>6, NeitherMoves DEF Accounts, NoneForgotten
  <1> QED
    BY <1>8, <1>9, <1>10 DEF Accounts

\* The answer becomes Mesa's reply.
LEMMA AccountsOfAnswer ==
    ASSUME VtestTypes, LinkTypes, ActorInv, OthersWait, InPhase, Accounts, Flight,
           [Next]_vars, ~ MessageThread, ~ Engine, ReceiveAnswer
    PROVE  Accounts'
  <1> DEFINE m == Head(replies)
  <1> DEFINE ok == m.type = Expected
  <1> DEFINE named == IF ok /\ m.type = "BlobCreated" THEN m.res ELSE 0
  <1>1. /\ asked # None /\ replies # << >> /\ replies' = Tail(replies)
        /\ FinishCall(ok, named)
        /\ UNCHANGED <<cblobs, link, c2s, s2c>>
    BY DEF ReceiveAnswer, linkVars
  <1>2. /\ m \in S2C /\ m.res \in Nat /\ m = replies[1] /\ 1 \in 1 .. Len(replies)
    BY <1>1, NextAnswer
  <1>3. /\ ok \in BOOLEAN /\ named \in Nat
    BY <1>2
  <1>4. IsAnswerTo(m, asked)
    BY <1>2 DEF Flight, Matching
  <1>5. /\ vpc = "call"
        /\ serving.kind = IF asked.type = "GetCapset" THEN "GetCapset"
                          ELSE "ResourceCreateBlob"
    BY <1>1 DEF Flight, Matching
  <1>6. m.type = "BlobCreated" => asked.type = "CreateBlob" /\ ok /\ named = m.res
    BY <1>4 DEF IsAnswerTo, Expected
  <1>7. /\ TellingAtC = IF m.type = "BlobCreated" THEN {m} ELSE {}
        /\ TellingAtC' = {}
    <2>1. Elements(replies) = {m} \cup Elements(replies')
      BY <1>1, Queues, OneLess
    <2>2. replies' = << >>
      <3>1. Len(replies) <= 1 /\ Len(replies) # 0 /\ Len(replies) \in Nat
        BY <1>1, Queues DEF Flight, OneInFlight
      <3>2. Len(replies') = Len(replies) - 1 /\ replies' \in Seq(S2C)
        BY <1>1, Queues
      <3> QED
        BY <3>1, <3>2
    <2> QED
      BY <2>1, <2>2, NoneIn DEF TellingAtC
  <1>8. TellingFromS = {} /\ TellingFromS' = {}
    <2>1. ~ OnItsWayBack /\ ~ InHand
      BY <1>1 DEF Flight, OneInFlight
    <2>2. \A x \in Elements(s2c) : x.type # "BlobCreated"
      BY <2>1 DEF OnItsWayBack, Elements, IsAnswer
    <2>3. sout.type # "BlobCreated"
      <3>1. sout = None => sout.type = "none"
        BY NoMessage
      <3> QED
        BY <2>1, <3>1 DEF InPhase, InHand, IsAnswer
    <2>4. TellingFromS = {}
      BY <2>2, <2>3 DEF TellingFromS
    <2> QED
      BY <1>1, <2>4, NeitherMoves, ViewsSame
  <1> HIDE DEF m, ok, named
  <1>9. /\ BackAtC' = BackAtC
        /\ MesaOwns' = MesaOwns
             \/ (m.type = "BlobCreated" /\ MesaOwns' = MesaOwns \cup {m.res})
        /\ m.type = "BlobCreated" /\ vpc' # "over" => MesaOwns' = MesaOwns \cup {m.res}
    <2>1. /\ serving.kind # "ResourceUnref" => BackAtC' = BackAtC
          /\ serving.kind # "ResourceCreateBlob" \/ ~ ok => MesaOwns' = MesaOwns
          /\ MesaOwns' = MesaOwns \/ MesaOwns' = MesaOwns \cup {named}
          /\ serving.kind = "ResourceCreateBlob" /\ vpc' # "over"
                => ok /\ MesaOwns' = MesaOwns \cup {named}
      BY <1>1, <1>3, FinishViews
    <2>2. asked.type = "CreateBlob" => serving.kind = "ResourceCreateBlob"
      BY <1>5
    <2>3. serving.kind = "ResourceCreateBlob" /\ ok => m.type = "BlobCreated"
      BY <1>5 DEF ok, Expected
    <2> QED
      BY <1>5, <1>6, <2>1, <2>2, <2>3
  <1>10. BackAtS' = BackAtS /\ Back' = Back
    BY <1>1, <1>9, NeitherMoves, ViewsSame DEF Back
  <1>11. /\ Coming' = {} /\ ComingAtC' = {}
         /\ ComingAtC = Coming
         /\ Coming = IF m.type = "BlobCreated" THEN {m.res} ELSE {}
    BY <1>7, <1>8 DEF Coming, ComingAtC
  <1>12. Tables'
    <2>1. m.type = "BlobCreated" =>
            /\ m.res \in DOMAIN cblobs /\ m.res \in DOMAIN sblobs
            /\ cblobs[m.res] = sblobs[m.res]
      BY <1>7 DEF Accounts, Tables
    <2>2. \A x \in MesaOwns' : /\ x \in DOMAIN cblobs /\ x \in DOMAIN sblobs
                               /\ cblobs[x] = sblobs[x]
      BY <1>9, <2>1 DEF Accounts, Tables
    <2> QED
      BY <1>1, <1>7, <1>8, <2>2, NeitherMoves DEF Accounts, Tables
  <1>13. Apart'
    BY <1>9, <1>10, <1>11, NeitherMoves DEF Accounts, Apart
  <1>14. NoneForgotten'
    BY <1>1, <1>5, <1>9, <1>10, <1>11, NeitherMoves DEF Accounts, NoneForgotten
  <1> QED
    BY <1>12, <1>13, <1>14 DEF Accounts

\* The reader puts the blob in the table before it passes the answer on.
LEMMA AccountsOfReader ==
    ASSUME VtestTypes, LinkTypes, ActorInv, OthersWait, InPhase, Accounts, Flight,
           [Next]_vars, ~ MessageThread, ~ Engine, Reader
    PROVE  Accounts'
  <1> DEFINE m == Head(s2c)
  <1>1. /\ s2c # << >> /\ s2c' = Tail(s2c) /\ CommitPendingBlob(m)
        /\ replies' = IF IsAnswer(m) THEN Append(replies, m) ELSE replies
        /\ UNCHANGED <<vtestVars, link, c2s>>
    BY DEF Reader
  <1>2. /\ m \in S2C /\ m.res \in Nat /\ m = s2c[1] /\ 1 \in 1 .. Len(s2c)
    BY <1>1, NextAnswer
  <1>3. /\ MesaOwns' = MesaOwns /\ BackAtC' = BackAtC /\ BackAtS' = BackAtS /\ vpc' = vpc
        /\ Back' = Back
    BY <1>1, NeitherMoves, ViewsSame DEF vtestVars, mesaVars, serverVars, Back
  <1>4. Elements(s2c) = {m} \cup Elements(s2c')
    BY <1>1, Queues, OneLess
  <1>5. CASE m.type # "BlobCreated"
    <2>1. cblobs' = cblobs
      BY <1>1, <1>5 DEF CommitPendingBlob
    <2>2. TellingFromS' = TellingFromS
      BY <1>4, <1>5, NeitherMoves DEF TellingFromS
    <2>3. TellingAtC' = TellingAtC
      <3>1. CASE replies' = replies
        BY <3>1, ViewsSame
      <3>2. CASE replies' = Append(replies, m)
        <4>1. Elements(replies') = Elements(replies) \cup {m}
          BY <1>2, <3>2, Queues, OneMore
        <4> QED
          BY <1>5, <4>1 DEF TellingAtC
      <3> QED
        BY <1>1, <3>1, <3>2
    <2> HIDE DEF m
    <2> QED
      BY <1>1, <1>3, <2>1, <2>2, <2>3, NeitherMoves, AccountsSame
  <1>6. CASE m.type = "BlobCreated"
    <2>1. IsAnswer(m) /\ IsAnswerTo(m, asked) /\ OnItsWayBack
      BY <1>2, <1>6 DEF IsAnswer, Flight, Matching, OnItsWayBack
    <2>2. replies = << >> /\ asked.type = "CreateBlob" /\ asked.number = m.number
      BY <1>6, <2>1 DEF Flight, OneInFlight, IsAnswerTo
    <2>3. pending = m.number
      BY <2>2 DEF Flight, SlotIsForIt
    <2>4. pending # 0
      <3>1. asked # None
        BY <2>2, NoMessage
      <3>2. vpc = "call" /\ serving.number = asked.number
        BY <3>1 DEF Flight, Matching
      <3>3. serving.number \in 1 .. issued /\ issued \in Nat
        BY <3>2, CallsTheEngine, Greeting DEF VtestTypes, VtestTypeOK
      <3> QED
        BY <2>2, <2>3, <3>2, <3>3
    <2>5. /\ cblobs' = With(cblobs, {m.res}, m.number)
          /\ replies' = Append(replies, m)
      BY <1>1, <1>6, <2>1, <2>3, <2>4 DEF CommitPendingBlob
    <2>6. /\ DOMAIN cblobs' = DOMAIN cblobs \cup {m.res}
          /\ cblobs'[m.res] = m.number
          /\ \A x \in DOMAIN cblobs : x # m.res => cblobs'[x] = cblobs[x]
      BY <2>5 DEF With
    <2>7. /\ TellingAtC = {} /\ TellingAtC' = {m}
      <3>1. Elements(replies') = Elements(replies) \cup {m}
        BY <1>2, <2>5, Queues, OneMore
      <3> QED
        BY <1>6, <2>2, <3>1, NoneIn DEF TellingAtC
    <2>8. /\ TellingFromS = TellingFromS' \cup {m}
      BY <1>4, <1>6, NeitherMoves DEF TellingFromS
    <2> HIDE DEF m
    <2>9. /\ Coming' = Coming /\ m.res \in Coming
          /\ ComingAtC = {} /\ ComingAtC' = {m.res}
      BY <2>7, <2>8 DEF Coming, ComingAtC
    <2>10. m.res \notin MesaOwns
      BY <2>9 DEF Accounts, Apart
    <2>11. Tables'
      <3>1. \A x \in MesaOwns' : /\ x \in DOMAIN cblobs' /\ x \in DOMAIN sblobs'
                                 /\ cblobs'[x] = sblobs'[x]
        BY <1>3, <2>6, <2>10, NeitherMoves DEF Accounts, Tables
      <3>2. \A x \in TellingAtC' : x.res \in DOMAIN cblobs' /\ cblobs'[x.res] = x.number
        BY <2>6, <2>7
      <3>3. \A x \in TellingAtC' \cup TellingFromS' :
               x.res \in DOMAIN sblobs' /\ sblobs'[x.res] = x.number
        BY <2>7, <2>8, NeitherMoves DEF Accounts, Tables
      <3> QED
        BY <3>1, <3>2, <3>3, NeitherMoves DEF Accounts, Tables
    <2>12. Apart'
      BY <1>3, <2>9, NeitherMoves DEF Accounts, Apart
    <2>13. NoneForgotten'
      BY <1>1, <1>3, <2>6, <2>9, NeitherMoves DEF Accounts, NoneForgotten
    <2> QED
      BY <2>11, <2>12, <2>13 DEF Accounts
  <1> QED
    BY <1>5, <1>6

\* C's other threads, and the steps that C and S's message thread know nothing of.
LEMMA AccountsOfOthers ==
    ASSUME VtestTypes, LinkTypes, ActorInv, OthersWait, Accounts, [Next]_vars,
           ~ MessageThread, ~ Engine,
           ReaderEnds \/ Watcher \/ Virgl \/ Waiters \/ UNCHANGED vars
    PROVE  Accounts'
  <1>1. UNCHANGED <<cblobs, replies, link, s2c, vtestVars>>
    BY DEF ReaderEnds, Watcher, WatcherDiffs, WatcherShips, Virgl, Waiters, WaiterAsks,
           WaiterIsAnswered, WaiterLeaves, vars, cVars, linkVars
  <1>2. /\ MesaOwns' = MesaOwns /\ BackAtC' = BackAtC /\ vpc' = vpc
        /\ TellingAtC' = TellingAtC /\ TellingFromS' = TellingFromS
    BY <1>1, NeitherMoves, ViewsSame DEF vtestVars, mesaVars, serverVars
  <1>3. BackAtS' = BackAtS
    <2>1. CASE c2s' = c2s
      BY <2>1, NeitherMoves, ViewsSame
    <2>2. CASE c2s' # c2s
      <3> DEFINE m == [Message("BlobData", 0) EXCEPT !.res = batch]
      <3>1. c2s' = Append(c2s, m)
        BY <2>2 DEF ReaderEnds, Watcher, WatcherDiffs, WatcherShips, Virgl, Waiters,
                    WaiterAsks, WaiterIsAnswered, WaiterLeaves, vars, linkVars
      <3>2. m \in C2S /\ m.type = "BlobData"
        <4>1. batch \in Nat /\ 0 \in Nat
          BY DEF LinkTypes
        <4> QED
          BY <4>1, Sendable
      <3> HIDE DEF m
      <3> QED
        BY <3>1, <3>2, NeitherMoves, SentViews
    <2> QED
      BY <2>1, <2>2
  <1> QED
    BY <1>1, <1>2, <1>3, NeitherMoves, AccountsSame

\* So does a link that fails with what is on it.
LEMMA AccountsOfLink ==
    ASSUME VtestTypes, LinkTypes, ActorInv, OthersWait, Accounts, [Next]_vars,
           ~ MessageThread, ~ Engine, LinkFails \/ CExits \/ NoEngine
    PROVE  Accounts'
  <1>1. /\ link' = "down"
        /\ \E n \in 0 .. Len(c2s) : c2s' = SubSeq(c2s, 1, n)
        /\ \E n \in 0 .. Len(s2c) : s2c' = SubSeq(s2c, 1, n)
        /\ UNCHANGED <<vtestVars, cblobs, replies>>
    BY DEF LinkFails, CExits, NoEngine, cVars
  <1>2. /\ MesaOwns' = MesaOwns /\ BackAtC' = BackAtC /\ TellingAtC' = TellingAtC
    BY <1>1, NeitherMoves, ViewsSame DEF vtestVars, mesaVars, serverVars
  <1>3. Elements(c2s') \subseteq Elements(c2s) /\ Elements(s2c') \subseteq Elements(s2c)
    BY <1>1, Queues, SomeLess
  <1>4. BackAtS' \subseteq BackAtS /\ TellingFromS' \subseteq TellingFromS
    BY <1>3, NeitherMoves DEF BackAtS, TellingFromS
  <1>5. Back' \subseteq Back /\ Coming' \subseteq Coming
    BY <1>2, <1>4 DEF Back, Coming
  <1>6. Tables'
    BY <1>1, <1>2, <1>4, NeitherMoves DEF Accounts, Tables
  <1>7. Apart'
    BY <1>2, <1>5, NeitherMoves DEF Accounts, Apart
  <1>8. NoneForgotten'
    BY <1>1 DEF NoneForgotten
  <1> QED
    BY <1>6, <1>7, <1>8 DEF Accounts

\* The engine answers, and may have made a resource.
LEMMA AccountsOfEngine ==
    ASSUME ActorInv, LinkTypes, InPhase, OthersWait, EngineHolds, Accounts, Engine
    PROVE  Accounts'
  <1>1. /\ RunActor
        /\ UNCHANGED <<vtestVars, cblobs, replies, link, c2s, s2c, spc, smsg, sout,
                       sblobs, exported, internal, rings>>
    BY DEF Engine, cVars, linkVars, sVars, applierVars
  <1>2. /\ MesaOwns' = MesaOwns /\ BackAtC' = BackAtC /\ BackAtS' = BackAtS
        /\ TellingAtC' = TellingAtC /\ TellingFromS' = TellingFromS /\ vpc' = vpc
    BY <1>1, ViewsSame DEF vtestVars, mesaVars, serverVars
  <1>3. nextResource \in Nat \ {0}
    BY DEF ActorInv, ActorTypeOK
  <1>4. /\ nextResource' \in Nat /\ nextResource <= nextResource'
        /\ Orphaned' => Orphan' \in 1 .. nextResource' - 1 /\ Orphan' \notin Back
    <2>1. CASE EngineIdles
      <3>1. Orphaned' = Orphaned /\ Orphan' = Orphan /\ nextResource' = nextResource
        BY <1>1, <2>1, OrphanSame DEF EngineIdles
      <3> QED
        BY <1>3, <3>1 DEF Accounts, Apart
    <2>2. CASE EngineReplies
      <3>1. ~ Orphaned'
        BY <1>1, <2>2 DEF EngineReplies, Orphaned
      <3> QED
        BY <1>3, <2>2, <3>1 DEF EngineReplies
    <2>3. CASE EngineMakes
      <3>1. Orphan' = nextResource /\ nextResource' = nextResource + 1
        BY <2>3 DEF EngineMakes, Orphan
      <3>2. nextResource \notin Back
        BY <1>3 DEF Accounts, Apart
      <3> QED
        BY <1>3, <3>1, <3>2
    <2>4. CASE EngineDrops
      <3>1. ~ Orphaned'
        BY <1>1, <2>4 DEF EngineDrops, Orphaned
      <3> QED
        BY <1>3, <2>4, <3>1 DEF EngineDrops
    <2> QED
      BY <1>1, <2>1, <2>2, <2>3, <2>4, EngineDoes
  <1>5. spc' = "send" /\ smsg'.type = "UnrefResource" => smsg'.res \notin exported
    BY <1>1 DEF Accounts, Tables
  <1> QED
    BY <1>1, <1>2, <1>3, <1>4, <1>5, AccountsSame

\* What the message thread leaves alone of C and of the engine.
LEMMA ServeLeaves ==
    ASSUME ActorInv, InPhase, MessageThread
    PROVE  /\ UNCHANGED <<cblobs, replies, vpc, link>> /\ nextResource \in Nat
           /\ nextResource' = nextResource
           /\ MesaOwns' = MesaOwns /\ BackAtC' = BackAtC /\ TellingAtC' = TellingAtC
  <1>1. UNCHANGED <<vtestVars, cVars, link>>
    BY DEF MessageThread, Receive, Applied, Undo, Undone, SendAnswer, ServeEnds, linkVars
  <1>2. nextResource' = nextResource
    BY DEF MessageThread, Receive, Applied, Undo, Undone, SendAnswer, ServeEnds, Request,
           Collect, Leave, actorVars, tableVars
  <1>3. nextResource \in Nat
    BY DEF ActorInv, ActorTypeOK
  <1> QED
    BY <1>1, <1>2, <1>3, ViewsSame DEF vtestVars, mesaVars, serverVars, cVars

\* So does the message thread when it takes a message.
LEMMA AccountsOfReceive ==
    ASSUME ActorInv, LinkTypes, InPhase, Accounts, Receive
    PROVE  Accounts'
  <1>1. /\ spc = "recv" /\ c2s # << >> /\ c2s' = Tail(c2s) /\ smsg' = Head(c2s)
        /\ UNCHANGED <<s2c, sblobs, exported, internal, rings>>
        /\ \/ spc' = "send" /\ sout' \in {Error', None}
              /\ smsg'.type \in {"Hello", "BlobData", "CreateBlob"}
           \/ spc' = "engine" /\ sout' = sout /\ Request(Serve, EngineCall(smsg'))
    BY DEF Receive, applierVars
  <1>2. sout = None /\ smsg = None /\ None.type = "none"
    BY <1>1, NoMessage DEF InPhase
  <1>3. BackAtS' = BackAtS
    <2>1. Elements(c2s) = {smsg'} \cup Elements(c2s')
      BY <1>1, Queues, OneLess
    <2> QED
      BY <1>2, <2>1 DEF BackAtS
  <1>4. sout'.type # "BlobCreated"
    <2>1. smsg' \in Messages
      BY <1>1, NextMessage DEF C2S
    <2>2. Error' = [Message("Error", smsg'.number)
                       EXCEPT !.solicited = MessageIsSolicited(smsg')]
      BY DEF Error, MessageIsSolicited
    <2>3. Error'.type = "Error"
      BY <2>1, <2>2, ErrorAnswers
    <2> QED
      BY <1>1, <1>2, <2>3
  <1>5. TellingFromS' = TellingFromS
    BY <1>1, <1>2, <1>4 DEF TellingFromS
  <1>6. ~ Orphaned'
    <2>1. spc' = "engine" => answers'[Serve] = << >>
      BY <1>1, RequestBlocks, SessionAssumption
    <2> QED
      BY <2>1 DEF Orphaned, Answered
  <1>7. ~ (spc' = "send" /\ smsg'.type = "UnrefResource")
    BY <1>1
  <1> QED
    BY <1>1, <1>3, <1>5, <1>6, <1>7, ServeLeaves, AccountsSame DEF MessageThread

\* The engine's answer is applied.
LEMMA AccountsOfApplied ==
    ASSUME ActorInv, LinkTypes, InPhase, EngineHolds, Accounts, Applied
    PROVE  Accounts'
  <1>1. /\ AppliedCases /\ spc = "engine" /\ answers[Serve] # << >>
        /\ UNCHANGED <<c2s, s2c>>
    BY AppliedDoes DEF linkVars
  <1>2. /\ UNCHANGED <<cblobs, replies, vpc, link>> /\ nextResource \in Nat
        /\ nextResource' = nextResource
        /\ MesaOwns' = MesaOwns /\ BackAtC' = BackAtC /\ TellingAtC' = TellingAtC
    BY ServeLeaves DEF MessageThread
  <1>3. sout = None /\ None.type = "none" /\ ForEngine(smsg) /\ smsg \in Messages
    BY <1>1, NoMessage DEF InPhase, LinkTypes, C2S
  <1>4. Answered /\ answers[Serve][1].res \in Nat
    BY <1>1, EngineAnswer DEF Answered
  <1>5. ~ Orphaned'
    <2>1. spc' # "engine"
      BY <1>1 DEF AppliedCases, AppliedRefused, AppliedContext, AppliedCapset,
                  AppliedBlob, AppliedUnmapped, AppliedSubmit, AppliedUnref, Answering,
                  Registered, MapFailed, Forgotten
    <2> QED
      BY <2>1 DEF Orphaned
  <1>6. sout'.type # "BlobCreated" => TellingFromS' = TellingFromS
    BY <1>1, <1>3 DEF TellingFromS
  <1>7. CASE AppliedRefused \/ AppliedContext \/ AppliedCapset \/ AppliedSubmit
    <2>1. /\ UNCHANGED <<smsg, sblobs, exported, internal, rings>>
          /\ sout' \in {Error, None, Message("Capset", smsg.number)}
          /\ smsg.type # "UnrefResource"
      <3>1. CASE AppliedRefused
        <4>1. smsg.type = "UnrefResource" => answers[Serve][1].ok
          BY <1>1, <1>4 DEF EngineHolds, Dropped
        <4> QED
          BY <3>1, <4>1 DEF AppliedRefused, Answering, applierVars
      <3>2. CASE AppliedContext \/ AppliedCapset \/ AppliedSubmit
        BY <3>2 DEF AppliedContext, AppliedCapset, AppliedSubmit, Answering, applierVars
      <3> QED
        BY <1>7, <3>1, <3>2
    <2>2. sout'.type # "BlobCreated"
      <3>1. Error.type = "Error" /\ Message("Capset", smsg.number).type = "Capset"
        BY <1>4, Answerable
      <3> QED
        BY <1>3, <2>1, <3>1
    <2>3. BackAtS' = BackAtS
      BY <1>1, <2>1, ViewsSame
    <2> QED
      BY <1>2, <1>5, <1>6, <2>1, <2>2, <2>3, AccountsSame
  <1>8. CASE AppliedUnmapped
    <2>1. /\ smsg' = [smsg EXCEPT !.res = answers[Serve][1].res]
          /\ smsg.type = "CreateBlob" /\ spc' = "undo" /\ sout' = sout
          /\ UNCHANGED <<sblobs, exported, internal, rings>>
      BY <1>8 DEF AppliedUnmapped, MapFailed, applierVars
    <2>2. smsg'.type = "CreateBlob"
      BY <1>3, <1>4, <2>1, FilledRes
    <2>3. BackAtS' = BackAtS
      BY <1>1, <2>1, <2>2 DEF BackAtS
    <2>4. sout'.type # "BlobCreated"
      BY <1>3, <2>1
    <2> QED
      BY <1>2, <1>5, <1>6, <2>1, <2>2, <2>3, <2>4, AccountsSame
  <1>9. CASE AppliedBlob
    <2> DEFINE made == [Message("BlobCreated", smsg.number)
                           EXCEPT !.res = answers[Serve][1].res]
    <2>1. /\ smsg.type = "CreateBlob" /\ answers[Serve][1].ok
          /\ sblobs' = With(sblobs, {Orphan}, smsg.number)
          /\ exported' = exported \cup {Orphan}
          /\ internal' = internal \/ internal' = internal \cup {Orphan}
          /\ rings' \subseteq internal'
          /\ sout' = made /\ smsg' = smsg /\ spc' = "send"
      <3>1. rings \subseteq internal
        BY DEF Accounts, Tables
      <3>2. smsg.shape = "ring" => smsg.shape # "application"
        OBVIOUS
      <3> QED
        BY <1>9, <3>1, <3>2 DEF AppliedBlob, Registered, Orphan
    <2>2. Orphaned
      BY <1>1, <1>4, <2>1 DEF Orphaned
    <2>3. /\ Orphan \notin exported /\ Orphan \in 1 .. nextResource - 1
          /\ Orphan \notin Back
      BY <2>2 DEF EngineHolds, Accounts, Apart
    <2>4. /\ made.type = "BlobCreated" /\ made.res = Orphan
          /\ made.number = smsg.number
      BY <1>4, Answerable DEF Orphan
    <2> HIDE DEF made
    <2>5. TellingFromS' = TellingFromS \cup {made}
      BY <1>1, <1>3, <2>1, <2>4 DEF TellingFromS
    <2>6. BackAtS' = BackAtS /\ Back' = Back
      BY <1>1, <1>2, <2>1, ViewsSame DEF Back
    <2>7. /\ Coming' = Coming \cup {Orphan} /\ ComingAtC' = ComingAtC
      BY <1>2, <2>4, <2>5 DEF Coming, ComingAtC
    <2>8. /\ DOMAIN sblobs' = DOMAIN sblobs \cup {Orphan}
          /\ sblobs'[Orphan] = smsg.number
          /\ \A x \in DOMAIN sblobs : x # Orphan => sblobs'[x] = sblobs[x]
      BY <2>1 DEF With
    <2>9. /\ DOMAIN sblobs = exported
          /\ \A x \in MesaOwns : x \in DOMAIN sblobs /\ x # Orphan
          /\ \A x \in TellingAtC \cup TellingFromS :
                x.res \in DOMAIN sblobs /\ x.res # Orphan
      BY <2>3 DEF Accounts, Tables
    <2>10. Tables'
      <3>1. /\ DOMAIN sblobs' = exported' /\ internal' \subseteq exported'
            /\ rings' \subseteq internal' /\ exported' \subseteq 1 .. nextResource' - 1
        BY <1>2, <2>1, <2>3, <2>8 DEF Accounts, Tables
      <3>2. \A x \in MesaOwns' : /\ x \in DOMAIN cblobs' /\ x \in DOMAIN sblobs'
                                 /\ cblobs'[x] = sblobs'[x]
        BY <1>2, <2>8, <2>9 DEF Accounts, Tables
      <3>3. \A x \in TellingAtC' \cup TellingFromS' :
               x.res \in DOMAIN sblobs' /\ sblobs'[x.res] = x.number
        BY <1>2, <2>4, <2>5, <2>8, <2>9 DEF Accounts, Tables
      <3>4. \A x \in TellingAtC' : x.res \in DOMAIN cblobs' /\ cblobs'[x.res] = x.number
        BY <1>2 DEF Accounts, Tables
      <3>5. smsg'.type # "UnrefResource"
        BY <2>1
      <3> QED
        BY <3>1, <3>2, <3>3, <3>4, <3>5 DEF Tables
    <2>11. Apart'
      BY <1>2, <1>5, <2>3, <2>6, <2>7, <2>9 DEF Accounts, Apart
    <2>12. NoneForgotten'
      BY <1>2, <2>6, <2>7, <2>8 DEF Accounts, NoneForgotten
    <2> QED
      BY <2>10, <2>11, <2>12 DEF Accounts
  <1>10. CASE AppliedUnref
    <2>1. /\ smsg.type = "UnrefResource"
          /\ sblobs' = Without(sblobs, smsg.res) /\ exported' = exported \ {smsg.res}
          /\ internal' = internal \ {smsg.res} /\ rings' = rings \ {smsg.res}
          /\ sout' = None /\ smsg' = smsg
      BY <1>10 DEF AppliedUnref, Forgotten
    <2>2. /\ TellingFromS' = TellingFromS
      BY <1>3, <1>6, <2>1
    <2>3. BackAtS' = BackAtS /\ Back' = Back
      BY <1>1, <1>2, <2>1, ViewsSame DEF Back
    <2>4. Coming' = Coming /\ ComingAtC' = ComingAtC
      BY <1>2, <2>2 DEF Coming, ComingAtC
    <2>5. smsg.res \in Back
      BY <2>1 DEF Back, BackAtS
    <2>6. smsg.res \notin MesaOwns /\ smsg.res \notin Coming
      BY <2>5 DEF Accounts, Apart
    <2>7. \A x \in TellingAtC \cup TellingFromS : x.res # smsg.res
      BY <2>6 DEF Coming
    <2>8. /\ DOMAIN sblobs' = DOMAIN sblobs \ {smsg.res}
          /\ \A x \in DOMAIN sblobs' : sblobs'[x] = sblobs[x]
      BY <2>1 DEF Without
    <2>9. Tables'
      <3>1. /\ DOMAIN sblobs' = exported' /\ internal' \subseteq exported'
            /\ rings' \subseteq internal' /\ exported' \subseteq 1 .. nextResource' - 1
        BY <1>2, <2>1, <2>8 DEF Accounts, Tables
      <3>2. \A x \in MesaOwns' : /\ x \in DOMAIN cblobs' /\ x \in DOMAIN sblobs'
                                 /\ cblobs'[x] = sblobs'[x]
        BY <1>2, <2>6, <2>8 DEF Accounts, Tables
      <3>3. \A x \in TellingAtC' \cup TellingFromS' :
               x.res \in DOMAIN sblobs' /\ sblobs'[x.res] = x.number
        BY <1>2, <2>2, <2>7, <2>8 DEF Accounts, Tables
      <3>4. \A x \in TellingAtC' : x.res \in DOMAIN cblobs' /\ cblobs'[x.res] = x.number
        BY <1>2 DEF Accounts, Tables
      <3>5. smsg'.res \notin exported'
        BY <2>1
      <3> QED
        BY <3>1, <3>2, <3>3, <3>4, <3>5 DEF Tables
    <2>10. Apart'
      BY <1>2, <1>5, <2>3, <2>4 DEF Accounts, Apart
    <2>11. NoneForgotten'
      BY <1>2, <2>3, <2>4, <2>8 DEF Accounts, NoneForgotten
    <2> QED
      BY <2>9, <2>10, <2>11 DEF Accounts
  <1> QED
    BY <1>1, <1>7, <1>8, <1>9, <1>10 DEF AppliedCases

\* So does the unref that takes a refused creation back, and the end of the
\* thread.
LEMMA AccountsOfUndo ==
    ASSUME ActorInv, LinkTypes, InPhase, Accounts, Undo \/ Undone \/ ServeEnds
    PROVE  Accounts'
  <1>1. /\ UNCHANGED <<c2s, s2c, smsg, sblobs, exported, internal, rings>>
        /\ spc' \in {"undoing", "send", "over"}
        /\ spc' = "send" => smsg.type = "CreateBlob"
        /\ \/ sout' = sout
           \/ sout = None /\ sout' = Error
    BY DEF Undo, Undone, ServeEnds, Answering, linkVars, applierVars, InPhase
  <1>2. BackAtS' = BackAtS
    BY <1>1, ViewsSame
  <1>3. TellingFromS' = TellingFromS
    <2>1. Error.type = "Error" /\ None.type = "none"
      <3>1. 0 \in Nat
        OBVIOUS
      <3> QED
        BY <3>1, Answerable, NoMessage
    <2>2. CASE sout' = sout
      BY <1>1, <2>2, ViewsSame
    <2>3. CASE sout = None /\ sout' = Error
      BY <1>1, <2>1, <2>3 DEF TellingFromS
    <2> QED
      BY <1>1, <2>2, <2>3
  <1>4. ~ Orphaned'
    BY <1>1 DEF Orphaned
  <1>5. ~ (spc' = "send" /\ smsg'.type = "UnrefResource")
    BY <1>1
  <1> QED
    BY <1>1, <1>2, <1>3, <1>4, <1>5, ServeLeaves, AccountsSame DEF MessageThread

\* The message is done with, and its answer on its way.
LEMMA AccountsOfSend ==
    ASSUME ActorInv, LinkTypes, InPhase, Accounts, SendAnswer
    PROVE  Accounts'
  <1>1. /\ spc = "send" /\ smsg' = None /\ sout' = None /\ c2s' = c2s
        /\ spc' \in {"recv", "over"}
        /\ UNCHANGED <<sblobs, exported, internal, rings>>
        /\ \/ link = "down" /\ s2c' = s2c
           \/ sout = None /\ s2c' = s2c
           \/ sout # None /\ s2c' = Append(s2c, sout)
    BY DEF SendAnswer, applierVars
  <1>2. /\ UNCHANGED <<cblobs, replies, vpc, link>> /\ nextResource \in Nat
        /\ nextResource' = nextResource
        /\ MesaOwns' = MesaOwns /\ BackAtC' = BackAtC /\ TellingAtC' = TellingAtC
    BY ServeLeaves DEF MessageThread
  <1>3. None.type = "none"
    BY NoMessage
  <1>4. /\ TellingFromS' \subseteq TellingFromS
        /\ link # "down" => TellingFromS' = TellingFromS
    <2>1. CASE s2c' = s2c
      BY <1>1, <1>3, <2>1 DEF TellingFromS
    <2>2. CASE sout # None /\ s2c' = Append(s2c, sout)
      <3>1. Elements(s2c') = Elements(s2c) \cup {sout}
        BY <2>2, Queues, OneMore DEF LinkTypes
      <3> QED
        BY <1>1, <1>3, <3>1 DEF TellingFromS
    <2> QED
      BY <1>1, <2>1, <2>2
  <1>5. /\ BackAtS' \subseteq BackAtS
        /\ \A r \in BackAtS : r \in BackAtS'
                              \/ (smsg.type = "UnrefResource" /\ r = smsg.res)
    BY <1>1, <1>3 DEF BackAtS
  <1>6. /\ Back' \subseteq Back /\ Coming' \subseteq Coming
        /\ ComingAtC' = ComingAtC
        /\ link # "down" => Coming' = Coming
        /\ \A r \in Back : r \in Back' \/ (smsg.type = "UnrefResource" /\ r = smsg.res)
    BY <1>2, <1>4, <1>5 DEF Back, Coming, ComingAtC
  <1>7. ~ Orphaned' /\ spc' # "send"
    BY <1>1 DEF Orphaned
  <1>8. Tables'
    BY <1>1, <1>2, <1>4, <1>7 DEF Accounts, Tables
  <1>9. Apart'
    BY <1>2, <1>6, <1>7 DEF Accounts, Apart
  <1>10. NoneForgotten'
    <2>1. smsg.type = "UnrefResource" => smsg.res \notin DOMAIN sblobs
      BY <1>1 DEF Accounts, Tables
    <2>2. link # "down" /\ link = "up" /\ vpc # "over" =>
             DOMAIN sblobs \subseteq MesaOwns \cup Back' \cup Coming'
      BY <1>6, <2>1 DEF Accounts, NoneForgotten
    <2> QED
      BY <1>1, <1>2, <1>6, <2>2 DEF Accounts, NoneForgotten
  <1> QED
    BY <1>8, <1>9, <1>10 DEF Accounts

\* Every step keeps the accounts.
LEMMA AccountsKept ==
    ASSUME VtestTypes, InOrder, LinkTypes, ActorInv, OthersWait, InPhase, EngineHolds,
           Flight, Accounts, [Next]_vars
    PROVE  Accounts'
  <1>1. CASE MessageThread
    BY <1>1, AccountsOfReceive, AccountsOfApplied, AccountsOfUndo, AccountsOfSend
       DEF MessageThread
  <1>2. CASE Engine
    BY <1>2, AccountsOfEngine
  <1>3. CASE ~ MessageThread /\ ~ Engine
    BY <1>3, AccountsOfVtest, AccountsOfCalls, AccountsOfUnref, AccountsOfAnswer,
       AccountsOfReader, AccountsOfOthers, AccountsOfLink
       DEF Next, VtestThread, ReaderThread
  <1> QED
    BY <1>1, <1>2, <1>3

-----------------------------------------------------------------------------
(* The theorems.                                                            *)

LEMMA SessionInit == Init => SessionInv
  <1> SUFFICES ASSUME Init PROVE SessionInv
    OBVIOUS
  <1>1. /\ VtestInit /\ ActorInit /\ limit \in Nat
        /\ asked = None /\ pending = 0 /\ cblobs = NoEntries /\ ringSlot = 0
        /\ reader = "up" /\ replies = << >> /\ batch = 0
        /\ link = "up" /\ c2s = << Message("Hello", 0) >> /\ s2c = << >>
        /\ spc = "recv" /\ smsg = None /\ sout = None
        /\ sblobs = NoEntries /\ exported = {} /\ internal = {} /\ rings = {}
    BY SessionAssumption DEF Init
  <1>2. ActorInv
    BY <1>1, InitInv
  <1>3. VtestTypes /\ InOrder
    BY <1>1, VtestInitial
  <1>4. /\ Message("Hello", 0) \in C2S /\ Message("Hello", 0).type = "Hello"
        /\ ~ IsRequest(Message("Hello", 0))
    <2>1. "Hello" \in Types /\ 0 \in Nat
      BY DEF Types
    <2> QED
      BY <2>1, MessageTypes DEF C2S, IsRequest
  <1>5. /\ Len(c2s) = 1 /\ c2s[1] = Message("Hello", 0) /\ c2s \in Seq(C2S)
        /\ Len(s2c) = 0 /\ Len(replies) = 0
        /\ s2c \in Seq(S2C) /\ replies \in Seq(S2C)
    BY <1>1, <1>4
  <1>6. LinkTypes
    <2>1. pending \in 0 .. issued
      BY <1>1 DEF VtestInit
    <2> QED
      BY <1>1, <1>5, <2>1 DEF LinkTypes, NoEntries
  <1>7. /\ ~ OnItsWay /\ ~ InHand /\ ~ OnItsWayBack
    BY <1>1, <1>4, <1>5, NoMessage DEF OnItsWay, InHand, OnItsWayBack
  <1>8. Flight
    <2>1. OneInFlight
      BY <1>4, <1>5, <1>7 DEF OneInFlight
    <2>2. Matching
      BY <1>1, <1>4, <1>5, <1>7 DEF Matching
    <2>3. SlotIsForIt /\ ReaderGone
      BY <1>1, NoMessage DEF SlotIsForIt, ReaderGone
    <2> QED
      BY <2>1, <2>2, <2>3 DEF Flight
  <1>9. /\ calls = [c \in Clients |-> NoCall] /\ actor = "starting" /\ held = {}
        /\ DOMAIN resources = {} /\ nextResource = 1
    BY <1>1 DEF ActorInit
  <1>10. InPhase /\ OthersWait
    BY <1>1, <1>9, SessionAssumption DEF InPhase, OthersWait
  <1>11. EngineHolds
    BY <1>1, <1>9 DEF EngineHolds, Orphaned, Dropped, TakingBack
  <1>12. /\ DOMAIN cblobs = {} /\ DOMAIN sblobs = {}
    BY <1>1 DEF NoEntries
  <1>13. MesaOwns = {}
    BY <1>1, NoneIn DEF VtestInit, MesaOwns
  <1>14. Back = {}
    <2>1. Elements(c2s) = {Message("Hello", 0)}
      BY <1>5 DEF Elements
    <2>2. serving.kind = "none" /\ Elements(inbox) = {}
      BY <1>1, NoneIn DEF VtestInit, Nothing
    <2> QED
      BY <1>1, <1>4, <2>1, <2>2, NoMessage DEF Back, BackAtC, BackAtS
  <1>15. TellingAtC = {} /\ TellingFromS = {} /\ Coming = {}
    BY <1>1, NoneIn, NoMessage DEF TellingAtC, TellingFromS, Coming
  <1>16. Accounts
    <2>1. ~ Orphaned
      BY <1>1 DEF Orphaned
    <2> QED
      BY <1>1, <1>12, <1>13, <1>14, <1>15, <2>1
         DEF Accounts, Tables, Apart, NoneForgotten
  <1> QED
    BY <1>2, <1>3, <1>6, <1>8, <1>10, <1>11, <1>16 DEF SessionInv, Flight

\* Every step keeps the session's invariant.
LEMMA SessionKept == SessionInv /\ [Next]_vars => SessionInv'
  <1> SUFFICES ASSUME SessionInv, [Next]_vars PROVE SessionInv'
    OBVIOUS
  <1>1. /\ ActorInv /\ VtestTypes /\ LinkTypes /\ InOrder /\ Flight /\ InPhase
        /\ OthersWait /\ EngineHolds /\ Accounts
    BY DEF SessionInv, Flight
  <1>2. VtestMoves
    BY <1>1, VtestStep
  <1>3. VtestTypes' /\ InOrder'
    BY <1>1, <1>2, VtestKeeps
  <1>4. ActorInv'
    BY <1>1, ActorMoves, ActorInvInductive
  <1>5. LinkTypes'
    BY <1>1, <1>2, LinkTypesKept
  <1>6. Flight' /\ InPhase' /\ OthersWait'
    BY <1>1, FlightKept, InPhaseKept, OthersWaitKept
  <1>7. EngineHolds'
    <2>1. exported \subseteq 1 .. nextResource - 1
      BY <1>1 DEF Accounts, Tables
    <2> QED
      BY <1>1, <2>1, EngineHoldsKept
  <1>8. Accounts'
    BY <1>1, AccountsKept
  <1> QED
    BY <1>3, <1>4, <1>5, <1>6, <1>7, <1>8 DEF SessionInv, Flight

\* The whole state of a session, of both machines and everything between them,
\* stays what SessionInv says: one request at most is in flight, it is the one
\* that the served command calls for, and every resource is in the tables for
\* a reason.
THEOREM SessionHolds == Spec => []SessionInv
  BY SessionInit, SessionKept, PTL DEF Spec

\* Every variable of the composed session keeps its type; a command is dropped
\* by RelayEngine only with its call, and the message thread is in the engine
\* exactly while the actor owes it an answer.
THEOREM SessionTypes == Spec => []TypeOK
  <1>1. SessionInv => TypeOK
    <2> SUFFICES ASSUME SessionInv PROVE TypeOK
      OBVIOUS
    <2>1. /\ ActorInv /\ VtestTypes /\ LinkTypes /\ InPhase /\ Accounts /\ Matching
      BY DEF SessionInv
    <2>2. spc = "engine" => calls[Serve] # NoCall
      <3>1. CASE spc = "engine"
        <4>1. ForEngine(smsg) /\ calls[Serve] = EngineCall(smsg)
          BY <2>1, <3>1 DEF InPhase
        <4>2. smsg \in C2S
          BY <2>1, <4>1, NoMessage DEF LinkTypes
        <4> QED
          BY <4>1, <4>2, EngineCalls
      <3> QED
        BY <3>1
    <2>3. spc = "undoing" => calls[Serve] # NoCall
      BY <2>1 DEF InPhase, NoCall
    <2>4. (spc \in {"engine", "undoing"}) = (calls[Serve] # NoCall)
      BY <2>1, <2>2, <2>3 DEF InPhase
    <2> QED
      BY <2>1, <2>4 DEF TypeOK, ActorInv, VtestTypes, LinkTypes, Accounts, Tables, Matching
  <1> QED
    BY SessionHolds, <1>1, PTL

\* What RelayEngine takes for the answer to its request is S's answer to that
\* request, and what Mesa takes for the reply to a command is the reply to it,
\* although neither names what it answers: whatever S refuses meanwhile, and
\* wherever the link breaks.
THEOREM AnswersMatch == Spec => []AnswerIsForTheRequest
  <1>1. SessionInv => AnswerIsForTheRequest
    <2> SUFFICES ASSUME SessionInv PROVE AnswerIsForTheRequest
      OBVIOUS
    <2>1. LinkTypes /\ VtestTypes /\ InOrder /\ OneInFlight /\ Matching
      BY DEF SessionInv
    <2>2. replies # << >> => asked # None /\ Head(replies).number = asked.number
      <3>1. CASE replies # << >>
        <4>1. Head(replies) = replies[1] /\ 1 \in 1 .. Len(replies)
          BY <2>1, <3>1, NextAnswer
        <4>2. IsAnswerTo(replies[1], asked)
          BY <2>1, <4>1 DEF Matching
        <4> QED
          BY <4>1, <4>2, NoMessage DEF IsAnswerTo
      <3> QED
        BY <3>1
    <2>3. \A i \in DOMAIN outbox : i \in DOMAIN awaited /\ outbox[i].number = awaited[i]
      <3>1. /\ outbox \in Seq(VtestReplies) /\ awaited \in Seq(1 .. issued)
            /\ Len(outbox) <= Len(awaited)
            /\ \A i \in 1 .. Len(outbox) : outbox[i].number = awaited[i]
        BY <2>1 DEF VtestTypes, VtestTypeOK, InOrder, Written
      <3>2. /\ DOMAIN outbox = 1 .. Len(outbox) /\ DOMAIN awaited = 1 .. Len(awaited)
            /\ Len(outbox) \in Nat /\ Len(awaited) \in Nat
        BY <3>1
      <3> QED
        BY <3>1, <3>2
    <2> QED
      BY <2>1, <2>2, <2>3 DEF AnswerIsForTheRequest, OneInFlight
  <1> QED
    BY SessionHolds, <1>1, PTL

\* The set the properties use.
LEMMA SameOwned == VtestTypes => MesaHas = MesaOwns
  <1> SUFFICES ASSUME VtestTypes PROVE MesaHas = MesaOwns
    OBVIOUS
  <1>1. DOMAIN outbox = 1 .. Len(outbox)
    BY DEF VtestTypes
  <1> QED
    BY <1>1 DEF MesaHas, MesaOwns, Elements

\* When Mesa has a descriptor, C has the blob behind it in its table, and it
\* is the blob that was made for the same command as S's resource of that id.
THEOREM OneBlob == Spec => []OneBlobBehindTheDescriptor
  <1>1. SessionInv => OneBlobBehindTheDescriptor
    BY SameOwned DEF SessionInv, Accounts, Tables, OneBlobBehindTheDescriptor
  <1> QED
    BY SessionHolds, <1>1, PTL

\* The tables agree: between messages S's name the same resources, which are
\* the engine's, so that a creation refused half way leaves nothing; and when
\* nothing is on its way the two machines hold the same blobs, Mesa's.
THEOREM TablesMatch == Spec => []TablesAgree
  <1>1. SessionInv => TablesAgree
    <2> SUFFICES ASSUME SessionInv PROVE TablesAgree
      OBVIOUS
    <2>1. /\ VtestTypes /\ LinkTypes /\ InPhase /\ EngineHolds /\ Flight /\ Accounts
      BY DEF SessionInv, Flight
    <2>2. MesaHas = MesaOwns
      BY <2>1, SameOwned
    <2>3. ASSUME spc \in {"recv", "send"}
          PROVE  DOMAIN sblobs = exported /\ (Serve \in held => DOMAIN resources = exported)
      <3>1. ~ Orphaned /\ ~ Dropped /\ ~ TakingBack
        BY <2>3 DEF Orphaned, Dropped, TakingBack
      <3> QED
        BY <2>1, <3>1 DEF EngineHolds, Engaged, Accounts, Tables
    <2>4. ASSUME link = "up", vpc = "read", inbox = << >>, c2s = << >>, s2c = << >>,
                 spc = "recv"
          PROVE  DOMAIN cblobs = DOMAIN sblobs /\ DOMAIN cblobs = MesaHas
      <3>1. /\ serving.kind = "none" /\ sout = None /\ smsg = None
            /\ None.type = "none"
        BY <2>1, <2>4, VtestQueues, NoMessage DEF InPhase
      <3>2. replies = << >>
        <4>1. asked = None
          BY <2>1, <2>4 DEF Flight, Matching
        <4> QED
          BY <2>1, <4>1, NothingAsked
      <3>3. Back = {} /\ BackAtC = {}
        BY <2>4, <3>1, NoneIn DEF Back, BackAtC, BackAtS
      <3>4. Coming = {} /\ ComingAtC = {}
        BY <2>4, <3>1, <3>2, NoneIn DEF Coming, ComingAtC, TellingAtC, TellingFromS
      <3>5. DOMAIN cblobs \subseteq MesaOwns /\ DOMAIN sblobs \subseteq MesaOwns
        BY <2>1, <2>4, <3>3, <3>4 DEF Accounts, NoneForgotten
      <3>6. MesaOwns \subseteq DOMAIN cblobs /\ MesaOwns \subseteq DOMAIN sblobs
        BY <2>1 DEF Accounts, Tables
      <3> QED
        BY <2>2, <3>5, <3>6
    <2> QED
      BY <2>3, <2>4 DEF TablesAgree
  <1> QED
    BY SessionHolds, <1>1, PTL

\* S's part of a session asks no more of the engine than the actor allows: what
\* the message thread and the waiters do is a client's behaviour, and every step
\* of the session is a step of ActorSpec or leaves the actor alone.
THEOREM SessionIsAClient == Spec => ActorSpec
  <1>1. Init => ActorInit
    BY DEF Init
  <1>2. SessionInv /\ [Next]_vars => [ActorNext]_actorVars
    BY ActorMoves DEF SessionInv
  <1> QED
    BY SessionHolds, <1>1, <1>2, PTL DEF Spec, ActorSpec

\* So in a session too, the message thread and every waiter are owed one answer
\* each, and a wait answered Ok is for a fence its ring has reached.
THEOREM SessionIsAnswered == Spec => [](AnsweredOnce /\ WaitIsTrue)
  BY SessionIsAClient, CallersAreAnswered, WaitsAreTrue, PTL
=============================================================================
