--------------------------- MODULE WaylandProofs ---------------------------
(***************************************************************************)
(* Proofs about Wayland, for any number of ids and of objects.             *)
(*                                                                         *)
(*   TypeCorrect        Spec => []TypeOK                                   *)
(*   RequestsArrive     Spec => []RequestsReachTheirObject                 *)
(*   MapsAgree          Spec => []MapsNeverDrift                           *)
(*                                                                         *)
(* MapsNeverDrift depends on what S's thread is about to insert: the       *)
(* object is its newest, and no live object shares its id (Maps).          *)
(*                                                                         *)
(* RequestsReachTheirObject is about ids whose meaning changes in three    *)
(* places at three times: in the proxy's table, on the link, and in S's    *)
(* maps.  Number the maps 0 and the messages of the link from 1.  Names    *)
(* says which object S takes an id for once it has read up to a place;     *)
(* Means, which object the application means by it at a later place.       *)
(* SameMeaning is that the two agree, or that a message in between         *)
(* destroys what S takes the id for: then S refuses the request, or a new  *)
(* object has the id.  It holds because an id is handed out again only     *)
(* after a destructor was forwarded, or after a callback's own event,      *)
(* which found the callback dead on S (Retired).                           *)
(***************************************************************************)
EXTENDS Wayland, TLAPS

\* What travels: an object or none, messages, events; and what S makes.
SomeObject == Object \cup {NoObject}
Message ==
    [op : {"bind"}, to : SomeObject, new : Object, arg : SomeObject]
    \cup [op : {"request", "destroy", "token"}, to : SomeObject, new : SomeObject,
          arg : SomeObject]
Event == [id : Ids, k : 1 .. MaxObjects, kind : Kinds]
Replica == [pid : SIds, alive : BOOLEAN, k : 1 .. MaxObjects, kind : Kinds]

\* The application's side.
AppTypes ==
    /\ born \in 0 .. MaxObjects /\ high \in Ids \cup {0}
    /\ objects \in [Ids -> SomeObject]
    /\ \A id \in Ids : objects[id] = NoObject \/ objects[id].id = id
    /\ \A id \in Ids : objects[id].k <= born
    /\ \A id \in Ids : id > high => objects[id] = NoObject
    /\ \A id \in DOMAIN pending :
         id \in Ids /\ objects[id].kind = "params" /\ pending[id] \in Resources \cup {0}
    /\ c2s \in Seq(Message)

\* S's message thread and its maps.
ReplayTypes ==
    /\ linked \in BOOLEAN
    /\ made \in Seq(Replica)
    /\ DOMAIN forward \subseteq Ids /\ DOMAIN reverse \subseteq SIds
    /\ \A id \in DOMAIN forward : forward[id] \in DOMAIN made
    /\ \A p \in DOMAIN reverse : reverse[p] \in Ids
    /\ inserting = NoInsert \/ inserting \in [id : Ids, s : DOMAIN made]

\* The way back.
ReturnTypes ==
    /\ s2c \in Seq(Event) /\ inbox \in Seq(Event)
    /\ proxy \in {"poll", "drain"}
    /\ astray \subseteq {"request", "event"}
    /\ posting \in BOOLEAN /\ wake \in BOOLEAN

\* The types of all three parts.
Types == AppTypes /\ ReplayTypes /\ ReturnTypes

\* Objects are made on S once each, in the order in which the application
\* creates them, and over an open connection.  Here is each part of that.
MadeInOrder == \A s, t \in DOMAIN made : s < t => made[s].k < made[t].k
MadeWereBorn == \A s \in DOMAIN made : made[s].k <= born
ToMakeWereBorn == \A i \in DOMAIN c2s : c2s[i].new.k <= born
MadeBeforeToMake ==
    \A s \in DOMAIN made, i \in DOMAIN c2s :
        c2s[i].new # NoObject => made[s].k < c2s[i].new.k
ToMakeInOrder ==
    \A i, j \in DOMAIN c2s :
        i < j /\ c2s[i].new # NoObject /\ c2s[j].new # NoObject
          => c2s[i].new.k < c2s[j].new.k

\* All of that.
Order ==
    /\ MadeInOrder /\ MadeWereBorn /\ ToMakeWereBorn /\ MadeBeforeToMake /\ ToMakeInOrder
    /\ ~ linked => made = << >>

\* The numbers of the objects that are dead on S.
Dead == {made[s].k : s \in {t \in DOMAIN made : ~ Alive(t)}}

\* A callback whose event was sent is dead on S.
Retired ==
    /\ \A i \in DOMAIN s2c : s2c[i].kind = "callback" => s2c[i].k \in Dead
    /\ \A i \in DOMAIN inbox : inbox[i].kind = "callback" => inbox[i].k \in Dead

\* No two live objects have one id of S's connection.
OwnPids ==
    \A s, t \in DOMAIN made : Alive(s) /\ Alive(t) /\ s # t => made[s].pid # made[t].pid

\* What is about to be mapped is the newest object, no live one shares its id,
\* and the map does not lead to it yet.
NewestInserting ==
    inserting # NoInsert =>
        /\ inserting.s = Len(made)
        /\ \A t \in DOMAIN made :
             Alive(t) /\ t # inserting.s => made[t].pid # made[inserting.s].pid
        /\ \A id \in DOMAIN forward : forward[id] # inserting.s

\* The maps agree, and will when the insert is done.
Maps == OwnPids /\ NewestInserting /\ MapsNeverDrift

\* What S may take id for when it has read the first i messages of the link.
Names(id, k, i) ==
    \/ /\ i = 0
       /\ \E s \in DOMAIN made :
            /\ Alive(s) /\ made[s].k = k
            /\ \/ inserting = [id |-> id, s |-> s]
               \/ id \in DOMAIN forward /\ forward[id] = s
    \/ /\ i \in DOMAIN c2s
       /\ c2s[i].new # NoObject /\ c2s[i].new.id = id /\ c2s[i].new.k = k

\* What the application means by id in its j-th message, or in its next.
Means(id, k, j) ==
    \/ /\ j \in DOMAIN c2s
       /\ \/ c2s[j].to # NoObject /\ c2s[j].to.id = id /\ c2s[j].to.k = k
          \/ c2s[j].arg # NoObject /\ c2s[j].arg.id = id /\ c2s[j].arg.k = k
    \/ j = Len(c2s) + 1 /\ objects[id].k = k

\* A message between the two destroys what id was.
DestroyedBetween(id, k, i, j) ==
    \E d \in DOMAIN c2s :
        /\ i < d /\ d < j
        /\ c2s[d].op = "destroy" /\ c2s[d].to.id = id /\ c2s[d].to.k = k

\* S takes an id for what the application means by it, or will have been told
\* by then that the object is destroyed.
SameMeaning ==
    \A id \in Ids, k \in 1 .. MaxObjects, l \in 0 .. MaxObjects :
        \A i \in 0 .. Len(c2s), j \in 1 .. Len(c2s) + 1 :
            i < j /\ Names(id, k, i) /\ Means(id, l, j)
              => k = l \/ DestroyedBetween(id, k, i, j)

\* No request has gone astray, and none will.
Meant == "request" \notin astray /\ SameMeaning

\* The inductive invariant.
IInv == Types /\ Order /\ Retired /\ Maps /\ ("event" \in astray \/ Meant)

-----------------------------------------------------------------------------
(* The operators of the model.                                             *)

\* An object that is held is under its own id.
LEMMA HeldOnes ==
    ASSUME AppTypes, NEW kinds \in SUBSET Kinds, NEW o \in Held(kinds)
    PROVE  /\ o \in Object /\ o.id \in Ids /\ objects[o.id] = o /\ o # NoObject
           /\ o.kind \in kinds /\ o.k \in 1 .. MaxObjects /\ o \in SomeObject
<1>1. PICK id \in Ids : o = objects[id] /\ objects[id].kind \in kinds
  BY DEF Held
<1>2. "none" \notin Kinds
  BY DEF Kinds, Globals
<1>3. o # NoObject
  BY <1>1, <1>2 DEF NoObject
<1>4. o \in Object /\ o.id = id
  BY <1>1, <1>3 DEF AppTypes, SomeObject
<1> QED
  BY <1>1, <1>3, <1>4 DEF Object, SomeObject

\* An id handed out names nothing.
LEMMA FreeOnes ==
    ASSUME AppTypes, NEW id \in FreeIds
    PROVE  id \in Ids /\ objects[id] = NoObject /\ id # 0
<1>1. high \in Nat
  BY WaylandAssumption DEF AppTypes
<1>2. CASE id \in 1 .. high /\ objects[id] = NoObject
  BY <1>1, <1>2, WaylandAssumption DEF AppTypes
<1>3. CASE id = high + 1 /\ id \in Ids
  BY <1>1, <1>3 DEF AppTypes
<1> QED
  BY <1>2, <1>3 DEF FreeIds

\* A new object is one.
LEMMA NewOnes ==
    ASSUME AppTypes, born < MaxObjects, NEW id \in Ids, NEW kind \in Kinds
    PROVE  /\ New(id, kind) \in Object /\ New(id, kind) \in SomeObject
           /\ New(id, kind) # NoObject
           /\ New(id, kind).id = id /\ New(id, kind).k = born + 1
<1>1. "none" \notin Kinds
  BY DEF Kinds, Globals
<1>2. born + 1 \in 1 .. MaxObjects
  BY WaylandAssumption DEF AppTypes
<1> QED
  BY <1>1, <1>2 DEF New, Object, NoObject, SomeObject

-----------------------------------------------------------------------------
(* Types.                                                                  *)

\* What the table is after a new object was recorded.
LEMMA Recorded ==
    ASSUME AppTypes, NEW id \in FreeIds, NEW kind \in Kinds,
           Records(New(id, kind))
    PROVE  /\ born' = born + 1 /\ born' \in 0 .. MaxObjects
           /\ high' \in Ids \cup {0}
           /\ objects' \in [Ids -> SomeObject]
           /\ \A i \in Ids : objects'[i] = NoObject \/ objects'[i].id = i
           /\ \A i \in Ids : objects'[i].k <= born'
           /\ \A i \in Ids : i > high' => objects'[i] = NoObject
           /\ objects'[id] = New(id, kind)
           /\ \A i \in Ids \ {id} : objects'[i] = objects[i]
           /\ New(id, kind) \in SomeObject /\ New(id, kind) \in Object /\ id \in Ids
<1> DEFINE new == New(id, kind)
<1>1. /\ id \in Ids /\ objects[id] = NoObject
  BY FreeOnes
<1>2. born < MaxObjects /\ born' = born + 1
      /\ objects' = [objects EXCEPT ![new.id] = new]
      /\ high' = IF new.id > high THEN new.id ELSE high
  BY DEF Records
<1>3. new \in SomeObject /\ new \in Object /\ new.id = id /\ new.k = born + 1
  BY <1>1, <1>2, NewOnes
<1>4. born' \in 0 .. MaxObjects
  BY <1>2, WaylandAssumption DEF AppTypes
<1>5. high' \in Ids \cup {0} /\ high' >= high /\ high' >= id
  BY <1>1, <1>2, <1>3, WaylandAssumption DEF AppTypes
<1> HIDE DEF new
<1>6. objects' \in [Ids -> SomeObject] /\ objects'[id] = new
      /\ \A i \in Ids \ {id} : objects'[i] = objects[i]
  BY <1>1, <1>2, <1>3 DEF AppTypes
<1>7. \A i \in Ids : objects'[i] = NoObject \/ objects'[i].id = i
  BY <1>6, <1>3 DEF AppTypes
<1>8. \A i \in Ids : objects[i].k \in Nat
  <2>1. \A x \in SomeObject : x.k \in Nat
    BY DEF SomeObject, Object, NoObject
  <2> QED
    BY <2>1 DEF AppTypes
<1>9. \A i \in Ids : objects'[i].k <= born'
  BY <1>2, <1>3, <1>6, <1>8 DEF AppTypes
<1>10. \A i \in Ids : i > high' => objects'[i] = NoObject
  <2> SUFFICES ASSUME NEW i \in Ids, i > high' PROVE objects'[i] = NoObject
    OBVIOUS
  <2>1. i # id /\ i > high
    BY <1>5, WaylandAssumption DEF AppTypes
  <2> QED
    BY <2>1, <1>6 DEF AppTypes
<1> QED
  BY <1>1, <1>2, <1>3, <1>4, <1>5, <1>6, <1>7, <1>9, <1>10 DEF new

\* A message the application may send.
LEMMA Forwarded ==
    ASSUME AppTypes, NEW op \in {"bind", "request", "destroy", "token"},
           NEW to \in SomeObject, NEW new \in SomeObject, NEW arg \in SomeObject,
           op = "bind" => new \in Object, Forward(op, to, new, arg)
    PROVE  /\ c2s' \in Seq(Message)
           /\ c2s' = Append(c2s, [op |-> op, to |-> to, new |-> new, arg |-> arg])
  BY DEF AppTypes, Forward, Message

\* No object is an allowed argument.
LEMMA NothingIsSomething == NoObject \in SomeObject
  BY DEF SomeObject

\* The table without one of its objects.
LEMMA Dropped ==
    ASSUME AppTypes, NEW id \in Ids, Destroyed(id)
    PROVE  /\ objects' \in [Ids -> SomeObject]
           /\ objects'[id] = NoObject
           /\ \A i \in Ids \ {id} : objects'[i] = objects[i]
           /\ \A i \in Ids : objects'[i] = NoObject \/ objects'[i].id = i
           /\ \A i \in Ids : objects'[i].k <= born
           /\ \A i \in Ids : i > high => objects'[i] = NoObject
           /\ \A i \in DOMAIN pending' :
                /\ i \in Ids /\ objects'[i].kind = "params"
                /\ pending'[i] \in Resources \cup {0}
<1>1. objects' = [objects EXCEPT ![id] = NoObject]
      /\ pending' = [p \in DOMAIN pending \ {id} |-> pending[p]]
  BY DEF Destroyed, Unpend
<1>2. objects' \in [Ids -> SomeObject] /\ objects'[id] = NoObject
      /\ \A i \in Ids \ {id} : objects'[i] = objects[i]
  BY <1>1, NothingIsSomething DEF AppTypes
<1>3. NoObject.k = 0 /\ 0 <= born
  BY WaylandAssumption DEF NoObject, AppTypes
<1>4. \A i \in DOMAIN pending' :
        /\ i \in Ids /\ objects'[i].kind = "params"
        /\ pending'[i] \in Resources \cup {0}
  BY <1>1, <1>2 DEF AppTypes
<1> QED
  BY <1>2, <1>3, <1>4 DEF AppTypes

\* Nothing the application's side has in AppTypes changes.
LEMMA AppStays ==
    ASSUME AppTypes, UNCHANGED <<appVars, c2s>>
    PROVE  AppTypes'
  BY DEF AppTypes, appVars

\* Nothing of S's message thread changes.
LEMMA ReplayStays ==
    ASSUME ReplayTypes, UNCHANGED replayVars
    PROVE  ReplayTypes'
  BY DEF ReplayTypes, replayVars

\* Nothing on the way back changes.
LEMMA ReturnStays ==
    ASSUME ReturnTypes, UNCHANGED <<returnVars, s2c, proxy, astray>>
    PROVE  ReturnTypes'
  BY DEF ReturnTypes, returnVars

\* What is known of the params objects' buffers.
PendingOK ==
    \A id \in DOMAIN pending :
        id \in Ids /\ objects[id].kind = "params" /\ pending[id] \in Resources \cup {0}

\* A new object is no params object with a buffer to come.
LEMMA PendingStays ==
    ASSUME AppTypes, NEW id \in FreeIds, NEW kind \in Kinds,
           Records(New(id, kind))
    PROVE  /\ id \notin DOMAIN pending
           /\ \A p \in DOMAIN pending :
                /\ p \in Ids /\ objects'[p].kind = "params"
                /\ pending[p] \in Resources \cup {0}
<1>1. id \notin DOMAIN pending
  BY FreeOnes DEF AppTypes, NoObject
<1>2. \A i \in Ids \ {id} : objects'[i] = objects[i]
  BY Recorded
<1> QED
  BY <1>1, <1>2 DEF AppTypes

\* A request of the application leaves its side well typed.
LEMMA RequestAppTypes ==
    ASSUME AppTypes, Request
    PROVE  AppTypes'
<1>1. ASSUME NEW id \in FreeIds, NEW kind \in Globals, Bind(id, kind)
      PROVE  AppTypes'
  <2>1. kind \in Kinds
    BY DEF Kinds
  <2>2. Records(New(id, kind)) /\ pending' = pending
        /\ Forward("bind", NoObject, New(id, kind), NoObject)
    BY <1>1 DEF Bind
  <2>3. c2s' \in Seq(Message)
    BY <2>1, <2>2, Recorded, Forwarded, NothingIsSomething
  <2>4. PendingOK'
    BY <2>1, <2>2, PendingStays DEF PendingOK
  <2> QED
    BY <2>1, <2>2, <2>3, <2>4, Recorded DEF AppTypes, PendingOK
<1>2. ASSUME NEW id \in FreeIds, NEW o \in Held({"factory", "surface"}), Create(o, id)
      PROVE  AppTypes'
  <2>1. {"factory", "surface"} \subseteq Kinds
    BY DEF Kinds, Globals
  <2>2. o \in SomeObject /\ o.kind \in {"factory", "surface"}
    BY <2>1, HeldOnes
  <2>3. Creates[o.kind] \in Kinds
    BY <2>2 DEF Creates, Kinds
  <2>4. Records(New(id, Creates[o.kind])) /\ pending' = pending
        /\ Forward("request", o, New(id, Creates[o.kind]), NoObject)
    BY <1>2 DEF Create
  <2> DEFINE kind == Creates[o.kind]
  <2> HIDE DEF kind
  <2>5. kind \in Kinds /\ Records(New(id, kind))
        /\ Forward("request", o, New(id, kind), NoObject)
    BY <2>3, <2>4 DEF kind
  <2>6. c2s' \in Seq(Message)
    BY <2>2, <2>5, Recorded, Forwarded, NothingIsSomething
  <2>7. PendingOK'
    BY <2>4, <2>5, PendingStays DEF PendingOK
  <2> QED
    BY <2>5, <2>6, <2>7, Recorded DEF AppTypes, PendingOK
<1>3. ASSUME NEW id \in FreeIds, CreateParams(id)
      PROVE  AppTypes'
  <2>1. "params" \in Kinds
    BY DEF Kinds
  <2>2. /\ Records(New(id, "params")) /\ c2s' = c2s
        /\ pending' = [p \in DOMAIN pending \cup {id} |-> IF p = id THEN 0 ELSE pending[p]]
    BY <1>3 DEF CreateParams
  <2>3. New(id, "params").kind = "params"
    BY DEF New
  <2>4. PendingOK'
    <3>1. objects'[id].kind = "params" /\ id \in Ids
      BY <2>1, <2>2, <2>3, Recorded
    <3> QED
      BY <2>1, <2>2, <3>1, PendingStays DEF PendingOK
  <2> QED
    BY <2>1, <2>2, <2>4, Recorded DEF AppTypes, PendingOK
<1>4. ASSUME NEW id \in FreeIds, NEW o \in Held({"params"}), CreateImmed(o, id)
      PROVE  AppTypes'
  <2>1. "buffer" \in Kinds /\ {"params"} \subseteq Kinds
    BY DEF Kinds
  <2>2. o \in SomeObject
    BY <2>1, HeldOnes
  <2>3. /\ Records(New(id, "buffer"))
        /\ pending' = [p \in DOMAIN pending \ {o.id} |-> pending[p]]
        /\ c2s' = c2s \/ Forward("token", o, New(id, "buffer"), NoObject)
    BY <1>4 DEF CreateImmed, Unpend
  <2>4. c2s' \in Seq(Message)
    <3>1. CASE c2s' = c2s
      BY <3>1 DEF AppTypes
    <3>2. CASE Forward("token", o, New(id, "buffer"), NoObject)
      BY <2>1, <2>2, <2>3, <3>2, Recorded, Forwarded, NothingIsSomething
    <3> QED
      BY <2>3, <3>1, <3>2
  <2>5. PendingOK'
    BY <2>1, <2>3, PendingStays DEF PendingOK
  <2> QED
    BY <2>1, <2>3, <2>4, <2>5, Recorded DEF AppTypes, PendingOK
<1>5. ASSUME NEW o \in Held({"params"}), AddPlane(o)
      PROVE  AppTypes'
  <2>1. o.id \in Ids /\ objects[o.id].kind = "params"
    BY HeldOnes DEF Kinds
  <2>2. PICK r \in Resources \cup {0} :
          pending' = [p \in DOMAIN pending \cup {o.id} |->
                        IF p = o.id THEN r ELSE pending[p]]
    BY <1>5 DEF AddPlane
  <2>3. UNCHANGED <<objects, high, born, c2s>>
    BY <1>5 DEF AddPlane
  <2> QED
    BY <2>1, <2>2, <2>3 DEF AppTypes
<1>6. ASSUME NEW o \in Held({"params"}), CreateAsync(o)
      PROVE  AppTypes'
  BY <1>6 DEF AppTypes, CreateAsync, Unpend
<1>7. ASSUME NEW o \in Held({"surface"}), NEW arg \in Held({"buffer", "surface"}) \cup {NoObject},
             Use(o, arg)
      PROVE  AppTypes'
  <2>1. o \in SomeObject /\ arg \in SomeObject
    BY HeldOnes, NothingIsSomething DEF Kinds, Globals
  <2>2. UNCHANGED <<objects, high, pending, born>> /\ Forward("request", o, NoObject, arg)
    BY <1>7 DEF Use
  <2>3. c2s' \in Seq(Message)
    BY <2>1, <2>2, Forwarded, NothingIsSomething
  <2> QED
    BY <2>2, <2>3 DEF AppTypes
<1>8. ASSUME NEW o \in Held(Kinds \ {"callback"}), Destroy(o)
      PROVE  AppTypes'
  <2>1. o \in SomeObject /\ o.id \in Ids
    BY HeldOnes
  <2>2. UNCHANGED <<high, born>> /\ Forward("destroy", o, NoObject, NoObject)
        /\ Destroyed(o.id)
    BY <1>8 DEF Destroy
  <2>3. c2s' \in Seq(Message)
    BY <2>1, <2>2, Forwarded, NothingIsSomething
  <2> QED
    BY <2>1, <2>2, <2>3, Dropped DEF AppTypes
<1> QED
  BY <1>1, <1>2, <1>3, <1>4, <1>5, <1>6, <1>7, <1>8 DEF Request

\* So does the delivery of an event, and the reading of a message.
LEMMA DeliverAppTypes ==
    ASSUME AppTypes, ReturnTypes, DeliverEvent
    PROVE  AppTypes'
<1>1. UNCHANGED <<high, born, c2s>>
  BY DEF DeliverEvent
<1>2. Head(inbox).id \in Ids
  <2>1. Head(inbox) \in Event
    BY DEF DeliverEvent, ReturnTypes
  <2> QED
    BY <2>1 DEF Event
<1> DEFINE o == objects[Head(inbox).id]
<1>3. CASE UNCHANGED <<objects, pending>>
  BY <1>1, <1>3 DEF AppTypes
<1>4. CASE o.kind = "callback" /\ Destroyed(o.id)
  <2>1. o.id \in Ids
    BY <1>2, <1>4 DEF AppTypes, NoObject
  <2> QED
    BY <1>1, <1>4, <2>1, Dropped DEF AppTypes
<1> QED
  BY <1>3, <1>4 DEF DeliverEvent

\* Taking the link's first message leaves a well-typed link.
LEMMA TailAppTypes ==
    ASSUME AppTypes, UNCHANGED appVars, c2s # << >>, c2s' = Tail(c2s)
    PROVE  AppTypes'
<1>1. c2s' \in Seq(Message)
  BY DEF AppTypes
<1> QED
  BY <1>1 DEF AppTypes, appVars

\* A link's first message.
LEMMA Heads ==
    ASSUME NEW S, NEW q \in Seq(S), q # << >>
    PROVE  /\ Head(q) \in S /\ Head(q) = q[1] /\ 1 \in DOMAIN q
           /\ Tail(q) \in Seq(S) /\ Len(Tail(q)) = Len(q) - 1
           /\ \A i \in DOMAIN Tail(q) : i \in Nat \ {0} /\ i + 1 \in DOMAIN q /\ Tail(q)[i] = q[i + 1]
  OBVIOUS

\* A link with one more.
LEMMA Pushed ==
    ASSUME NEW S, NEW q \in Seq(S), NEW m \in S
    PROVE  /\ Append(q, m) \in Seq(S) /\ Len(Append(q, m)) = Len(q) + 1
           /\ DOMAIN Append(q, m) = DOMAIN q \cup {Len(q) + 1}
           /\ Len(q) \in Nat /\ DOMAIN q = 1 .. Len(q)
           /\ \A i \in DOMAIN q : i \in Nat /\ i # Len(q) + 1 /\ Append(q, m)[i] = q[i]
           /\ Append(q, m)[Len(q) + 1] = m
  OBVIOUS

\* Making an object: one more entry, with an id of its own.
LEMMA Made ==
    ASSUME ReplayTypes, NEW new \in Object, Makes(new)
    PROVE  /\ made' \in Seq(Replica)
           /\ Len(made) \in Nat /\ DOMAIN made = 1 .. Len(made)
           /\ DOMAIN made' = DOMAIN made \cup {Len(made) + 1}
           /\ \A s \in DOMAIN made : made'[s] = made[s] /\ s # Len(made) + 1
           /\ made'[Len(made) + 1].k = new.k /\ made'[Len(made) + 1].alive
           /\ made'[Len(made) + 1].kind = new.kind
           /\ \A s \in DOMAIN made : Alive(s) => made[s].pid # made'[Len(made) + 1].pid
           /\ inserting' = [id |-> new.id, s |-> Len(made) + 1]
           /\ inserting' \in [id : Ids, s : DOMAIN made']
<1>1. PICK pid \in SIds :
        /\ \A s \in DOMAIN made : Alive(s) => made[s].pid # pid
        /\ made' = Append(made, [pid |-> pid, alive |-> TRUE, k |-> new.k,
                                 kind |-> new.kind])
        /\ inserting' = [id |-> new.id, s |-> Len(made) + 1]
  BY DEF Makes
<1> DEFINE r == [pid |-> pid, alive |-> TRUE, k |-> new.k, kind |-> new.kind]
<1>2. r \in Replica
  BY DEF Replica, Object
<1>3. r.k = new.k /\ r.alive /\ r.kind = new.kind /\ r.pid = pid /\ new.id \in Ids
  BY DEF Object
<1> HIDE DEF r
<1>4. made' = Append(made, r) /\ made \in Seq(Replica)
  BY <1>1 DEF r, ReplayTypes
<1>5. /\ made' \in Seq(Replica)
      /\ DOMAIN made' = DOMAIN made \cup {Len(made) + 1}
      /\ Len(made) \in Nat /\ DOMAIN made = 1 .. Len(made)
      /\ \A s \in DOMAIN made : made'[s] = made[s] /\ s # Len(made) + 1
      /\ made'[Len(made) + 1] = r
  BY <1>2, <1>4, Pushed
<1> QED
  BY <1>1, <1>3, <1>5

\* What a message creates is an object.
LEMMA SomeNew ==
    ASSUME NEW new \in SomeObject, new # NoObject
    PROVE  new \in Object
  BY DEF SomeObject

\* Making an object keeps the types of S's thread.
LEMMA MadeTypes ==
    ASSUME ReplayTypes, NEW new \in Object, Makes(new), linked' \in BOOLEAN,
           UNCHANGED <<forward, reverse>>
    PROVE  ReplayTypes'
<1>1. made' \in Seq(Replica) /\ inserting' \in [id : Ids, s : DOMAIN made']
      /\ DOMAIN made \subseteq DOMAIN made'
  BY Made
<1> QED
  BY <1>1 DEF ReplayTypes

\* So does opening the connection.
LEMMA LinkedTypes ==
    ASSUME ReplayTypes, linked' \in BOOLEAN, UNCHANGED <<made, forward, reverse, inserting>>
    PROVE  ReplayTypes'
  BY DEF ReplayTypes

\* What dies keeps all else.
LEMMA KilledTypes ==
    ASSUME ReplayTypes, NEW dead,
           made' = [s \in DOMAIN made |->
                      IF s \in dead THEN [made[s] EXCEPT !.alive = FALSE] ELSE made[s]]
    PROVE  /\ made' \in Seq(Replica) /\ DOMAIN made' = DOMAIN made
           /\ Len(made') = Len(made)
           /\ \A s \in DOMAIN made :
                /\ made'[s].pid = made[s].pid /\ made'[s].k = made[s].k
                /\ made'[s].kind = made[s].kind
                /\ made'[s].alive = (made[s].alive /\ s \notin dead)
<1>1. Len(made) \in Nat /\ DOMAIN made = 1 .. Len(made)
      /\ \A s \in DOMAIN made : made[s] \in Replica
  BY DEF ReplayTypes
<1>2. \A s \in DOMAIN made : made'[s] \in Replica
  BY <1>1 DEF Replica
<1>3. made' \in Seq(Replica)
  BY <1>1, <1>2
<1>4. \A s \in DOMAIN made :
        /\ made'[s].pid = made[s].pid /\ made'[s].k = made[s].k
        /\ made'[s].kind = made[s].kind
        /\ made'[s].alive = (made[s].alive /\ s \notin dead)
  BY <1>1 DEF Replica
<1>5. DOMAIN made' = DOMAIN made
  OBVIOUS
<1>6. Len(made') \in Nat /\ DOMAIN made' = 1 .. Len(made')
  BY <1>3
<1>7. Len(made') = Len(made)
  BY <1>1, <1>5, <1>6
<1> QED
  BY <1>3, <1>4, <1>5, <1>7, Zenon

\* What a request meant and what it reached, in one place.
Astray(x, s) == s \in ToS(x.id) /\ Alive(s) /\ made[s].k # x.k

\* A request that went astray reached an object other than the one it meant.
LEMMA Reached ==
    ASSUME NEW x, NEW y, NEW S1 \in SUBSET DOMAIN made, NEW S2 \in SUBSET DOMAIN made,
           Reach({<<x, s>> : s \in S1} \cup {<<y, s>> : s \in S2})
    PROVE  \/ astray' = astray
           \/ /\ astray' = astray \cup {"request"}
              /\ \/ \E s \in S1 : made[s].k # x.k
                 \/ \E s \in S2 : made[s].k # y.k
  BY DEF Reach

\* The same of a request that names no other object.
LEMMA ReachedOne ==
    ASSUME NEW x, NEW S1 \in SUBSET DOMAIN made, Reach({<<x, s>> : s \in S1})
    PROVE  \/ astray' = astray
           \/ /\ astray' = astray \cup {"request"}
              /\ \E s \in S1 : made[s].k # x.k
  BY DEF Reach

\* S's message thread takes a message off the link.
Handles == HandleBind \/ HandleRequest \/ HandleDestroy \/ HandleToken

\* What the handling of a message may do: nothing, make an object, or end one.
LEMMA HandlingDoes ==
    ASSUME AppTypes, ReplayTypes, Handles
    PROVE  /\ inserting = NoInsert /\ c2s # << >> /\ c2s' = Tail(c2s)
           /\ Head(c2s) \in Message /\ linked' \in BOOLEAN
           /\ UNCHANGED <<appVars, proxy, forward, reverse, s2c, returnVars>>
           /\ \/ UNCHANGED astray
              \/ /\ astray' = astray \cup {"request"}
                 /\ \E s \in DOMAIN made : Astray(Head(c2s).to, s) \/ Astray(Head(c2s).arg, s)
           /\ \/ /\ UNCHANGED <<made, inserting>> /\ (linked' = TRUE \/ UNCHANGED linked)
                 /\ Head(c2s).op = "destroy" /\ linked
                      => ~ \E s \in ToS(Head(c2s).to.id) : Alive(s)
              \/ /\ Head(c2s).op # "destroy" /\ Head(c2s).new \in Object
                 /\ Makes(Head(c2s).new) /\ linked'
              \/ /\ Head(c2s).op = "destroy" /\ UNCHANGED inserting /\ linked'
                 /\ made' = [s \in DOMAIN made |->
                               IF s \in ToS(Head(c2s).to.id)
                               THEN [made[s] EXCEPT !.alive = FALSE] ELSE made[s]]
<1> DEFINE m == Head(c2s)
<1>1. inserting = NoInsert /\ c2s # << >> /\ c2s' = Tail(c2s)
      /\ UNCHANGED <<appVars, proxy, forward, reverse, s2c, returnVars>>
  BY DEF Handles, HandleBind, HandleRequest, HandleDestroy, HandleToken, NoConnection,
         Handling
<1>2. m \in Message
  BY <1>1 DEF AppTypes
<1>3. linked' = TRUE \/ linked' = linked
  BY DEF Handles, HandleBind, HandleRequest, HandleDestroy, HandleToken, NoConnection
<1>4. linked' \in BOOLEAN
  BY <1>3 DEF ReplayTypes
<1>5. m.new = NoObject \/ m.new \in Object
  BY <1>2 DEF Message, SomeObject
<1> DEFINE Same == \/ UNCHANGED astray
                   \/ /\ astray' = astray \cup {"request"}
                      /\ \E s \in DOMAIN made : Astray(m.to, s) \/ Astray(m.arg, s)
           Idle == /\ UNCHANGED <<made, inserting>> /\ (linked' = TRUE \/ UNCHANGED linked)
                   /\ m.op = "destroy" /\ linked => ~ \E s \in ToS(m.to.id) : Alive(s)
           Create1 == m.op # "destroy" /\ m.new \in Object /\ Makes(m.new) /\ linked'
           Kill == /\ m.op = "destroy" /\ UNCHANGED inserting /\ linked'
                   /\ made' = [s \in DOMAIN made |->
                                 IF s \in ToS(m.to.id)
                                 THEN [made[s] EXCEPT !.alive = FALSE] ELSE made[s]]
<1>6. CASE \E op \in {"bind", "request", "destroy", "token"} : NoConnection(op)
  BY <1>6, <1>1, <1>2, <1>4 DEF NoConnection, Skipped
<1>7. CASE HandleBind /\ ~ NoConnection("bind")
  <2>1. m.op = "bind" /\ linked' = TRUE /\ UNCHANGED astray
        /\ (Makes(m.new) \/ UNCHANGED <<made, inserting>>)
    BY <1>7 DEF HandleBind, Handling
  <2>2. m.new \in Object
    BY <1>2, <2>1 DEF Message
  <2> QED
    BY <2>1, <2>2, <1>1, <1>2, <1>4
<1>8. CASE HandleRequest /\ ~ NoConnection("request")
  <2> DEFINE sender == ToS(m.to.id)
             arg == ToS(m.arg.id)
  <2>1. m.op = "request" /\ linked' = TRUE
    BY <1>8 DEF HandleRequest, Handling
  <2>2. \/ /\ sender # {} /\ \A s \in sender \cup arg : Alive(s)
           /\ Reach({<<m.to, s>> : s \in sender} \cup {<<m.arg, s>> : s \in arg})
           /\ IF m.new = NoObject THEN UNCHANGED <<made, inserting>>
              ELSE Makes(m.new) \/ UNCHANGED <<made, inserting>>
        \/ UNCHANGED <<made, inserting, astray>>
    BY <1>8, Zenon DEF HandleRequest, Skipped
  <2>3. Idle \/ Create1
    BY <2>1, <2>2, <1>5
  <2>4. sender \subseteq DOMAIN made /\ arg \subseteq DOMAIN made
    BY DEF ToS
  <2>5. Same
    <3>1. CASE UNCHANGED astray
      BY <3>1
    <3>2. CASE /\ \A s \in sender \cup arg : Alive(s)
               /\ Reach({<<m.to, s>> : s \in sender} \cup {<<m.arg, s>> : s \in arg})
      <4> HIDE DEF sender, arg, m
      <4>1. \/ astray' = astray
            \/ /\ astray' = astray \cup {"request"}
               /\ \/ \E s \in sender : made[s].k # m.to.k
                  \/ \E s \in arg : made[s].k # m.arg.k
        BY <3>2, <2>4, Reached
      <4> QED
        BY <4>1, <3>2, <2>4 DEF Astray, sender, arg
    <3> QED
      BY <2>2, <3>1, <3>2
  <2> QED
    BY <2>3, <2>5, <1>1, <1>2, <1>4
<1>9. CASE HandleDestroy /\ ~ NoConnection("destroy")
  <2> DEFINE sender == ToS(m.to.id)
  <2>1. m.op = "destroy" /\ linked' = TRUE /\ UNCHANGED inserting
    BY <1>9 DEF HandleDestroy, Handling
  <2>2. \/ /\ sender # {} /\ \A s \in sender : Alive(s)
           /\ Reach({<<m.to, s>> : s \in sender})
           /\ made' = [s \in DOMAIN made |->
                         IF s \in sender THEN [made[s] EXCEPT !.alive = FALSE]
                         ELSE made[s]]
        \/ /\ ~ (sender # {} /\ \A s \in sender : Alive(s))
           /\ UNCHANGED <<made, astray>>
    BY <1>9, Zenon DEF HandleDestroy
  <2>3. sender \subseteq DOMAIN made
    BY DEF ToS
  <2>4. \A s, t \in sender : s = t
    BY DEF ToS
  <2>5. Idle \/ Kill
    BY <2>1, <2>2, <2>4
  <2>6. Same
    <3>1. CASE UNCHANGED astray
      BY <3>1
    <3>2. CASE /\ \A s \in sender : Alive(s)
               /\ Reach({<<m.to, s>> : s \in sender})
      <4> HIDE DEF sender, m
      <4>1. \/ astray' = astray
            \/ /\ astray' = astray \cup {"request"}
               /\ \E s \in sender : made[s].k # m.to.k
        BY <3>2, <2>3, ReachedOne
      <4> QED
        BY <4>1, <3>2, <2>3 DEF Astray, sender
    <3> QED
      BY <2>2, <3>1, <3>2
  <2> QED
    BY <2>5, <2>6, <1>1, <1>2, <1>4
<1>10. CASE HandleToken /\ ~ NoConnection("token")
  <2>1. m.op = "token" /\ linked' = TRUE /\ UNCHANGED <<made, inserting, astray>>
    BY <1>10 DEF HandleToken, NoConnection, Handling, Skipped
  <2> QED
    BY <2>1, <1>1, <1>2, <1>4
<1> QED
  BY <1>6, <1>7, <1>8, <1>9, <1>10 DEF Handles

\* S's message thread keeps the types of what it has.
LEMMA HandlingTypes ==
    ASSUME Types, Handles
    PROVE  Types'
<1> USE DEF Types
<1>1. AppTypes'
  BY HandlingDoes, TailAppTypes
<1>2. ReturnTypes'
  <2>1. astray' \subseteq astray \cup {"request"}
    BY HandlingDoes
  <2> QED
    BY <2>1, HandlingDoes DEF ReturnTypes, returnVars
<1>3. ReplayTypes'
  <2>1. /\ linked' \in BOOLEAN /\ UNCHANGED <<forward, reverse>>
    BY HandlingDoes
  <2>2. CASE UNCHANGED <<made, inserting>>
    BY <2>1, <2>2, LinkedTypes
  <2>3. CASE Head(c2s).new \in Object /\ Makes(Head(c2s).new)
    BY <2>1, <2>3, MadeTypes
  <2>4. CASE /\ UNCHANGED inserting
             /\ made' = [s \in DOMAIN made |->
                           IF s \in ToS(Head(c2s).to.id)
                           THEN [made[s] EXCEPT !.alive = FALSE] ELSE made[s]]
    <3>1. made' \in Seq(Replica) /\ DOMAIN made' = DOMAIN made
      BY <2>4, KilledTypes
    <3> QED
      BY <2>1, <2>4, <3>1 DEF ReplayTypes
  <2> QED
    BY <2>2, <2>3, <2>4, HandlingDoes
<1> QED
  BY <1>1, <1>2, <1>3

\* The maps' insert keeps the types of S's thread.
LEMMA InsertTypes ==
    ASSUME Types, Insert
    PROVE  Types'
<1> USE DEF Types
<1>1. AppTypes' /\ ReturnTypes'
  BY AppStays, ReturnStays DEF Insert, returnVars
<1>2. inserting.id \in Ids /\ inserting.s \in DOMAIN made
      /\ inserting' = NoInsert /\ UNCHANGED <<linked, made>>
  BY DEF Insert, ReplayTypes
<1>3. made[inserting.s].pid \in SIds
  <2>1. made[inserting.s] \in Replica
    BY <1>2 DEF ReplayTypes
  <2> QED
    BY <2>1 DEF Replica
<1>4. /\ DOMAIN forward' = DOMAIN forward \cup {inserting.id}
      /\ \A i \in DOMAIN forward' : \/ forward'[i] = forward[i] /\ i \in DOMAIN forward
                                    \/ forward'[i] = inserting.s
      /\ DOMAIN reverse' = DOMAIN reverse \cup {made[inserting.s].pid}
      /\ \A p \in DOMAIN reverse' : \/ reverse'[p] = reverse[p] /\ p \in DOMAIN reverse
                                    \/ reverse'[p] = inserting.id
  BY DEF Insert, Map
<1> QED
  BY <1>1, <1>2, <1>3, <1>4 DEF ReplayTypes

\* The compositor's reader: an event may be the last of its object.
LEMMA ReadEventDoes ==
    ASSUME ReplayTypes, ReturnTypes, NEW s \in DOMAIN made, ReadEvent(s)
    PROVE  /\ UNCHANGED <<appVars, proxy, c2s, linked, forward, reverse, inserting,
                          returnVars, astray>>
           /\ Alive(s)
           /\ made' = [t \in DOMAIN made |->
                         IF t \in {u \in {s} : made[s].kind = "callback"}
                         THEN [made[t] EXCEPT !.alive = FALSE] ELSE made[t]]
           /\ \/ s2c' = s2c
              \/ \E m \in Event :
                   /\ s2c' = Append(s2c, m)
                   /\ m.k = made[s].k /\ m.kind = made[s].kind
<1>1. /\ UNCHANGED <<appVars, proxy, c2s, linked, forward, reverse, inserting,
                     returnVars, astray>>
      /\ Alive(s)
  BY DEF ReadEvent
<1>2. made[s] \in Replica /\ made[s].alive = TRUE
  <2>1. made[s] \in Replica
    BY DEF ReplayTypes
  <2> QED
    BY <1>1, <2>1 DEF Alive, Replica
<1>3. made' = [made EXCEPT ![s].alive = (made[s].kind # "callback")]
  BY DEF ReadEvent
<1>4. made' = [t \in DOMAIN made |->
                 IF t \in {u \in {s} : made[s].kind = "callback"}
                 THEN [made[t] EXCEPT !.alive = FALSE] ELSE made[t]]
  <2>1. CASE made[s].kind = "callback"
    BY <1>3, <2>1
  <2>2. CASE made[s].kind # "callback"
    <3>1. [made[s] EXCEPT !.alive = TRUE] = made[s]
      BY <1>2 DEF Replica
    <3> QED
      BY <1>3, <2>2, <3>1
  <2> QED
    BY <2>1, <2>2
<1>5. \/ s2c' = s2c
      \/ \E m \in Event :
           /\ s2c' = Append(s2c, m)
           /\ m.k = made[s].k /\ m.kind = made[s].kind
  <2>1. CASE made[s].pid \in DOMAIN reverse
    <3> DEFINE m == [id |-> reverse[made[s].pid], k |-> made[s].k, kind |-> made[s].kind]
    <3>1. m \in Event
      BY <1>2, <2>1 DEF ReplayTypes, Event, Replica
    <3>2. s2c' = Append(s2c, m)
      BY <2>1 DEF ReadEvent
    <3>3. m.k = made[s].k /\ m.kind = made[s].kind
      OBVIOUS
    <3> QED
      BY <3>1, <3>2, <3>3
  <2> QED
    BY <2>1 DEF ReadEvent
<1> QED
  BY <1>1, <1>4, <1>5

\* Reading an event keeps all types.
LEMMA ReadEventTypes ==
    ASSUME Types, NEW s \in DOMAIN made, ReadEvent(s)
    PROVE  Types'
<1> USE DEF Types
<1>1. AppTypes'
  BY ReadEventDoes, AppStays
<1>2. made' \in Seq(Replica) /\ DOMAIN made' = DOMAIN made
  BY ReadEventDoes, KilledTypes
<1>3. ReplayTypes'
  BY <1>2, ReadEventDoes DEF ReplayTypes
<1>4. s2c' \in Seq(Event)
  BY ReadEventDoes DEF ReturnTypes
<1> QED
  BY <1>1, <1>3, <1>4, ReadEventDoes DEF ReturnTypes, returnVars

\* It leaves all objects but perhaps its own callback as they were.
LEMMA ReadEventKeeps ==
    ASSUME Types, NEW s \in DOMAIN made, ReadEvent(s)
    PROVE  /\ DOMAIN made' = DOMAIN made /\ Len(made') = Len(made)
           /\ \A u \in DOMAIN made :
                /\ made'[u].k = made[u].k /\ made'[u].pid = made[u].pid
                /\ made'[u].alive => made[u].alive
           /\ made[s].kind = "callback" => ~ made'[s].alive
<1>1. made' = [t \in DOMAIN made |->
                 IF t \in {u \in {s} : made[s].kind = "callback"}
                 THEN [made[t] EXCEPT !.alive = FALSE] ELSE made[t]]
  BY ReadEventDoes DEF Types
<1> QED
  BY <1>1, KilledTypes DEF Types

\* The way back.
LEMMA PostTypes ==
    ASSUME Types, Post
    PROVE  Types'
<1> USE DEF Types
<1>1. AppTypes' /\ ReplayTypes'
  BY AppStays, ReplayStays DEF Post, PostQueues, PostWakes
<1>2. CASE PostQueues
  <2>1. inbox' \in Seq(Event) /\ s2c' \in Seq(Event)
    BY <1>2 DEF PostQueues, ReturnTypes
  <2>2. posting' = TRUE /\ UNCHANGED <<proxy, astray, wake>>
    BY <1>2 DEF PostQueues
  <2> QED
    BY <1>1, <2>1, <2>2 DEF ReturnTypes
<1>3. CASE PostWakes
  BY <1>1, <1>3 DEF PostWakes, ReturnTypes
<1> QED
  BY <1>2, <1>3 DEF Post

\* The proxy's drain keeps all types.
LEMMA DrainTypes ==
    ASSUME Types, Drain
    PROVE  Types'
<1> USE DEF Types
<1>1. ReplayTypes'
  BY ReplayStays DEF Drain, StartDrain, DeliverEvent, EndDrain
<1>2. AppTypes'
  BY AppStays, DeliverAppTypes DEF Drain, StartDrain, EndDrain
<1>3. CASE StartDrain
  BY <1>1, <1>2, <1>3 DEF StartDrain, ReturnTypes
<1>4. CASE EndDrain
  BY <1>1, <1>2, <1>4 DEF EndDrain, ReturnTypes, returnVars
<1>5. CASE DeliverEvent
  <2>1. inbox' \in Seq(Event)
    BY <1>5 DEF DeliverEvent, ReturnTypes
  <2>2. proxy' \in {"poll", "drain"} /\ astray' \subseteq astray \cup {"event"}
        /\ UNCHANGED <<s2c, posting, wake>>
    BY <1>5 DEF DeliverEvent, AfterEvent
  <2> QED
    BY <1>1, <1>2, <2>1, <2>2 DEF ReturnTypes
<1> QED
  BY <1>3, <1>4, <1>5 DEF Drain

\* A request of the application keeps all types.
LEMMA RequestTypes ==
    ASSUME Types, Request
    PROVE  Types'
<1>1. Dispatching
  BY DEF Request, Bind, Create, CreateParams, CreateImmed, AddPlane, CreateAsync, Use, Destroy
<1> QED
  BY <1>1, RequestAppTypes, ReplayStays, ReturnStays DEF Types, Dispatching

\* Every step keeps the types.
LEMMA TypesNext ==
    ASSUME Types, [Next]_vars
    PROVE  Types'
<1>1. CASE UNCHANGED vars
  BY <1>1, AppStays, ReplayStays, ReturnStays DEF vars, Types
<1> QED
  BY <1>1, RequestTypes, DrainTypes, HandlingTypes, InsertTypes, ReadEventTypes, PostTypes
     DEF Next, Replay, CompositorReader, Handles

-----------------------------------------------------------------------------
(* The order in which objects are made.                                    *)

\* The numbers that are compared are numbers.
LEMMA Numbers ==
    ASSUME Types
    PROVE  /\ born \in Nat
           /\ \A s \in DOMAIN made : made[s] \in Replica /\ made[s].k \in Nat /\ s \in Nat
           /\ \A i \in DOMAIN c2s :
                /\ c2s[i] \in Message /\ c2s[i].new \in SomeObject /\ c2s[i].new.k \in Nat
                /\ c2s[i].to \in SomeObject /\ c2s[i].arg \in SomeObject /\ i \in Nat
<1>1. \A x \in SomeObject : x.k \in Nat
  BY DEF SomeObject, Object, NoObject
<1>2. \A x \in Replica : x.k \in Nat
  BY DEF Replica
<1>3. \A x \in Message : x.new \in SomeObject /\ x.to \in SomeObject /\ x.arg \in SomeObject
  BY DEF Message, SomeObject
<1>4. \A s \in DOMAIN made : made[s] \in Replica /\ s \in Nat
  BY DEF Types, ReplayTypes
<1>5. \A i \in DOMAIN c2s : c2s[i] \in Message /\ i \in Nat
  BY DEF Types, AppTypes
<1>6. born \in Nat
  BY DEF Types, AppTypes
<1> QED
  BY <1>1, <1>2, <1>3, <1>4, <1>5, <1>6

\* What a request of the application does to the link: nothing, or one message
\* more, whose new object, if it has one, is numbered after all others.  What
\* it names is what is held; and what is held changes only by the new object,
\* or by the end of the object that the message destroys.
LEMMA RequestDoes ==
    ASSUME Types, Request
    PROVE  /\ UNCHANGED <<replayVars, returnVars, proxy, s2c, astray>>
           /\ born' = born \/ born' = born + 1
           /\ \/ /\ UNCHANGED c2s
                 /\ \A id \in Ids : objects'[id] = objects[id] \/ objects[id] = NoObject
              \/ \E m \in Message :
                   /\ c2s' = Append(c2s, m)
                   /\ \A x \in {m.to, m.arg} :
                        x = NoObject \/ (x.id \in Ids /\ objects[x.id] = x)
                   /\ \/ m.new = NoObject
                      \/ /\ born' = born + 1 /\ m.new.k = born' /\ m.new.id \in Ids
                         /\ objects'[m.new.id] = m.new
                   /\ \A id \in Ids :
                        \/ objects'[id] = objects[id] \/ objects[id] = NoObject
                        \/ m.op = "destroy" /\ m.to = objects[id]
<1> USE DEF Types
<1>1. UNCHANGED <<replayVars, returnVars, proxy, s2c, astray>>
  BY DEF Request, Bind, Create, CreateParams, CreateImmed, AddPlane, CreateAsync, Use,
         Destroy, Dispatching
<1> DEFINE Says(m) ==
             /\ c2s' = Append(c2s, m)
             /\ \A x \in {m.to, m.arg} :
                  x = NoObject \/ (x.id \in Ids /\ objects[x.id] = x)
             /\ \/ m.new = NoObject
                \/ /\ born' = born + 1 /\ m.new.k = born' /\ m.new.id \in Ids
                   /\ objects'[m.new.id] = m.new
             /\ \A id \in Ids :
                  \/ objects'[id] = objects[id] \/ objects[id] = NoObject
                  \/ m.op = "destroy" /\ m.to = objects[id]
           Msg(op, to, new, arg) == [op |-> op, to |-> to, new |-> new, arg |-> arg]
           Fresh == \A id \in Ids : objects'[id] = objects[id] \/ objects[id] = NoObject
           Grows == born' = born \/ born' = born + 1
\* A new object is recorded and forwarded.
<1>2. ASSUME NEW id \in FreeIds, NEW kind \in Kinds, NEW op \in {"bind", "request", "token"},
             NEW to \in SomeObject, to = NoObject \/ (to.id \in Ids /\ objects[to.id] = to),
             Records(New(id, kind)), Forward(op, to, New(id, kind), NoObject)
      PROVE  Grows /\ \E m \in Message : Says(m)
  <2> DEFINE new == New(id, kind)
             m == Msg(op, to, new, NoObject)
  <2>1. /\ born' = born + 1 /\ new \in SomeObject /\ new \in Object /\ id \in Ids
        /\ objects'[id] = new
        /\ \A i \in Ids \ {id} : objects'[i] = objects[i]
    BY <1>2, Recorded
  <2>2. objects[id] = NoObject
    BY FreeOnes
  <2>3. new.id = id /\ new.k = born'
    BY <2>1 DEF New
  <2> HIDE DEF new
  <2>4. m \in Message
    BY <2>1, <1>2, NothingIsSomething DEF Message
  <2>5. c2s' = Append(c2s, m)
    BY <1>2 DEF Forward, new
  <2>6. m.to = to /\ m.arg = NoObject /\ m.new = new
    OBVIOUS
  <2> HIDE DEF m
  <2>7. Says(m)
    BY <2>1, <2>2, <2>3, <2>5, <2>6, <1>2
  <2> QED
    BY <2>1, <2>4, <2>7
\* One is recorded only.
<1>3. ASSUME NEW id \in FreeIds, NEW kind \in Kinds, Records(New(id, kind))
      PROVE  Grows /\ Fresh
  BY <1>3, Recorded, FreeOnes
<1>4. ASSUME NEW id \in FreeIds, NEW kind \in Globals, Bind(id, kind)
      PROVE  Grows /\ \E m \in Message : Says(m)
  BY <1>4, <1>2, NothingIsSomething DEF Bind, Kinds
<1>5. ASSUME NEW id \in FreeIds, NEW o \in Held({"factory", "surface"}), Create(o, id)
      PROVE  Grows /\ \E m \in Message : Says(m)
  <2>1. /\ o \in SomeObject /\ o.id \in Ids /\ objects[o.id] = o
        /\ o.kind \in {"factory", "surface"}
    BY HeldOnes DEF Kinds, Globals
  <2> DEFINE kind == Creates[o.kind]
  <2>2. kind \in Kinds
    BY <2>1 DEF Creates, Kinds
  <2>3. Records(New(id, kind)) /\ Forward("request", o, New(id, kind), NoObject)
    BY <1>5 DEF Create
  <2> HIDE DEF kind
  <2> QED
    BY <1>2, <2>1, <2>2, <2>3
<1>6. ASSUME NEW id \in FreeIds, CreateParams(id)
      PROVE  Grows /\ UNCHANGED c2s /\ Fresh
  BY <1>6, <1>3 DEF CreateParams, Kinds
<1>7. ASSUME NEW id \in FreeIds, NEW o \in Held({"params"}), CreateImmed(o, id)
      PROVE  Grows /\ \/ UNCHANGED c2s /\ Fresh
                      \/ \E m \in Message : Says(m)
  <2>1. /\ o \in SomeObject /\ o.id \in Ids /\ objects[o.id] = o
    BY HeldOnes DEF Kinds
  <2>2. "buffer" \in Kinds
    BY DEF Kinds
  <2>3. /\ Records(New(id, "buffer"))
        /\ UNCHANGED c2s \/ Forward("token", o, New(id, "buffer"), NoObject)
    BY <1>7 DEF CreateImmed
  <2>4. CASE UNCHANGED c2s
    BY <1>3, <2>2, <2>3, <2>4
  <2>5. CASE Forward("token", o, New(id, "buffer"), NoObject)
    BY <1>2, <2>1, <2>2, <2>3, <2>5
  <2> QED
    BY <2>3, <2>4, <2>5
<1>8. ASSUME NEW o \in Held({"params"}), AddPlane(o) \/ CreateAsync(o)
      PROVE  Grows /\ UNCHANGED c2s /\ Fresh
  BY <1>8 DEF AddPlane, CreateAsync
<1>9. ASSUME NEW o \in Held({"surface"}), NEW arg \in Held({"buffer", "surface"}) \cup {NoObject},
             Use(o, arg)
      PROVE  Grows /\ \E m \in Message : Says(m)
  <2> DEFINE m == Msg("request", o, NoObject, arg)
  <2>1. /\ o \in SomeObject /\ o.id \in Ids /\ objects[o.id] = o
        /\ arg \in SomeObject
        /\ arg = NoObject \/ (arg.id \in Ids /\ objects[arg.id] = arg)
    BY HeldOnes, NothingIsSomething DEF Kinds, Globals
  <2>2. m \in Message
    BY <2>1, NothingIsSomething DEF Message
  <2>3. c2s' = Append(c2s, m) /\ born' = born /\ objects' = objects
    BY <1>9 DEF Use, Forward
  <2>4. m.to = o /\ m.arg = arg /\ m.new = NoObject
    OBVIOUS
  <2> HIDE DEF m
  <2>5. Says(m)
    BY <2>1, <2>3, <2>4
  <2> QED
    BY <2>2, <2>3, <2>5
<1>10. ASSUME NEW o \in Held(Kinds \ {"callback"}), Destroy(o)
       PROVE  Grows /\ \E m \in Message : Says(m)
  <2> DEFINE m == Msg("destroy", o, NoObject, NoObject)
  <2>1. o \in SomeObject /\ o.id \in Ids /\ objects[o.id] = o
    BY HeldOnes
  <2>2. m \in Message
    BY <2>1, NothingIsSomething DEF Message
  <2>3. c2s' = Append(c2s, m) /\ born' = born /\ Destroyed(o.id)
    BY <1>10 DEF Destroy, Forward
  <2>4. m.to = o /\ m.arg = NoObject /\ m.new = NoObject /\ m.op = "destroy"
    OBVIOUS
  <2>5. \A i \in Ids \ {o.id} : objects'[i] = objects[i]
    BY <2>1, <2>3, Dropped
  <2> HIDE DEF m
  <2>6. Says(m)
    BY <2>1, <2>3, <2>4, <2>5
  <2> QED
    BY <2>2, <2>3, <2>6
<1> HIDE DEF Says, Fresh, Grows
<1>11. Grows /\ \/ UNCHANGED c2s /\ Fresh
                \/ \E m \in Message : Says(m)
  BY <1>4, <1>5, <1>6, <1>7, <1>8, <1>9, <1>10 DEF Request
<1> QED
  BY <1>1, <1>11 DEF Says, Fresh, Grows

\* Steps that leave what is made, and what is to make, as they are.
LEMMA OrderStays ==
    ASSUME Order, UNCHANGED <<born, c2s, linked>>, DOMAIN made' = DOMAIN made,
           made = << >> => made' = << >>,
           \A s \in DOMAIN made : made'[s].k = made[s].k
    PROVE  Order'
  BY DEF Order, MadeInOrder, MadeWereBorn, ToMakeWereBorn, MadeBeforeToMake, ToMakeInOrder

\* What the application creates comes after all it created before.
LEMMA RequestOrder ==
    ASSUME Types, Types', Order, Request
    PROVE  Order'
<1>1. UNCHANGED <<made, linked>>
  BY RequestDoes DEF replayVars
<1>2. born' >= born /\ born \in Nat /\ born' \in Nat
  BY RequestDoes, Numbers
<1>3. CASE UNCHANGED c2s
  BY <1>1, <1>2, <1>3, Numbers
     DEF Order, MadeInOrder, MadeWereBorn, ToMakeWereBorn, MadeBeforeToMake, ToMakeInOrder
<1>4. ASSUME NEW m \in Message, c2s' = Append(c2s, m),
             m.new = NoObject \/ (born' = born + 1 /\ m.new.k = born')
      PROVE  Order'
  <2> DEFINE L == Len(c2s)
  <2>1. /\ L \in Nat /\ DOMAIN c2s = 1 .. L /\ DOMAIN c2s' = DOMAIN c2s \cup {L + 1}
        /\ \A i \in DOMAIN c2s : i # L + 1 /\ c2s'[i] = c2s[i]
        /\ c2s'[L + 1] = m
    BY <1>4, Pushed DEF Types, AppTypes
  <2>2. m.new = NoObject => m.new.k = 0
    BY DEF NoObject
  <2>3. \A s \in DOMAIN made : made[s].k \in Nat /\ made[s].k <= born
    BY Numbers DEF Order, MadeWereBorn
  <2>4. \A i \in DOMAIN c2s : c2s[i].new.k \in Nat /\ c2s[i].new.k <= born
    BY Numbers DEF Order, ToMakeWereBorn
  <2> HIDE DEF L
  <2>5. MadeInOrder' /\ MadeWereBorn'
    BY <1>1, <1>2, <2>3 DEF Order, MadeInOrder, MadeWereBorn
  <2>6. ToMakeWereBorn'
    BY <1>2, <1>4, <2>1, <2>2, <2>4 DEF ToMakeWereBorn
  <2>7. MadeBeforeToMake'
    BY <1>1, <1>2, <1>4, <2>1, <2>3 DEF MadeBeforeToMake, Order
  <2>8. ToMakeInOrder'
    <3> SUFFICES ASSUME NEW i \in DOMAIN c2s', NEW j \in DOMAIN c2s', i < j,
                        c2s'[i].new # NoObject, c2s'[j].new # NoObject
                 PROVE  c2s'[i].new.k < c2s'[j].new.k
      BY DEF ToMakeInOrder
    <3>1. i \in DOMAIN c2s
      BY <2>1
    <3>2. CASE j \in DOMAIN c2s
      BY <2>1, <3>1, <3>2 DEF Order, ToMakeInOrder
    <3>3. CASE j = L + 1
      BY <1>2, <1>4, <2>1, <2>4, <3>1, <3>3
    <3> QED
      BY <2>1, <3>2, <3>3
  <2> QED
    BY <1>1, <2>5, <2>6, <2>7, <2>8 DEF Order
<1> QED
  BY <1>3, <1>4, RequestDoes

\* What a message makes on S comes after all that was made.
LEMMA HandlingOrder ==
    ASSUME Types, Types', Order, Handles
    PROVE  Order'
<1>1. /\ born' = born /\ c2s # << >> /\ c2s' = Tail(c2s)
  BY HandlingDoes DEF Types, appVars
<1>2. /\ \A i \in DOMAIN c2s' : i \in Nat \ {0} /\ i + 1 \in DOMAIN c2s /\ c2s'[i] = c2s[i + 1]
      /\ 1 \in DOMAIN c2s /\ Head(c2s) = c2s[1]
  BY <1>1, Heads DEF Types, AppTypes
<1>3. ToMakeWereBorn'
  BY <1>1, <1>2 DEF Order, ToMakeWereBorn
<1>4. ToMakeInOrder'
  BY <1>2 DEF Order, ToMakeInOrder
<1>5. ASSUME DOMAIN made' = DOMAIN made, \A s \in DOMAIN made : made'[s].k = made[s].k,
             made = << >> => made' = << >>, linked' = TRUE \/ UNCHANGED linked
      PROVE  Order'
  BY <1>1, <1>2, <1>3, <1>4, <1>5 DEF Order, MadeInOrder, MadeWereBorn, MadeBeforeToMake
<1>6. CASE UNCHANGED made /\ (linked' = TRUE \/ UNCHANGED linked)
  BY <1>5, <1>6
<1>7. CASE /\ made' = [s \in DOMAIN made |->
                         IF s \in ToS(Head(c2s).to.id)
                         THEN [made[s] EXCEPT !.alive = FALSE] ELSE made[s]]
           /\ linked'
  <2>1. DOMAIN made' = DOMAIN made /\ Len(made') = Len(made)
        /\ \A s \in DOMAIN made : made'[s].k = made[s].k
    BY <1>7, KilledTypes DEF Types
  <2>2. linked' = TRUE
    BY <1>7 DEF Types, ReplayTypes
  <2>3. made = << >> => made' = << >>
    BY <2>1 DEF Types, ReplayTypes
  <2> QED
    BY <1>5, <2>1, <2>2, <2>3
<1>8. CASE Head(c2s).new \in Object /\ Makes(Head(c2s).new) /\ linked'
  <2> DEFINE new == Head(c2s).new
             S == Len(made) + 1
  <2>1. /\ DOMAIN made' = DOMAIN made \cup {S} /\ made'[S].k = new.k
        /\ \A s \in DOMAIN made : made'[s] = made[s] /\ s # S
        /\ Len(made) \in Nat /\ DOMAIN made = 1 .. Len(made)
    BY <1>8, Made DEF Types
  <2>2. new # NoObject
    <3>1. "none" \notin Kinds
      BY DEF Kinds, Globals
    <3> QED
      BY <1>8, <3>1 DEF Object, NoObject
  <2>3. \A s \in DOMAIN made : made[s].k < new.k
    BY <1>2, <2>2 DEF Order, MadeBeforeToMake
  <2>4. new.k <= born
    BY <1>2 DEF Order, ToMakeWereBorn
  <2>5. \A i \in DOMAIN c2s' : c2s'[i].new # NoObject => new.k < c2s'[i].new.k
    BY <1>2, <2>2 DEF Order, ToMakeInOrder
  <2> HIDE DEF new
  <2>6. MadeInOrder'
    <3> SUFFICES ASSUME NEW s \in DOMAIN made', NEW t \in DOMAIN made', s < t
                 PROVE  made'[s].k < made'[t].k
      BY DEF MadeInOrder
    <3>1. s \in DOMAIN made
      BY <2>1
    <3>2. CASE t \in DOMAIN made
      BY <2>1, <3>1, <3>2 DEF Order, MadeInOrder
    <3>3. CASE t = S
      BY <2>1, <2>3, <3>1, <3>3
    <3> QED
      BY <2>1, <3>2, <3>3
  <2>7. MadeWereBorn'
    BY <1>1, <2>1, <2>4 DEF Order, MadeWereBorn
  <2>8. MadeBeforeToMake'
    BY <1>2, <2>1, <2>5 DEF Order, MadeBeforeToMake
  <2>9. linked' = TRUE
    BY <1>8 DEF Types, ReplayTypes
  <2> QED
    BY <1>3, <1>4, <2>6, <2>7, <2>8, <2>9 DEF Order
<1> QED
  BY <1>6, <1>7, <1>8, HandlingDoes DEF Types

\* Every step keeps the order of the objects.
LEMMA OrderNext ==
    ASSUME Types, Types', Order, [Next]_vars
    PROVE  Order'
<1>1. CASE UNCHANGED vars
  BY <1>1, OrderStays DEF vars, appVars, replayVars
<1>2. CASE Drain \/ Post \/ Insert
  BY <1>2, OrderStays
     DEF Drain, StartDrain, DeliverEvent, EndDrain, Post, PostQueues, PostWakes, Insert,
         appVars, replayVars
<1>3. ASSUME NEW s \in DOMAIN made, ReadEvent(s)
      PROVE  Order'
  <2>1. UNCHANGED <<born, c2s, linked>>
    BY <1>3, ReadEventDoes DEF Types, appVars
  <2>2. /\ DOMAIN made' = DOMAIN made /\ Len(made') = Len(made)
        /\ \A t \in DOMAIN made : made'[t].k = made[t].k
    BY <1>3, ReadEventDoes, KilledTypes DEF Types
  <2>3. made # << >>
    BY <1>3
  <2> QED
    BY <2>1, <2>2, <2>3, OrderStays
<1> QED
  BY <1>1, <1>2, <1>3, RequestOrder, HandlingOrder
     DEF Next, Replay, CompositorReader, Handles

-----------------------------------------------------------------------------
(* Callbacks whose event was sent.                                         *)

\* The dead stay dead.
LEMMA DeadStay ==
    ASSUME Types, [Next]_vars
    PROVE  Dead \subseteq Dead'
<1> SUFFICES ASSUME NEW s \in DOMAIN made, ~ made[s].alive
             PROVE  \E t \in DOMAIN made' : made'[t].k = made[s].k /\ ~ made'[t].alive
  BY DEF Dead, Alive
<1>1. CASE UNCHANGED made
  BY <1>1
<1>2. CASE Handles
  <2>1. CASE Head(c2s).new \in Object /\ Makes(Head(c2s).new)
    BY <2>1, Made DEF Types
  <2>2. CASE made' = [t \in DOMAIN made |->
                        IF t \in ToS(Head(c2s).to.id)
                        THEN [made[t] EXCEPT !.alive = FALSE] ELSE made[t]]
    BY <2>2, KilledTypes DEF Types
  <2> QED
    BY <1>1, <1>2, <2>1, <2>2, HandlingDoes DEF Types
<1>3. ASSUME NEW t \in DOMAIN made, ReadEvent(t)
      PROVE  \E u \in DOMAIN made' : made'[u].k = made[s].k /\ ~ made'[u].alive
  BY <1>3, ReadEventKeeps
<1>4. CASE Request
  BY <1>1, <1>4, RequestDoes DEF replayVars
<1>5. CASE Drain \/ Post \/ Insert \/ UNCHANGED vars
  BY <1>1, <1>5
     DEF Drain, StartDrain, DeliverEvent, EndDrain, Post, PostQueues, PostWakes, Insert,
         replayVars, vars
<1> QED
  BY <1>2, <1>3, <1>4, <1>5 DEF Next, Replay, CompositorReader, Handles

\* Whatever is on the way back was there before, or is the event now read.
LEMMA RetiredNext ==
    ASSUME Types, Order, Retired, [Next]_vars
    PROVE  Retired'
<1> DEFINE From(m) == m.kind = "callback" => m.k \in Dead'
<1>1. ASSUME NEW i \in DOMAIN s2c PROVE From(s2c[i])
  BY DeadStay DEF Retired
<1>2. ASSUME NEW i \in DOMAIN inbox PROVE From(inbox[i])
  BY DeadStay DEF Retired
<1>3. SUFFICES /\ \A i \in DOMAIN s2c' : From(s2c'[i])
               /\ \A i \in DOMAIN inbox' : From(inbox'[i])
  BY DEF Retired
<1> HIDE DEF From
<1>4. CASE UNCHANGED <<s2c, inbox>>
  BY <1>1, <1>2, <1>4
<1>5. CASE PostQueues
  <2>1. s2c # << >> /\ s2c \in Seq(Event) /\ inbox \in Seq(Event)
        /\ inbox' = Append(inbox, Head(s2c)) /\ s2c' = Tail(s2c)
    BY <1>5 DEF PostQueues, Types, ReturnTypes
  <2>2. /\ \A i \in DOMAIN s2c' : i + 1 \in DOMAIN s2c /\ s2c'[i] = s2c[i + 1]
        /\ 1 \in DOMAIN s2c /\ Head(s2c) = s2c[1] /\ Head(s2c) \in Event
    BY <2>1, Heads
  <2>3. /\ DOMAIN inbox' = DOMAIN inbox \cup {Len(inbox) + 1}
        /\ \A i \in DOMAIN inbox : inbox'[i] = inbox[i]
        /\ inbox'[Len(inbox) + 1] = s2c[1]
    BY <2>1, <2>2, Pushed
  <2> QED
    BY <1>1, <1>2, <2>2, <2>3
<1>6. CASE DeliverEvent
  <2>1. s2c' = s2c /\ inbox # << >> /\ inbox' = Tail(inbox) /\ inbox \in Seq(Event)
    BY <1>6 DEF DeliverEvent, Types, ReturnTypes
  <2>2. \A i \in DOMAIN inbox' : i + 1 \in DOMAIN inbox /\ inbox'[i] = inbox[i + 1]
    BY <2>1, Heads
  <2> QED
    BY <1>1, <1>2, <2>1, <2>2
<1>7. ASSUME NEW s \in DOMAIN made, ReadEvent(s)
      PROVE  /\ \A i \in DOMAIN s2c' : From(s2c'[i])
             /\ \A i \in DOMAIN inbox' : From(inbox'[i])
  <2>1. inbox' = inbox
    BY <1>7, ReadEventDoes DEF Types, returnVars
  <2>2. CASE s2c' = s2c
    BY <1>4, <2>1, <2>2
  <2>3. ASSUME NEW m \in Event, s2c' = Append(s2c, m), m.k = made[s].k, m.kind = made[s].kind
        PROVE  \A i \in DOMAIN s2c' : From(s2c'[i])
    <3>1. From(m)
      <4>1. /\ DOMAIN made' = DOMAIN made /\ made'[s].k = made[s].k
            /\ made[s].kind = "callback" => ~ made'[s].alive
        BY <1>7, ReadEventKeeps DEF Types
      <4> QED
        BY <1>7, <2>3, <4>1 DEF From, Dead, Alive
    <3>2. /\ DOMAIN s2c' = DOMAIN s2c \cup {Len(s2c) + 1}
          /\ \A i \in DOMAIN s2c : s2c'[i] = s2c[i]
          /\ s2c'[Len(s2c) + 1] = m
      BY <2>3, Pushed DEF Types, ReturnTypes
    <3> QED
      BY <1>1, <3>1, <3>2
  <2> QED
    BY <1>2, <1>7, <2>1, <2>2, <2>3, ReadEventDoes DEF Types
<1>8. CASE Handles \/ Insert \/ StartDrain \/ EndDrain \/ PostWakes \/ UNCHANGED vars
  <2>1. CASE Handles
    BY <1>4, <2>1, HandlingDoes DEF Types, returnVars
  <2>2. CASE Insert \/ StartDrain \/ EndDrain \/ PostWakes \/ UNCHANGED vars
    BY <1>4, <2>2 DEF Insert, StartDrain, EndDrain, PostWakes, returnVars, vars
  <2> QED
    BY <1>8, <2>1, <2>2
<1>9. CASE Request
  BY <1>4, <1>9, RequestDoes DEF returnVars
<1> QED
  BY <1>5, <1>6, <1>7, <1>8, <1>9
     DEF Next, Drain, Replay, CompositorReader, Post, Handles

-----------------------------------------------------------------------------
(* The maps.                                                               *)

\* Steps after which no more are alive than before.
LEMMA MapsStay ==
    ASSUME Types, Maps, UNCHANGED <<forward, reverse, inserting>>,
           DOMAIN made' = DOMAIN made, Len(made') = Len(made),
           \A s \in DOMAIN made :
               made'[s].pid = made[s].pid /\ (made'[s].alive => made[s].alive)
    PROVE  Maps'
<1>1. \A s \in DOMAIN made : Alive(s)' => Alive(s)
  BY DEF Alive
<1>2. OwnPids' /\ MapsNeverDrift'
  BY <1>1 DEF Maps, OwnPids, MapsNeverDrift, Types, ReplayTypes
<1>3. NewestInserting'
  <2> SUFFICES ASSUME inserting # NoInsert
               PROVE  /\ inserting.s = Len(made)
                      /\ \A t \in DOMAIN made :
                           Alive(t)' /\ t # inserting.s => made'[t].pid # made'[inserting.s].pid
                      /\ \A id \in DOMAIN forward : forward[id] # inserting.s
    BY DEF NewestInserting
  <2>1. inserting.s \in DOMAIN made
    BY DEF Types, ReplayTypes
  <2> QED
    BY <1>1, <2>1 DEF Maps, NewestInserting
<1> QED
  BY <1>2, <1>3 DEF Maps

\* The handling of a message keeps the maps' agreement.
LEMMA HandlingMaps ==
    ASSUME Types, Types', Maps, Handles
    PROVE  Maps'
<1>1. inserting = NoInsert /\ UNCHANGED <<forward, reverse>>
  BY HandlingDoes DEF Types
<1>2. CASE UNCHANGED <<made, inserting>>
  BY <1>1, <1>2, MapsStay
<1>3. CASE /\ UNCHANGED inserting
           /\ made' = [s \in DOMAIN made |->
                         IF s \in ToS(Head(c2s).to.id)
                         THEN [made[s] EXCEPT !.alive = FALSE] ELSE made[s]]
  <2>1. /\ DOMAIN made' = DOMAIN made /\ Len(made') = Len(made)
        /\ \A s \in DOMAIN made :
             made'[s].pid = made[s].pid /\ (made'[s].alive => made[s].alive)
    BY <1>3, KilledTypes DEF Types
  <2> QED
    BY <1>1, <1>3, <2>1, MapsStay
<1>4. CASE Head(c2s).new \in Object /\ Makes(Head(c2s).new)
  <2> DEFINE S == Len(made) + 1
  <2>1. /\ Len(made) \in Nat /\ DOMAIN made' = DOMAIN made \cup {S}
        /\ \A s \in DOMAIN made : made'[s] = made[s] /\ s # S
        /\ \A s \in DOMAIN made : Alive(s) => made[s].pid # made'[S].pid
        /\ inserting' = [id |-> Head(c2s).new.id, s |-> S]
    BY <1>4, Made DEF Types
  <2>2. Len(made') = S
    <3>1. made' \in Seq(Replica) /\ made \in Seq(Replica)
      BY DEF Types, ReplayTypes
    <3>2. PICK r : made' = Append(made, r)
      BY <1>4 DEF Makes
    <3> QED
      BY <3>1, <3>2
  <2> HIDE DEF S
  <2>3. inserting'.s = S /\ \A s \in DOMAIN made : Alive(s)' <=> Alive(s)
    BY <2>1 DEF Alive
  <2>4. \A id \in DOMAIN forward : forward[id] \in DOMAIN made
    BY DEF Types, ReplayTypes
  <2>5. OwnPids'
    BY <2>1, <2>3 DEF OwnPids, Maps
  <2>6. NewestInserting'
    BY <1>1, <2>1, <2>2, <2>3, <2>4 DEF NewestInserting
  <2>7. MapsNeverDrift'
    BY <1>1, <2>1, <2>3, <2>4 DEF MapsNeverDrift, Maps
  <2> QED
    BY <2>5, <2>6, <2>7 DEF Maps
<1> QED
  BY <1>2, <1>3, <1>4, HandlingDoes DEF Types

\* What Insert does to the maps.
LEMMA InsertDoes ==
    ASSUME Types, Insert
    PROVE  /\ inserting # NoInsert /\ inserting' = NoInsert
           /\ UNCHANGED <<appVars, proxy, c2s, linked, made, s2c, returnVars, astray>>
           /\ inserting.id \in Ids /\ inserting.s \in DOMAIN made
           /\ DOMAIN forward' = DOMAIN forward \cup {inserting.id}
           /\ forward'[inserting.id] = inserting.s
           /\ \A i \in DOMAIN forward \ {inserting.id} : forward'[i] = forward[i]
           /\ DOMAIN reverse' = DOMAIN reverse \cup {made[inserting.s].pid}
           /\ reverse'[made[inserting.s].pid] = inserting.id
           /\ \A p \in DOMAIN reverse \ {made[inserting.s].pid} : reverse'[p] = reverse[p]
<1>1. /\ inserting # NoInsert /\ inserting' = NoInsert
      /\ UNCHANGED <<appVars, proxy, c2s, linked, made, s2c, returnVars, astray>>
      /\ Map(inserting.id, inserting.s)
  BY DEF Insert
<1>2. inserting.id \in Ids /\ inserting.s \in DOMAIN made
  BY <1>1 DEF Types, ReplayTypes
<1> QED
  BY <1>1, <1>2 DEF Map

\* The insert keeps it: the id is the newest object's, on both sides.
LEMMA InsertMaps ==
    ASSUME Types, Types', Maps, Insert
    PROVE  Maps'
<1> DEFINE id == inserting.id
           s == inserting.s
<1>1. /\ inserting # NoInsert /\ inserting' = NoInsert /\ made' = made
      /\ s \in DOMAIN made
      /\ DOMAIN forward' = DOMAIN forward \cup {id} /\ forward'[id] = s
      /\ \A i \in DOMAIN forward \ {id} : forward'[i] = forward[i]
      /\ DOMAIN reverse' = DOMAIN reverse \cup {made[s].pid} /\ reverse'[made[s].pid] = id
      /\ \A p \in DOMAIN reverse \ {made[s].pid} : reverse'[p] = reverse[p]
  BY InsertDoes
<1>2. /\ \A t \in DOMAIN made : Alive(t) /\ t # s => made[t].pid # made[s].pid
      /\ \A i \in DOMAIN forward : forward[i] # s
  BY <1>1 DEF Maps, NewestInserting
<1>3. \A i \in DOMAIN forward : forward[i] \in DOMAIN made
  BY DEF Types, ReplayTypes
<1> HIDE DEF id, s
<1>4. \A t : Alive(t)' <=> Alive(t)
  BY <1>1 DEF Alive
<1>5. OwnPids' /\ NewestInserting'
  BY <1>1, <1>4 DEF Maps, OwnPids, NewestInserting
<1>6. MapsNeverDrift'
  <2> SUFFICES ASSUME NEW i \in DOMAIN forward', Alive(forward'[i])
               PROVE  /\ made[forward'[i]].pid \in DOMAIN reverse'
                      /\ reverse'[made[forward'[i]].pid] = i
    BY <1>1, <1>4 DEF MapsNeverDrift, Alive
  <2>1. CASE i = id
    BY <1>1, <2>1
  <2>2. CASE i # id
    <3>1. i \in DOMAIN forward /\ forward'[i] = forward[i] /\ Alive(forward[i])
      BY <1>1, <2>2
    <3>2. made[forward[i]].pid # made[s].pid
      BY <1>2, <1>3, <3>1
    <3>3. /\ made[forward[i]].pid \in DOMAIN reverse
          /\ reverse[made[forward[i]].pid] = i
      BY <3>1 DEF Maps, MapsNeverDrift
    <3> QED
      BY <1>1, <3>1, <3>2, <3>3
  <2> QED
    BY <2>1, <2>2
<1> QED
  BY <1>5, <1>6 DEF Maps

\* Every step keeps it.
LEMMA MapsNext ==
    ASSUME Types, Types', Maps, [Next]_vars
    PROVE  Maps'
<1>1. CASE UNCHANGED replayVars
  BY <1>1, MapsStay DEF replayVars
<1>2. ASSUME NEW s \in DOMAIN made, ReadEvent(s)
      PROVE  Maps'
  BY <1>2, ReadEventKeeps, ReadEventDoes, MapsStay DEF Types
<1>3. CASE Request
  BY <1>1, <1>3, RequestDoes
<1>4. CASE Drain \/ Post \/ UNCHANGED vars
  BY <1>1, <1>4
     DEF Drain, StartDrain, DeliverEvent, EndDrain, Post, PostQueues, PostWakes,
         replayVars, vars
<1> QED
  BY <1>2, <1>3, <1>4, HandlingMaps, InsertMaps DEF Next, Replay, CompositorReader, Handles

-----------------------------------------------------------------------------
(* What ids mean.                                                          *)

\* What may be named is a number of an object.
LEMMA NamesNumber ==
    ASSUME Types, NEW id \in Ids, NEW k, NEW i, Names(id, k, i)
    PROVE  k \in 1 .. MaxObjects
<1>1. \A s \in DOMAIN made : made[s].k \in 1 .. MaxObjects
  BY Numbers DEF Replica
<1>2. \A x \in SomeObject : x # NoObject => x.k \in 1 .. MaxObjects
  BY DEF SomeObject, Object
<1> QED
  BY <1>1, <1>2, Numbers DEF Names

\* A step that names nothing new at the head of the link, and leaves the link
\* and what is held alone.
LEMMA MeaningStays ==
    ASSUME Types, Types', SameMeaning, UNCHANGED <<objects, c2s>>,
           \A id \in Ids, k \in 1 .. MaxObjects : Names(id, k, 0)' => Names(id, k, 0)
    PROVE  SameMeaning'
<1> SUFFICES ASSUME NEW id \in Ids, NEW k \in 1 .. MaxObjects, NEW l \in 0 .. MaxObjects,
                    NEW i \in 0 .. Len(c2s), NEW j \in 1 .. Len(c2s) + 1,
                    i < j, Names(id, k, i)', Means(id, l, j)'
             PROVE  k = l \/ DestroyedBetween(id, k, i, j)'
  BY DEF SameMeaning
<1>1. Means(id, l, j)
  BY DEF Means
<1>2. Names(id, k, i)
  <2>1. CASE i = 0
    BY <2>1
  <2>2. CASE i # 0
    BY <2>2 DEF Names
  <2> QED
    BY <2>1, <2>2
<1>3. k = l \/ DestroyedBetween(id, k, i, j)
  BY <1>1, <1>2 DEF SameMeaning
<1> QED
  BY <1>3 DEF DestroyedBetween

\* An id that meant nothing comes to mean something, or one that S will never
\* take for anything comes to mean nothing: S takes it for neither.
LEMMA MeaningFreed ==
    ASSUME Types, Types', SameMeaning, UNCHANGED <<c2s, made, forward, inserting>>,
           \A id \in Ids :
               \/ objects'[id] = objects[id] \/ objects[id] = NoObject
               \/ \A i \in 0 .. Len(c2s) : ~ Names(id, objects[id].k, i)
    PROVE  SameMeaning'
<1> SUFFICES ASSUME NEW id \in Ids, NEW k \in 1 .. MaxObjects, NEW l \in 0 .. MaxObjects,
                    NEW i \in 0 .. Len(c2s), NEW j \in 1 .. Len(c2s) + 1,
                    i < j, Names(id, k, i)', Means(id, l, j)'
             PROVE  k = l \/ DestroyedBetween(id, k, i, j)'
  BY DEF SameMeaning
<1>1. Names(id, k, i)
  BY DEF Names, Alive
<1>2. CASE Means(id, l, j)
  <2>1. k = l \/ DestroyedBetween(id, k, i, j)
    BY <1>1, <1>2 DEF SameMeaning
  <2> QED
    BY <2>1 DEF DestroyedBetween
<1>3. CASE ~ Means(id, l, j)
  <2>1. j = Len(c2s) + 1 /\ objects'[id] # objects[id]
    BY <1>3 DEF Means
  <2>2. objects[id].k \in 0 .. MaxObjects /\ Means(id, objects[id].k, j)
    <3>1. objects[id] \in SomeObject
      BY DEF Types, AppTypes
    <3>2. objects[id].k \in 0 .. MaxObjects
      BY <3>1, WaylandAssumption DEF SomeObject, Object, NoObject
    <3> QED
      BY <2>1, <3>2 DEF Means
  <2>3. k = objects[id].k \/ DestroyedBetween(id, k, i, j)
    BY <1>1, <2>2 DEF SameMeaning
  <2>4. k # objects[id].k
    BY <1>1, <2>1 DEF NoObject
  <2> QED
    BY <2>3, <2>4 DEF DestroyedBetween
<1> QED
  BY <1>2, <1>3

\* One message more: it names what is held, creates what is held next, and if
\* something is held no more it says so.
LEMMA MeaningPushed ==
    ASSUME Types, Types', SameMeaning, UNCHANGED <<made, forward, inserting>>,
           NEW m \in Message, c2s' = Append(c2s, m),
           \A x \in {m.to, m.arg} : x = NoObject \/ (x.id \in Ids /\ objects[x.id] = x),
           m.new = NoObject \/ (m.new.id \in Ids /\ objects'[m.new.id] = m.new),
           \A id \in Ids :
               \/ objects'[id] = objects[id] \/ objects[id] = NoObject
               \/ m.op = "destroy" /\ m.to = objects[id]
    PROVE  SameMeaning'
<1> DEFINE L == Len(c2s)
<1>1. /\ L \in Nat /\ DOMAIN c2s = 1 .. L /\ DOMAIN c2s' = DOMAIN c2s \cup {L + 1}
      /\ \A i \in DOMAIN c2s : i # L + 1 /\ c2s'[i] = c2s[i]
      /\ c2s'[L + 1] = m /\ Len(c2s') = L + 1
  BY Pushed DEF Types, AppTypes
<1>2. \A id \in Ids : objects[id].k \in 0 .. MaxObjects
  <2>1. \A x \in SomeObject : x.k \in 0 .. MaxObjects
    BY WaylandAssumption DEF SomeObject, Object, NoObject
  <2> QED
    BY <2>1 DEF Types, AppTypes
<1>3. \A id \in Ids : objects[id] # NoObject => objects[id].id = id
  BY DEF Types, AppTypes
<1> SUFFICES ASSUME NEW id \in Ids, NEW k \in 1 .. MaxObjects, NEW l \in 0 .. MaxObjects,
                    NEW i \in 0 .. L + 1, NEW j \in 1 .. L + 2,
                    i < j, Names(id, k, i)', Means(id, l, j)'
             PROVE  k = l \/ DestroyedBetween(id, k, i, j)'
  BY <1>1 DEF SameMeaning
<1> HIDE DEF L
<1>4. ASSUME i # L + 1 PROVE Names(id, k, i)
  BY <1>1, <1>4 DEF Names, Alive
<1>5. ASSUME NEW n \in 1 .. L + 1, n <= j, DestroyedBetween(id, k, i, n)
      PROVE  DestroyedBetween(id, k, i, j)'
  BY <1>1, <1>5 DEF DestroyedBetween
<1>6. CASE j \in 1 .. L
  <2>1. Names(id, k, i)
    BY <1>1, <1>4, <1>6
  <2>2. Means(id, l, j)
    BY <1>1, <1>6 DEF Means, L
  <2>3. k = l \/ DestroyedBetween(id, k, i, j)
    BY <1>1, <1>6, <2>1, <2>2 DEF SameMeaning, L
  <2> QED
    BY <1>1, <1>5, <1>6, <2>3
<1>7. CASE j = L + 1
  <2>1. Names(id, k, i)
    BY <1>1, <1>4, <1>7
  <2>2. objects[id].k = l
    <3>1. \/ m.to # NoObject /\ m.to.id = id /\ m.to.k = l
          \/ m.arg # NoObject /\ m.arg.id = id /\ m.arg.k = l
      BY <1>1, <1>7 DEF Means
    <3> QED
      BY <3>1
  <2>3. Means(id, l, j)
    BY <1>7, <2>2 DEF Means, L
  <2>4. k = l \/ DestroyedBetween(id, k, i, j)
    BY <1>1, <1>7, <2>1, <2>3 DEF SameMeaning, L
  <2> QED
    BY <1>1, <1>5, <1>7, <2>4
<1>8. CASE j = L + 2
  <2>1. objects'[id].k = l
    BY <1>1, <1>8 DEF Means
  <2>2. CASE i = L + 1
    BY <1>1, <2>1, <2>2 DEF Names
  <2>3. CASE i # L + 1
    <3>1. Names(id, k, i) /\ i \in 0 .. L
      BY <1>1, <1>4, <2>3
    <3>2. Means(id, objects[id].k, L + 1)
      BY DEF Means, L
    <3>3. k = objects[id].k \/ DestroyedBetween(id, k, i, L + 1)
      BY <1>1, <1>2, <3>1, <3>2 DEF SameMeaning, L
    <3>4. CASE DestroyedBetween(id, k, i, L + 1)
      BY <1>1, <1>5, <1>8, <3>4
    <3>5. CASE k = objects[id].k
      <4>1. CASE objects'[id] = objects[id]
        BY <2>1, <3>5, <4>1
      <4>2. CASE objects[id] = NoObject
        BY <3>5, <4>2 DEF NoObject
      <4>3. CASE m.op = "destroy" /\ m.to = objects[id] /\ objects[id] # NoObject
        <5>1. m.to.id = id /\ m.to.k = k
          BY <1>3, <3>5, <4>3
        <5> QED
          BY <1>1, <1>8, <3>1, <4>3, <5>1 DEF DestroyedBetween
      <4> QED
        BY <4>1, <4>2, <4>3
    <3> QED
      BY <3>3, <3>4, <3>5
  <2> QED
    BY <2>2, <2>3
<1> QED
  BY <1>1, <1>6, <1>7, <1>8

\* One message fewer: what S takes an id for now it did before, unless the
\* message made it; and what the message destroys it is not taken for.
LEMMA MeaningPopped ==
    ASSUME Types, Types', SameMeaning, UNCHANGED objects,
           c2s # << >>, c2s' = Tail(c2s),
           \A id \in Ids, k \in 1 .. MaxObjects :
               Names(id, k, 0)' =>
                   \/ Names(id, k, 1)
                   \/ /\ Names(id, k, 0)
                      /\ ~ (/\ Head(c2s).op = "destroy" /\ Head(c2s).to.id = id
                            /\ Head(c2s).to.k = k)
    PROVE  SameMeaning'
<1> DEFINE L == Len(c2s)
<1>1. /\ L \in Nat \ {0} /\ DOMAIN c2s = 1 .. L /\ DOMAIN c2s' = 1 .. L - 1
      /\ \A i \in DOMAIN c2s' : c2s'[i] = c2s[i + 1]
      /\ Len(c2s') = L - 1 /\ Head(c2s) = c2s[1]
  BY DEF Types, AppTypes
<1> SUFFICES ASSUME NEW id \in Ids, NEW k \in 1 .. MaxObjects, NEW l \in 0 .. MaxObjects,
                    NEW i \in 0 .. L - 1, NEW j \in 1 .. L,
                    i < j, Names(id, k, i)', Means(id, l, j)'
             PROVE  k = l \/ DestroyedBetween(id, k, i, j)'
  BY <1>1 DEF SameMeaning
<1> HIDE DEF L
<1>2. Means(id, l, j + 1)
  <2>1. CASE j \in DOMAIN c2s'
    <3>1. c2s'[j] = c2s[j + 1] /\ j + 1 \in DOMAIN c2s /\ j # L
      BY <1>1, <2>1
    <3>2. \/ c2s[j + 1].to # NoObject /\ c2s[j + 1].to.id = id /\ c2s[j + 1].to.k = l
          \/ c2s[j + 1].arg # NoObject /\ c2s[j + 1].arg.id = id /\ c2s[j + 1].arg.k = l
      BY <1>1, <3>1 DEF Means
    <3> QED
      BY <3>1, <3>2 DEF Means
  <2>2. CASE j \notin DOMAIN c2s'
    <3>1. j = L /\ objects[id].k = l
      BY <1>1, <2>2 DEF Means
    <3> QED
      BY <1>1, <3>1 DEF Means, L
  <2> QED
    BY <2>1, <2>2
<1>3. ASSUME Names(id, k, i + 1)
      PROVE  k = l \/ DestroyedBetween(id, k, i, j)'
  <2>1. k = l \/ DestroyedBetween(id, k, i + 1, j + 1)
    BY <1>1, <1>2, <1>3 DEF SameMeaning, L
  <2>2. ASSUME NEW d \in DOMAIN c2s, i + 1 < d, d < j + 1, c2s[d].op = "destroy",
               c2s[d].to.id = id, c2s[d].to.k = k
        PROVE  DestroyedBetween(id, k, i, j)'
    <3>1. d - 1 \in DOMAIN c2s' /\ c2s'[d - 1] = c2s[d] /\ i < d - 1 /\ d - 1 < j
      BY <1>1, <2>2
    <3> QED
      BY <2>2, <3>1 DEF DestroyedBetween
  <2> QED
    BY <2>1, <2>2 DEF DestroyedBetween
<1>4. CASE i # 0
  <2>1. Names(id, k, i + 1)
    BY <1>1, <1>4 DEF Names
  <2> QED
    BY <1>3, <2>1
<1>5. CASE i = 0
  <2>1. CASE Names(id, k, 1)
    BY <1>3, <1>5, <2>1
  <2>2. CASE /\ Names(id, k, 0)
             /\ ~ (c2s[1].op = "destroy" /\ c2s[1].to.id = id /\ c2s[1].to.k = k)
    <3>1. k = l \/ DestroyedBetween(id, k, 0, j + 1)
      BY <1>1, <1>2, <2>2 DEF SameMeaning, L
    <3>2. ASSUME NEW d \in DOMAIN c2s, 0 < d, d < j + 1, c2s[d].op = "destroy",
                 c2s[d].to.id = id, c2s[d].to.k = k
          PROVE  DestroyedBetween(id, k, i, j)'
      <4>1. d # 1
        BY <2>2, <3>2
      <4>2. d - 1 \in DOMAIN c2s' /\ c2s'[d - 1] = c2s[d] /\ 0 < d - 1 /\ d - 1 < j
        BY <1>1, <3>2, <4>1
      <4> QED
        BY <1>5, <3>2, <4>2 DEF DestroyedBetween
    <3> QED
      BY <3>1, <3>2 DEF DestroyedBetween
  <2>3. Names(id, k, 0)'
    BY <1>5
  <2> QED
    BY <1>1, <2>1, <2>2, <2>3
<1> QED
  BY <1>4, <1>5

\* A message that is handled reaches what it means.
LEMMA NotAstray ==
    ASSUME Types, SameMeaning, inserting = NoInsert, c2s # << >>,
           NEW x \in {Head(c2s).to, Head(c2s).arg}, NEW s \in DOMAIN made
    PROVE  ~ Astray(x, s)
<1> SUFFICES ASSUME Astray(x, s) PROVE FALSE
  OBVIOUS
<1>1. /\ x.id \in DOMAIN forward /\ forward[x.id] = s /\ Alive(s) /\ made[s].k # x.k
  BY DEF Astray, ToS
<1>2. x.id \in Ids
  BY <1>1 DEF Types, ReplayTypes
<1>3. x # NoObject
  BY <1>2, WaylandAssumption DEF NoObject
<1>4. Head(c2s) = c2s[1] /\ 1 \in DOMAIN c2s /\ Len(c2s) \in Nat
  BY Heads DEF Types, AppTypes
<1>5. x \in SomeObject
  BY <1>4, Numbers
<1>6. x.k \in 0 .. MaxObjects
  BY <1>5, WaylandAssumption DEF SomeObject, Object, NoObject
<1>7. made[s].k \in 1 .. MaxObjects
  BY Numbers DEF Replica
<1>8. Names(x.id, made[s].k, 0)
  BY <1>1 DEF Names
<1>9. Means(x.id, x.k, 1)
  BY <1>3, <1>4 DEF Means
<1>10. DestroyedBetween(x.id, made[s].k, 0, 1)
  BY <1>1, <1>2, <1>4, <1>6, <1>7, <1>8, <1>9 DEF SameMeaning
<1> QED
  BY <1>10 DEF DestroyedBetween, Types, AppTypes

\* What the handling of a message makes S take an id for.
LEMMA HandlingNames ==
    ASSUME Types, Order, Handles,
           NEW id \in Ids, NEW k \in 1 .. MaxObjects, Names(id, k, 0)'
    PROVE  \/ Names(id, k, 1)
           \/ /\ Names(id, k, 0)
              /\ ~ (Head(c2s).op = "destroy" /\ Head(c2s).to.id = id /\ Head(c2s).to.k = k)
<1> DEFINE m == Head(c2s)
<1>1. /\ inserting = NoInsert /\ c2s # << >> /\ UNCHANGED forward
  BY HandlingDoes DEF Types
<1>2. m = c2s[1] /\ 1 \in DOMAIN c2s
  BY <1>1, Heads DEF Types, AppTypes
<1>3. PICK s \in DOMAIN made' :
        /\ made'[s].alive /\ made'[s].k = k
        /\ \/ inserting' = [id |-> id, s |-> s]
           \/ id \in DOMAIN forward /\ forward[id] = s
  BY <1>1 DEF Names, Alive
<1>4. [id |-> id, s |-> s] # NoInsert
  BY WaylandAssumption DEF NoInsert
<1>5. \A i \in DOMAIN forward : forward[i] \in DOMAIN made
  BY DEF Types, ReplayTypes
<1> HIDE DEF m
<1>6. CASE /\ UNCHANGED <<made, inserting>>
           /\ m.op = "destroy" /\ linked => ~ \E t \in ToS(m.to.id) : Alive(t)
  <2>1. id \in DOMAIN forward /\ forward[id] = s /\ s \in DOMAIN made /\ Alive(s)
        /\ made[s].k = k
    BY <1>1, <1>3, <1>4, <1>6 DEF Alive
  <2>2. Names(id, k, 0)
    BY <2>1 DEF Names
  <2>3. linked
    BY <2>1 DEF Order
  <2>4. s \in ToS(id)
    BY <2>1 DEF ToS
  <2> QED
    BY <1>6, <2>1, <2>2, <2>3, <2>4 DEF m
<1>7. CASE m.op # "destroy" /\ m.new \in Object /\ Makes(m.new)
  <2> DEFINE S == Len(made) + 1
  <2>1. /\ DOMAIN made' = DOMAIN made \cup {S} /\ S \notin DOMAIN made
        /\ \A t \in DOMAIN made : made'[t] = made[t]
        /\ made'[S].k = m.new.k /\ inserting' = [id |-> m.new.id, s |-> S]
    BY <1>7, Made DEF Types
  <2>2. m.new # NoObject
    <3>1. "none" \notin Kinds
      BY DEF Kinds, Globals
    <3> QED
      BY <1>7, <3>1 DEF Object, NoObject
  <2> HIDE DEF S
  <2>3. CASE id \in DOMAIN forward /\ forward[id] = s
    <3>1. s \in DOMAIN made /\ Alive(s) /\ made[s].k = k
      BY <1>3, <1>5, <2>1, <2>3 DEF Alive
    <3> QED
      BY <1>7, <2>3, <3>1 DEF Names, m
  <2>4. CASE inserting' = [id |-> id, s |-> s]
    <3>1. id = m.new.id /\ s = S
      BY <2>1, <2>4
    <3>2. m.new.k = k
      BY <1>3, <2>1, <3>1
    <3> QED
      BY <1>2, <2>2, <3>1, <3>2 DEF Names
  <2> QED
    BY <1>3, <2>3, <2>4
<1>8. CASE /\ UNCHANGED inserting
           /\ made' = [t \in DOMAIN made |->
                         IF t \in ToS(m.to.id)
                         THEN [made[t] EXCEPT !.alive = FALSE] ELSE made[t]]
  <2>1. id \in DOMAIN forward /\ forward[id] = s
    BY <1>1, <1>3, <1>4, <1>8
  <2>2. s \in DOMAIN made /\ Alive(s) /\ made[s].k = k /\ s \notin ToS(m.to.id)
    BY <1>3, <1>8, KilledTypes DEF Types, Alive
  <2>3. m.to.id # id
    BY <2>1, <2>2 DEF ToS
  <2> QED
    BY <2>1, <2>2, <2>3 DEF Names, m
<1> QED
  BY <1>6, <1>7, <1>8, HandlingDoes DEF Types, m

\* No step takes a request to an object it does not mean, unless an event has
\* gone astray.
LEMMA MeantNext ==
    ASSUME Types, Types', Order, Retired, Meant, [Next]_vars, "event" \notin astray'
    PROVE  Meant'
<1> USE DEF Meant
<1>1. CASE Request
  <2>1. UNCHANGED <<made, forward, inserting, astray>>
    BY <1>1, RequestDoes DEF replayVars
  <2>2. CASE /\ UNCHANGED c2s
             /\ \A id \in Ids : objects'[id] = objects[id] \/ objects[id] = NoObject
    BY <2>1, <2>2, MeaningFreed
  <2>3. CASE \E m \in Message :
               /\ c2s' = Append(c2s, m)
               /\ \A x \in {m.to, m.arg} :
                    x = NoObject \/ (x.id \in Ids /\ objects[x.id] = x)
               /\ \/ m.new = NoObject
                  \/ /\ born' = born + 1 /\ m.new.k = born' /\ m.new.id \in Ids
                     /\ objects'[m.new.id] = m.new
               /\ \A id \in Ids :
                    \/ objects'[id] = objects[id] \/ objects[id] = NoObject
                    \/ m.op = "destroy" /\ m.to = objects[id]
    BY <2>1, <2>3, MeaningPushed
  <2> QED
    BY <1>1, <2>2, <2>3, RequestDoes
<1>2. CASE Handles
  <2>1. /\ inserting = NoInsert /\ c2s # << >> /\ c2s' = Tail(c2s) /\ UNCHANGED objects
    BY <1>2, HandlingDoes DEF Types, appVars
  <2>2. SameMeaning'
    BY <1>2, <2>1, HandlingNames, MeaningPopped
  <2>3. \A s \in DOMAIN made : ~ Astray(Head(c2s).to, s) /\ ~ Astray(Head(c2s).arg, s)
    BY <2>1, NotAstray
  <2>4. astray' = astray
    BY <1>2, <2>3, HandlingDoes DEF Types
  <2> QED
    BY <2>2, <2>4
<1>3. CASE Insert
  <2>1. /\ UNCHANGED <<objects, c2s, made, astray>>
        /\ inserting' = NoInsert
        /\ forward'[inserting.id] = inserting.s
        /\ DOMAIN forward' = DOMAIN forward \cup {inserting.id}
        /\ \A i \in DOMAIN forward \ {inserting.id} : forward'[i] = forward[i]
        /\ inserting # NoInsert
    BY <1>3, InsertDoes DEF appVars
  <2>2. inserting = [id |-> inserting.id, s |-> inserting.s]
    BY <2>1 DEF Types, ReplayTypes
  <2>3. ASSUME NEW id \in Ids, NEW k \in 1 .. MaxObjects, Names(id, k, 0)'
        PROVE  Names(id, k, 0)
    <3>1. PICK s \in DOMAIN made :
            /\ Alive(s) /\ made[s].k = k
            /\ \/ inserting' = [id |-> id, s |-> s]
               \/ id \in DOMAIN forward' /\ forward'[id] = s
      <4>1. 0 \notin DOMAIN c2s
        BY DEF Types, AppTypes
      <4> QED
        BY <2>1, <2>3, <4>1 DEF Names, Alive
    <3>2. inserting' # [id |-> id, s |-> s]
      BY <2>1, WaylandAssumption DEF NoInsert
    <3>3. CASE id = inserting.id
      BY <2>1, <2>2, <3>1, <3>2, <3>3 DEF Names
    <3>4. CASE id # inserting.id
      BY <2>1, <3>1, <3>2, <3>4 DEF Names
    <3> QED
      BY <3>3, <3>4
  <2> QED
    BY <2>1, <2>3, MeaningStays
<1>4. ASSUME NEW s \in DOMAIN made, ReadEvent(s)
      PROVE  Meant'
  <2>1. UNCHANGED <<objects, c2s, forward, inserting, astray>>
    BY <1>4, ReadEventDoes DEF Types, appVars
  <2>2. \A id \in Ids, k \in 1 .. MaxObjects : Names(id, k, 0)' => Names(id, k, 0)
    BY <1>4, <2>1, ReadEventKeeps DEF Names, Alive
  <2> QED
    BY <2>1, <2>2, MeaningStays
<1>5. CASE DeliverEvent
  <2>1. UNCHANGED <<c2s, made, forward, inserting>>
    BY <1>5 DEF DeliverEvent, replayVars
  <2> DEFINE m == Head(inbox)
             o == objects[m.id]
  <2>2. inbox # << >> /\ inbox \in Seq(Event)
    BY <1>5 DEF DeliverEvent, Types, ReturnTypes
  <2>3. m = inbox[1] /\ 1 \in DOMAIN inbox /\ m \in Event
    BY <2>2, Heads
  <2>4. m.id \in Ids /\ m.k \in 1 .. MaxObjects
    BY <2>3 DEF Event
  <2>5. astray' = astray /\ o.k \in {0, m.k}
    <3>1. astray' = IF o.k \in {0, m.k} THEN astray ELSE astray \cup {"event"}
      BY <1>5 DEF DeliverEvent
    <3> QED
      BY <3>1
  <2>6. \/ UNCHANGED objects
        \/ o.kind = "callback" /\ m.kind = "callback" /\ Destroyed(o.id)
    BY <1>5 DEF DeliverEvent
  <2> HIDE DEF m
  <2>7. CASE UNCHANGED objects
    BY <2>1, <2>5, <2>7, MeaningFreed
  <2>8. CASE o.kind = "callback" /\ m.kind = "callback" /\ Destroyed(o.id)
    <3>1. o \in Object /\ o.id = m.id
      BY <2>4, <2>8 DEF Types, AppTypes, NoObject, SomeObject
    <3>2. o.k = m.k
      BY <2>5, <3>1 DEF Object
    <3>3. m.k \in Dead
      BY <2>3, <2>8 DEF Retired, m
    <3>4. PICK s \in DOMAIN made : made[s].k = m.k /\ ~ Alive(s)
      BY <3>3 DEF Dead
    <3>5. \A t \in DOMAIN made : made[t].k = m.k => t = s
      BY <3>4, Numbers DEF Order, MadeInOrder
    <3>6. \A i \in DOMAIN c2s : c2s[i].new # NoObject => c2s[i].new.k # m.k
      BY <3>4, Numbers DEF Order, MadeBeforeToMake
    <3>7. \A i \in 0 .. Len(c2s) : ~ Names(m.id, m.k, i)
      BY <3>4, <3>5, <3>6 DEF Names
    <3>8. \A id \in Ids \ {m.id} : objects'[id] = objects[id]
      BY <2>4, <2>8, <3>1, Dropped DEF Types
    <3> QED
      BY <2>1, <2>5, <3>2, <3>7, <3>8, MeaningFreed
  <2> QED
    BY <2>6, <2>7, <2>8
<1>6. CASE StartDrain \/ EndDrain \/ Post \/ UNCHANGED vars
  <2>1. UNCHANGED <<objects, c2s, made, forward, inserting, astray>>
    BY <1>6 DEF StartDrain, EndDrain, Post, PostQueues, PostWakes, vars, appVars, replayVars
  <2> QED
    BY <2>1, MeaningFreed
<1> QED
  BY <1>1, <1>2, <1>3, <1>4, <1>5, <1>6
     DEF Next, Drain, Replay, CompositorReader, Handles

-----------------------------------------------------------------------------
(* The theorems.                                                           *)

\* The inductive invariant: where it starts, and that every step keeps it.
LEMMA InitIInv == Init => IInv
<1> SUFFICES ASSUME Init PROVE IInv
  OBVIOUS
<1> USE DEF Init
<1>1. NoObject.k = 0 /\ NoObject.id = 0 /\ NoObject \in SomeObject
  BY DEF NoObject, SomeObject
<1>2. Types
  <2>1. objects \in [Ids -> SomeObject] /\ \A id \in Ids : objects[id] = NoObject
    BY <1>1
  <2>2. born \in 0 .. MaxObjects /\ high \in Ids \cup {0}
    BY WaylandAssumption
  <2>3. c2s \in Seq(Message) /\ s2c \in Seq(Event) /\ inbox \in Seq(Event)
        /\ made \in Seq(Replica)
    OBVIOUS
  <2>4. DOMAIN pending = {} /\ DOMAIN forward = {} /\ DOMAIN reverse = {}
    OBVIOUS
  <2>5. AppTypes
    BY <1>1, <2>1, <2>2, <2>3, <2>4 DEF AppTypes
  <2>6. ReplayTypes
    BY <2>3, <2>4 DEF ReplayTypes
  <2>7. ReturnTypes
    BY <2>3 DEF ReturnTypes
  <2> QED
    BY <2>5, <2>6, <2>7 DEF Types
<1>3. DOMAIN c2s = {} /\ DOMAIN made = {} /\ DOMAIN s2c = {} /\ DOMAIN inbox = {}
      /\ DOMAIN forward = {} /\ Len(c2s) = 0
  OBVIOUS
<1>4. Order /\ Retired /\ Maps
  BY <1>3 DEF Order, MadeInOrder, MadeWereBorn, ToMakeWereBorn, MadeBeforeToMake,
              ToMakeInOrder, Retired, Maps, OwnPids, NewestInserting, MapsNeverDrift
<1>5. \A id, k, i : ~ Names(id, k, i)
  BY <1>3 DEF Names
<1>6. Meant
  BY <1>5 DEF Meant, SameMeaning
<1> QED
  BY <1>2, <1>4, <1>6 DEF IInv

\* No step leaves the inductive invariant.
LEMMA NextIInv ==
    ASSUME IInv, [Next]_vars
    PROVE  IInv'
<1>1. Types /\ Types'
  BY TypesNext DEF IInv
<1>2. Order' /\ Retired' /\ Maps'
  BY <1>1, OrderNext, RetiredNext, MapsNext DEF IInv
<1>3. "event" \in astray' \/ Meant'
  <2>1. CASE "event" \in astray
    <3>1. CASE Request
      BY <1>1, <2>1, <3>1, RequestDoes
    <3>2. CASE Handles
      BY <1>1, <2>1, <3>2, HandlingDoes DEF Types
    <3>3. ASSUME NEW s \in DOMAIN made, ReadEvent(s) PROVE astray' = astray
      BY <1>1, <3>3, ReadEventDoes DEF Types
    <3>4. CASE DeliverEvent
      BY <2>1, <3>4 DEF DeliverEvent
    <3>5. CASE Insert \/ StartDrain \/ EndDrain \/ Post \/ UNCHANGED vars
      BY <2>1, <3>5 DEF Insert, StartDrain, EndDrain, Post, PostQueues, PostWakes, vars
    <3> QED
      BY <2>1, <3>1, <3>2, <3>3, <3>4, <3>5
         DEF Next, Drain, Replay, CompositorReader, Handles
  <2>2. CASE Meant
    BY <1>1, <2>2, MeantNext DEF IInv
  <2> QED
    BY <2>1, <2>2 DEF IInv
<1> QED
  BY <1>1, <1>2, <1>3 DEF IInv

\* The inductive invariant holds in every state.
THEOREM Inductive == Spec => []IInv
<1>1. Init => IInv
  BY InitIInv
<1>2. IInv /\ [Next]_vars => IInv'
  BY NextIInv
<1> QED
  BY <1>1, <1>2, PTL DEF Spec

\* Every variable has its type, and the buffer state of the proxy is kept for
\* params objects it still has (ProxyObjectData::destroyed).
THEOREM TypeCorrect == Spec => []TypeOK
<1>1. IInv => TypeOK
  <2> SUFFICES ASSUME IInv PROVE TypeOK
    OBVIOUS
  <2>1. Types
    BY DEF IInv
  <2>2. \A m \in {c2s[i] : i \in DOMAIN c2s} :
          /\ m.op \in {"bind", "request", "destroy", "token"}
          /\ {m.to, m.new, m.arg} \subseteq Object \cup {NoObject}
    <3>1. \A i \in DOMAIN c2s : c2s[i] \in Message
      BY <2>1, Numbers
    <3>2. \A m \in Message :
            /\ m.op \in {"bind", "request", "destroy", "token"}
            /\ {m.to, m.new, m.arg} \subseteq Object \cup {NoObject}
      BY DEF Message, SomeObject
    <3> QED
      BY <3>1, <3>2
  <2>3. /\ {forward[i] : i \in DOMAIN forward} \subseteq DOMAIN made
        /\ {reverse[p] : p \in DOMAIN reverse} \subseteq Ids
        /\ {linked, posting, wake} \subseteq BOOLEAN
    BY <2>1 DEF Types, ReplayTypes, ReturnTypes
  <2> QED
    BY <2>1, <2>2, <2>3
       DEF TypeOK, Types, AppTypes, ReplayTypes, ReturnTypes, SomeObject, Replica
<1> QED
  BY <1>1, Inductive, PTL

\* However ids are reused on the two machines, a request is replayed on the
\* object it was made on, unless an event had gone astray before
\* (IdMaps::to_s, handle_request).
THEOREM RequestsArrive == Spec => []RequestsReachTheirObject
<1>1. IInv => RequestsReachTheirObject
  BY DEF IInv, Meant, RequestsReachTheirObject
<1> QED
  BY <1>1, Inductive, PTL

\* The two id maps agree on every live object (IdMaps::insert).
THEOREM MapsAgree == Spec => []MapsNeverDrift
<1>1. IInv => MapsNeverDrift
  BY DEF IInv, Maps
<1> QED
  BY <1>1, Inductive, PTL

=============================================================================
