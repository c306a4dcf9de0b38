------------------------------- MODULE Channel -------------------------------
(***************************************************************************)
(* What the link between the daemons promises: in each of its two ways     *)
(* messages arrive whole, once and in the order they were sent, and those  *)
(* of one batch come one behind the other.  It does not promise that they  *)
(* arrive: a way may end at any message.                                   *)
(***************************************************************************)
EXTENDS Naturals, Sequences

CONSTANTS
    Ways,           \* the directions
    Senders         \* the threads that send

VARIABLES
    sent,           \* for each way, every message sent on it
    delivered,      \* how many of them its reader was handed
    handed          \* the one it was handed last

channelVars == <<sent, delivered, handed>>

\* `more`: another message of the same batch follows.
Message == [from : Senders, more : BOOLEAN, large : BOOLEAN]
NoMessage == [from |-> "none", more |-> FALSE, large |-> FALSE]

\* A message may follow `log` unless that ends within another's batch.
MayFollow(log, m) ==
    log # << >> /\ log[Len(log)].more => m.from = log[Len(log)].from

Send(w) ==
    /\ \E m \in Message :
         /\ MayFollow(sent[w], m)
         /\ sent' = [sent EXCEPT ![w] = Append(@, m)]
    /\ UNCHANGED <<delivered, handed>>

Deliver(w) ==
    /\ delivered[w] < Len(sent[w])
    /\ delivered' = [delivered EXCEPT ![w] = @ + 1]
    /\ handed' = [handed EXCEPT ![w] = sent[w][delivered[w] + 1]]
    /\ UNCHANGED sent

Init ==
    /\ sent = [w \in Ways |-> << >>]
    /\ delivered = [w \in Ways |-> 0]
    /\ handed = [w \in Ways |-> NoMessage]

Next == \E w \in Ways : Send(w) \/ Deliver(w)

Spec == Init /\ [][Next]_channelVars
=============================================================================
