----------------------------- MODULE PacketPlayer -----------------------------
(***************************************************************************)
(* What CMpcAudioRenderer promises of its packets and its render client:   *)
(* every packet is played, in the order of arrival, by a client made for   *)
(* its format, or thrown away with all that wait with it; and no client is *)
(* released or replaced while a thread uses it.  A client may turn out     *)
(* broken when it is made; what is played on it until it is released is not*)
(* promised to be in its format.                                           *)
(***************************************************************************)
EXTENDS Sequences

CONSTANTS Format, NULL, Thread

VARIABLES
    client,         \* NULL, or the format the render client was made for
    broken,         \* whether it is one whose making has failed half way
    users,          \* the threads that use it
    packets         \* the formats of the packets that wait, the oldest first
vars == <<client, broken, users, packets>>

Init == client = NULL /\ broken = FALSE /\ users = {} /\ packets = <<>>

Enter ==
    /\ client # NULL
    /\ \E t \in Thread : users' = users \cup {t}
    /\ UNCHANGED <<client, broken, packets>>

\* A thread that is done has played the oldest packet, or nothing.
Leave ==
    /\ \E t \in users : users' = users \ {t}
    /\ UNCHANGED <<client, broken>>
    /\ \/ UNCHANGED packets
       \/ packets # <<>> /\ (broken \/ Head(packets) = client) /\ packets' = Tail(packets)

\* A packet has the format of the client, if there is one.
Put ==
    /\ \E f \in Format : (broken \/ client \in {f, NULL}) /\ packets' = Append(packets, f)
    /\ UNCHANGED <<client, broken, users>>

Release ==
    /\ users = {}
    /\ client' = NULL /\ broken' = FALSE
    /\ UNCHANGED <<users, packets>>

Make ==
    /\ users = {} /\ client = NULL
    /\ client' \in Format /\ broken' \in BOOLEAN
    /\ packets' = <<>>
    /\ UNCHANGED users

Flush == packets' = <<>> /\ UNCHANGED <<client, broken, users>>

Next == Enter \/ Leave \/ Put \/ Release \/ Make \/ Flush
Spec == Init /\ [][Next]_vars
=============================================================================
