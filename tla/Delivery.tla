---------------------------------- MODULE Delivery ----------------------------------
(***************************************************************************)
(* What a room's channel promises its subscribers, and what Round takes for  *)
(* granted: each has a queue of its own, and every event of the room enters  *)
(* all of them in one order.                                                 *)
(*                                                                         *)
(* A subscriber may end only when its queue has run dry after the channel    *)
(* was removed, or when more than Capacity events wait in it.                *)
(***************************************************************************)
EXTENDS Naturals, Sequences

CONSTANTS Subscriber, Capacity

VARIABLES running,    \* subscribers that have joined and not ended
          queue,      \* subscriber -> events it is yet to handle
          cut,        \* subscribers whose channel was removed
          heard,      \* subscriber -> events it was called with
          emitted     \* events are numbered as they are emitted

vars == <<running, queue, cut, heard, emitted>>

Init ==
    /\ running = {} /\ cut = {} /\ emitted = 0
    /\ queue = [u \in Subscriber |-> <<>>]
    /\ heard = [u \in Subscriber |-> <<>>]

Join(u) ==
    /\ u \notin running \cup cut
    /\ running' = running \cup {u}
    /\ UNCHANGED <<queue, cut, heard, emitted>>

Emit ==
    /\ emitted' = emitted + 1
    /\ queue' = [u \in Subscriber |->
                    IF u \in running \ cut THEN Append(queue[u], emitted') ELSE queue[u]]
    /\ UNCHANGED <<running, cut, heard>>

Handle(u) ==
    /\ u \in running /\ queue[u] # <<>>
    /\ queue' = [queue EXCEPT ![u] = Tail(@)]
    /\ heard' = [heard EXCEPT ![u] = Append(@, Head(queue[u]))]
    /\ UNCHANGED <<running, cut, emitted>>

Remove ==
    /\ cut' = cut \cup running
    /\ UNCHANGED <<running, queue, heard, emitted>>

End(u) ==
    /\ u \in running
    /\ Len(queue[u]) > Capacity \/ (u \in cut /\ queue[u] = <<>>)
    /\ running' = running \ {u} /\ cut' = cut \cup {u}
    /\ queue' = [queue EXCEPT ![u] = <<>>]
    /\ UNCHANGED <<heard, emitted>>

Next == Emit \/ Remove \/ \E u \in Subscriber : Join(u) \/ Handle(u) \/ End(u)

Spec == Init /\ [][Next]_vars
=============================================================================
