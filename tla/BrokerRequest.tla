--------------------------- MODULE BrokerRequest ---------------------------
(***************************************************************************)
(* What a request left for a broker of the desktop promises to whom left   *)
(* it, whatever processes die meanwhile: its work is begun at most once,   *)
(* and only while the request is open; it ends at most once; and it is     *)
(* never reported completed without having been begun.  That it ends at    *)
(* all, or that its work stops when it is given up, is not promised.       *)
(***************************************************************************)
EXTENDS Naturals

CONSTANT Tickets       \* the requests, by their number

Endings == {"completed", "failed", "timeout"}

VARIABLES
    filed,     \* requests somebody made
    begun,     \* request -> times its work was begun
    ending     \* request -> how it ended, "open" before

requestVars == <<filed, begun, ending>>

Init ==
    /\ filed = {}
    /\ begun = [n \in Tickets |-> 0]
    /\ ending = [n \in Tickets |-> "open"]

File(n) ==
    /\ n \notin filed /\ filed' = filed \cup {n}
    /\ UNCHANGED <<begun, ending>>

Begin(n) ==
    /\ n \in filed /\ ending[n] = "open" /\ begun[n] = 0
    /\ begun' = [begun EXCEPT ![n] = 1]
    /\ UNCHANGED <<filed, ending>>

End(n, how) ==
    /\ n \in filed /\ ending[n] = "open"
    /\ how = "completed" => begun[n] = 1
    /\ ending' = [ending EXCEPT ![n] = how]
    /\ UNCHANGED <<filed, begun>>

Next == \E n \in Tickets : File(n) \/ Begin(n) \/ \E how \in Endings : End(n, how)

Spec == Init /\ [][Next]_requestVars
=============================================================================
