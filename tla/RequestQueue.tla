---------------------------- MODULE RequestQueue ----------------------------
(***************************************************************************)
(* What the task hostthreads promise their clients: requests are taken in  *)
(* the order in which they were submitted, each by one server, and a       *)
(* request that was taken is run once at most.                             *)
(***************************************************************************)
EXTENDS Sequences

CONSTANTS Requests,      \* what a client may submit
          Servers,       \* who may take a request
          None           \* a server that has no request

VARIABLES pending,       \* submitted and not yet taken, oldest first
          serving        \* the request each server is running

Init == /\ pending = <<>>
        /\ serving = [s \in Servers |-> None]

Submit(r) == /\ pending' = Append(pending, r)
             /\ UNCHANGED serving

Take(s) == /\ pending # <<>>
           /\ serving[s] = None
           /\ serving' = [serving EXCEPT ![s] = Head(pending)]
           /\ pending' = Tail(pending)

Complete(s) == /\ serving[s] # None
               /\ serving' = [serving EXCEPT ![s] = None]
               /\ UNCHANGED pending

\* The servers are gone, with what they were running.
Restart == /\ serving' = [s \in Servers |-> None]
           /\ UNCHANGED pending

Next == \/ Restart
        \/ \E r \in Requests : Submit(r)
        \/ \E s \in Servers : Take(s) \/ Complete(s)

Spec == Init /\ [][Next]_<<pending, serving>>
=============================================================================
