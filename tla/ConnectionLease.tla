---------------------------- MODULE ConnectionLease ----------------------------
(***************************************************************************)
(* What a connection pool promises to the parties that share it: requests  *)
(* queue up, the one that waits longest is served first, a connection is   *)
(* lent to one request at a time, and a request that gave up is never      *)
(* served.  Which connections exist is left open.                          *)
(***************************************************************************)
EXTENDS Naturals, SequencesExt

CONSTANTS Reqs,  \* the requests
          Conns  \* the connections

VARIABLES queue, \* the requests that wait
          lease  \* of each request: its status and its connection, 0 for none

vars == <<queue, lease>>

Init == queue = <<>> /\ lease = [r \in Reqs |-> [st |-> "new", conn |-> 0]]

\* The head of queue q may be lent a connection that nobody holds in l.
Serve(q, l) ==
  \/ queue' = q /\ lease' = l
  \/ /\ q # <<>>
     /\ \E c \in Conns :
          /\ \A r \in Reqs : l[r].st = "held" => l[r].conn # c
          /\ lease' = [l EXCEPT ![Head(q)] = [st |-> "held", conn |-> c]]
     /\ queue' = Tail(q)

Ask(r) ==
  /\ lease[r].st = "new"
  /\ Serve(Append(queue, r), [lease EXCEPT ![r].st = "pending"])

Lend == Serve(queue, lease)

Return(r) ==
  /\ lease[r].st = "held"
  /\ Serve(queue, [lease EXCEPT ![r] = [st |-> "returned", conn |-> 0]])

GiveUp(r) ==
  /\ lease[r].st = "pending"
  /\ lease' = [lease EXCEPT ![r].st = "failed"]
  /\ queue' = RemoveFirst(queue, r)

RejectAll ==
  /\ lease' = [r \in Reqs |-> IF lease[r].st = "pending"
                              THEN [lease[r] EXCEPT !.st = "failed"] ELSE lease[r]]
  /\ queue' = <<>>

Next ==
  \/ \E r \in Reqs : Ask(r) \/ Return(r) \/ GiveUp(r)
  \/ Lend
  \/ RejectAll

Spec == Init /\ [][Next]_vars
=============================================================================
