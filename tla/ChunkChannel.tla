---------------------------- MODULE ChunkChannel ----------------------------
(***************************************************************************)
(* What async-chunk transfer promises to a pair of neighbouring stages:    *)
(* one first-in first-out stream of chunks per request.  The consumer asks *)
(* for one chunk at a time and is answered with the next chunk of that     *)
(* request.  A chunk the connector failed to store is never skipped: the   *)
(* stream stops in front of it.                                            *)
(***************************************************************************)
EXTENDS Integers

CONSTANT Reqs          \* the requests that flow from one stage to the next

VARIABLES
  sent,                \* chunks the producer has handed over, per request
  closed,              \* requests the producer hands over no more chunks of
  lost,                \* <<request, index>> of the chunks that never arrive
  asked,               \* requests the consumer waits for a chunk of
  delivered            \* chunks the consumer has received, per request

vars == <<sent, closed, lost, asked, delivered>>

Init ==
  /\ sent = [r \in Reqs |-> 0]
  /\ closed = {}
  /\ lost = {}
  /\ asked = {}
  /\ delivered = [r \in Reqs |-> 0]

Send(r) ==
  /\ r \notin closed
  /\ sent' = [sent EXCEPT ![r] = @ + 1]
  /\ closed' \in {closed, closed \union {r}}
  /\ UNCHANGED <<lost, asked, delivered>>

Close(r) ==
  /\ r \notin closed
  /\ closed' = closed \union {r}
  /\ UNCHANGED <<sent, lost, asked, delivered>>

Lose(r) ==
  /\ \E c \in delivered[r]..(sent[r] - 1) :
       /\ <<r, c>> \notin lost
       /\ lost' = lost \union {<<r, c>>}
  /\ UNCHANGED <<sent, closed, asked, delivered>>

Ask(r) ==
  /\ r \notin asked
  /\ asked' = asked \union {r}
  /\ UNCHANGED <<sent, closed, lost, delivered>>

Deliver(r) ==
  /\ r \in asked
  /\ delivered[r] < sent[r]
  /\ <<r, delivered[r]>> \notin lost
  /\ delivered' = [delivered EXCEPT ![r] = @ + 1]
  /\ asked' = asked \ {r}
  /\ UNCHANGED <<sent, closed, lost>>

Next == \E r \in Reqs : Send(r) \/ Close(r) \/ Lose(r) \/ Ask(r) \/ Deliver(r)

Safety == Init /\ [][Next]_vars

Spec == Safety /\ \A r \in Reqs : WF_vars(Deliver(r))
=============================================================================
