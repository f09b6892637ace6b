----------------------------- MODULE BestEffort -----------------------------
(***************************************************************************)
(* What docknap promises about lifecycle webhooks ("advisory, not          *)
(* durable"): numbered events are offered one after the other; each is     *)
(* dropped or reaches the receiver at most once, in the order of the       *)
(* offers, and after the end nothing reaches it any more.                  *)
(***************************************************************************)
EXTENDS Naturals, Sequences

CONSTANT Room    \* how many events may wait

VARIABLES last,     \* number of the last event offered
          pending,  \* events accepted and not yet given up or received
          received, \* events the receiver got, in order
          ended

vars == <<last, pending, received, ended>>

Init == last = 0 /\ pending = <<>> /\ received = <<>> /\ ended = FALSE

Offer ==
  /\ last' = last + 1
  /\ pending' \in {pending} \cup
       (IF Len(pending) < Room THEN {Append(pending, last + 1)} ELSE {})
  /\ UNCHANGED <<received, ended>>

Settle ==
  /\ ~ended
  /\ pending # <<>>
  /\ pending' = Tail(pending)
  /\ received' \in {received, Append(received, Head(pending))}
  /\ UNCHANGED <<last, ended>>

End == ~ended /\ ended' = TRUE /\ UNCHANGED <<last, pending, received>>

Next == Offer \/ Settle \/ End

Spec == Init /\ [][Next]_vars
-----------------------------------------------------------------------------
\* InOrder: what the receiver has got is in the order of the offers, each
\* event at most once.
InOrder == \A i, j \in DOMAIN received : i < j => received[i] < received[j]
=============================================================================
