----------------------------- MODULE LossyFifo -----------------------------
(***************************************************************************)
(* What an input queue promises: events may be lost as they arrive, but    *)
(* those that are accepted are delivered once, in the order of arrival.    *)
(***************************************************************************)
EXTENDS Naturals, Sequences

VARIABLES raised,    \* how many events the devices have raised
          accepted,  \* accepted events that are not delivered yet
          delivered  \* events delivered so far, oldest first

LInit == raised = 0 /\ accepted = <<>> /\ delivered = <<>>

\* The k-th event of those that are raised, when S of them are accepted.
Kept(k, S) == IF k \in S THEN <<raised + k>> ELSE <<>>

\* A device raises the next one, two or three events; each is accepted or lost.
Arrive ==
  \E n \in 1..3 :
    /\ raised' = raised + n
    /\ \E S \in SUBSET (1..n) :
         accepted' = ((accepted \o Kept(1, S)) \o Kept(2, S)) \o Kept(3, S)
    /\ UNCHANGED delivered

Deliver ==
  /\ accepted # <<>>
  /\ delivered' = Append(delivered, Head(accepted))
  /\ accepted' = Tail(accepted)
  /\ UNCHANGED raised

LNext == Arrive \/ Deliver

Spec == LInit /\ [][LNext]_<<raised, accepted, delivered>>

=============================================================================
