-------------------------- MODULE MCOutboxDelivery --------------------------
(***************************************************************************)
(* Small instances of OutboxDelivery.  An event that is no quota event is  *)
(* about user 1, and operators redeliver event 1.                          *)
(***************************************************************************)
EXTENDS OutboxDelivery, TLC

AboutFirstUser == [id \in Ids \ QuotaIds |-> 1]
OfFirstEvent == [t \in Copies |-> 1]

Symmetry == Permutations(Relays) \cup Permutations(Workers)
=============================================================================
