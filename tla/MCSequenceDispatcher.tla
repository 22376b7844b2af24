------------------------ MODULE MCSequenceDispatcher ------------------------
(* Values for the constants of SequenceDispatcher that a .cfg cannot write.  *)
EXTENDS SequenceDispatcher

CONSTANTS c1, c2

MCRoutes == {<<c1>>, <<c1, c2>>, <<c2>>}
=============================================================================
