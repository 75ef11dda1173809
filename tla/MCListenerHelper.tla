------------------------ MODULE MCListenerHelper ------------------------
(* An instance of ListenerHelper for TLC.                                  *)
EXTENDS ListenerHelper
=============================================================================
