------------------------ MODULE MCConnectorHelper ------------------------
(* An instance of ConnectorHelper for TLC.                                 *)
EXTENDS ConnectorHelper
=============================================================================
