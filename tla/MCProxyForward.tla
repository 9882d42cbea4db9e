--------------------------- MODULE MCProxyForward ---------------------------
(* Instance of ProxyForward for TLC.                                        *)
EXTENDS ProxyForward
=============================================================================
