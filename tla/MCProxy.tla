------------------------------- MODULE MCProxy --------------------------------
(* One connection; each side sends a few bytes through buffers of one.      *)
EXTENDS ProxyConnection
=============================================================================
