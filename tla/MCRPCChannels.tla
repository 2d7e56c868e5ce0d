--------------------------- MODULE MCRPCChannels ---------------------------
(* One channel, a connection and its replacement, two frames at a time.    *)
EXTENDS RPCChannels, TLC
=============================================================================
