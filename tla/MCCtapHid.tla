----------------------------- MODULE MCCtapHid -----------------------------
(***************************************************************************)
(* Model checking of CtapHid.  The packet sizes are scaled down to 2 and 3 *)
(* bytes and the largest message to 6, so that the lengths 0, 2, 3, 5, 6   *)
(* and 7 are the boundaries 0, 57, 58, 116, 1024 and 1025 of the code.     *)
(***************************************************************************)
EXTENDS CtapHid

CONSTANTS browser, tool

\* One process uses the channel INIT hands out; the other sends on the
\* broadcast channel, or on the invalid channel 0.
OwnCids(c) == IF c = browser THEN {kActiveCid} ELSE {kBroadcastCid, NoCid}

\* Both went through INIT.
SharedCids(c) == {kActiveCid}

Req(cmd, lens) == {[cmd |-> cmd, len |-> l] : l \in lens}

AllRequests ==
    Req("ping", {0, 2, 3, 5, 6, 7}) \cup Req("init", {1, 2}) \cup Req("cbor", {0, 3})
    \cup Req("cancel", {0}) \cup Req("msg", {5}) \cup Req("error", {2})
PingRequests == Req("ping", {2, 3, 5})
=============================================================================
