---------------------------- MODULE BoundedFifo ----------------------------
(***************************************************************************)
(* What the report queue between the USB task and the loop task promises   *)
(* (src/src/UsbFidoHid.cpp): reports come out once each, whole, in the     *)
(* order they were accepted, and one is refused only when Capacity reports *)
(* are waiting.                                                            *)
(***************************************************************************)
EXTENDS Naturals, Sequences

CONSTANTS Items, Capacity

VARIABLES
    log,    \* everything accepted
    out,    \* everything taken out
    lost    \* how many were refused

fifo == <<log, out, lost>>

Waiting == Len(log) - Len(out)

Init == log = <<>> /\ out = <<>> /\ lost = 0

Accept ==
    /\ Waiting < Capacity
    /\ \E x \in Items : log' = Append(log, x)
    /\ UNCHANGED <<out, lost>>

Refuse ==
    /\ Waiting = Capacity
    /\ lost' = lost + 1
    /\ UNCHANGED <<log, out>>

Take ==
    /\ Waiting > 0
    /\ out' = Append(out, log[Len(out) + 1])
    /\ UNCHANGED <<log, lost>>

Next == Accept \/ Refuse \/ Take

Spec == Init /\ [][Next]_fifo
=============================================================================
