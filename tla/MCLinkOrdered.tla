---------------------------- MODULE MCLinkOrdered ----------------------------
(* Two transfers that draw the same session id.  The view leaves out what   *)
(* the last step emitted: no later step reads it.                           *)
EXTENDS LinkOrdered

MCModes      == {"plain", "throughput"}
MCSessionIds == [t \in 1 .. 2 |-> {1}]

MCView == <<stage, transferVars, tries, windowVars, stop, bSession, nextSeq, pend, halted,
            netVars, histVars>>
=============================================================================
