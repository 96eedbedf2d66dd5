------------------------------- MODULE MCLink -------------------------------
(* Two transfers with sessions of their own, one after the other.  The view *)
(* leaves out what the last step emitted: no later step reads it.           *)
EXTENDS Link

MCModes      == {"plain", "throughput"}
MCSessionIds == [t \in 1 .. 2 |-> {t}]

MCView == <<stage, transferVars, tries, windowVars, stop, bSession, nextSeq, pend, halted,
            netVars, histVars>>
=============================================================================
