------------------------------ MODULE MCServer ------------------------------
(***************************************************************************)
(* Server for TLC.  A behavior is one of one part, while the others stay   *)
(* as they started, so that one run covers them all without the product of *)
(* their states.  The limiters are two parts: the window, with passwords   *)
(* that are never looked at, and the backoff, with clients other than the  *)
(* one whose window it is.                                                 *)
(***************************************************************************)
EXTENDS Server, TLC

VARIABLE part

PartsInit == ServerInit /\ part \in {"accounts", "window", "backoff", "cache"}

PartsNext ==
  /\ UNCHANGED part
  /\ \/ part = "accounts" /\ InAccounts
     \/ /\ part = "window" /\ InLimits
        /\ \A t \in Attempts : attempt'[t].pc \notin Recording
        /\ UNCHANGED streakOf
     \/ /\ part = "backoff" /\ InLimits
        /\ \A t \in Attempts : attempt'[t].pc # "get"
     \/ part = "cache" /\ InCache

PartsSpec == PartsInit /\ [][PartsNext]_<<serverVars, part>>

(* Threads are alike; the same ones, those of the pool, run every part.    *)
ThreadSymmetry == Permutations(Threads)
=============================================================================
