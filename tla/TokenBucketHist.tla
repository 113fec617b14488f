-------------------------- MODULE TokenBucketHist --------------------------
(***************************************************************************)
(* TokenBucket with a history variable: for every source, the times at   *)
(* which its packets were admitted since its rate_map entry was created.  *)
(* The history only observes the steps of TokenBucket, so the behaviours *)
(* of TokenBucket are those of this module with hist hidden.              *)
(***************************************************************************)
EXTENDS TokenBucket

VARIABLE hist   \* hist[ip]: admission times of ip's packets, oldest first

histVars == <<vars, hist>>

HistInit == Init /\ hist = [ip \in IPs |-> <<>>]

(* The entry of ip is created by this packet (admitted), or one of its   *)
(* tokens is consumed; every other step leaves the history alone.        *)
HistNext ==
  \/ \E ip \in IPs :
       \/ FirstSeen(ip) /\ hist' = [hist EXCEPT ![ip] = <<clock>>]
       \/ Admit(ip) /\ hist' = [hist EXCEPT ![ip] = Append(@, clock)]
  \/ (Tick \/ PassThrough \/ HandleEvent
        \/ \E ip \in IPs : FirstSeenMapFull(ip) \/ Drop(ip))
     /\ UNCHANGED hist

HistSpec == HistInit /\ [][HistNext]_histVars

-----------------------------------------------------------------------------
(* Token-bucket guarantee of tc_ingress over any window of time (spec   *)
(* 8: a burst with zero elapsed time admits exactly burst): of the      *)
(* admissions of one source, those from the i-th to the j-th number at  *)
(* most burst plus the whole tokens earned between their times, although *)
(* the refill truncates, caps and moves last_ts only on whole tokens.    *)
WindowBound ==
  \A ip \in DOMAIN rate_map :
    \A i, j \in 1..Len(hist[ip]) :
      i <= j =>
        j - i + 1 <= Burst + ((hist[ip][j] - hist[ip][i]) * Rate) \div NsPerSec

=============================================================================
