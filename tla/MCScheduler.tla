----------------------------- MODULE MCScheduler -----------------------------
(***************************************************************************)
(* Scheduler for TLC.  One packet is one byte, so a target of 64 bps is a  *)
(* drain budget of one packet, and a target of 7 bps rounds the per-drain  *)
(* packet limit down to 0.                                                 *)
(*                                                                         *)
(* The two layers share nothing but the clock, sent_bytes_total and        *)
(* reset(), and neither shares anything with the bandwidth estimator: a    *)
(* behaviour uses one of the three, chosen at the start, so that TLC       *)
(* explores their sum instead of their product.                            *)
(***************************************************************************)
EXTENDS Scheduler, BandwidthEstimator

VARIABLE layer

mcVars == <<vars, layer, bweVars>>

\* A wide range with slow smoothing, and a narrow one with none; the largest
\* increase is beyond the rate space.
BweConfig(initial, min, max, increase, alpha) ==
    [initial |-> initial, min |-> min, max |-> max, increase |-> increase, decrease |-> 50,
     interval |-> 200, alpha |-> alpha]
MCBweConfigs == {BweConfig(1000, 30, 4000, 500, 10), BweConfig(100, 100, 900, 3000, 100)}
MCBweFeedbacks ==
    {[lossy |-> l, rtt |-> r, remb |-> m] : l \in BOOLEAN, r \in {0, 40, 300}, m \in {NoRemb, 700}}

MCInit == Init /\ BweInit /\ layer \in {"L0", "L1", "bwe"}
          /\ (layer # "bwe" => est = NewEstimator("aimd", CHOOSE c \in BweConfigs : TRUE))

L0Next ==
    \/ \E p \in Priorities : enqueue(p)
    \/ Drain
    \/ \E bps \in Targets : on_bwe_update(bps)

L1Next ==
    \/ \E s \in Streams, level \in StreamRank : set_stream_priority(s, level)
    \/ \E s \in Streams : enqueue_for_stream(s)
    \/ SelectNext

MCNext ==
    /\ \/ layer = "L0" /\ L0Next /\ UNCHANGED bweVars
       \/ layer = "L1" /\ L1Next /\ UNCHANGED bweVars
       \/ layer # "bwe" /\ reset /\ UNCHANGED bweVars
       \/ layer = "bwe" /\ BweNext /\ UNCHANGED vars
       \/ layer = "bwe" /\ UNCHANGED <<vars, bweVars>>   \* the caller is done
    /\ UNCHANGED layer

\* Each behaviour is one of Scheduler's or of BandwidthEstimator's specification.
MCSpec == MCInit /\ [][MCNext]_mcVars /\ WF_mcVars(Drain /\ UNCHANGED <<layer, bweVars>>)
=============================================================================
