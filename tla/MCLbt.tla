------------------------------- MODULE MCLbt -------------------------------
(* Two channels 200 kHz apart with different scan times, and a frequency of *)
(* no channel.                                                              *)
EXTENDS Lbt

MCPlan == <<[freq |-> 9200, scan |-> "fast"], [freq |-> 9202, scan |-> "slow"]>>

MCMaxTime == [p \in {"fast", "slow"} \X {125, 250} |->
                IF p[1] = "slow" THEN 32 ELSE IF p[2] = 125 THEN 20 ELSE 16]
=============================================================================
