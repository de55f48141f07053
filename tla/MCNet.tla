------------------------------- MODULE MCNet -------------------------------
(* network_test_thread()'s two calls, and a second ping after them so that   *)
(* the answers to two echo requests can meet.                                *)
EXTENDS Net

C(op, id, seq) == [op |-> op, id |-> id, seq |-> seq]
MCCalls == <<C("arp", 0, 0), C("ping", 1, 1), C("ping", 1, 2)>>

(* The gateway asks for our address; a neighbour announces its own; a frame  *)
(* too short for either protocol; the gateway answers an echo request that   *)
(* was not ours, and one of ours with other data.                            *)
MCNoise == {ArpFrame("request", "gateway"), ArpFrame("reply", "other"),
            Frame("runt", "none", "none", "gateway", 0, 0, "none"),
            EchoFrame("reply", "gateway", 2, 1),
            Frame("IPV4", "ICMP", "reply", "gateway", 1, 1, "other")}
=============================================================================
