---------------------------- MODULE MCAgentTurn ----------------------------
(* Instances of AgentTurn for TLC. *)
EXTENDS AgentTurn, TLC

CONSTANTS c1

Base == [gate |-> "none", tokens |-> <<>>, key |-> Nothing, level |-> RiskLow, force |-> FALSE,
         hard |-> FALSE, effects |-> {}, declared |-> "mode", device |-> FALSE]

(* A command, the same with one more argument, one that begins like it and *)
(* destroys something in a later segment, a command that is never allowed, *)
(* and a tool of a device.                                                 *)
Write   == [Base EXCEPT !.gate = "bash", !.tokens = <<"touch", "a">>, !.level = RiskMedium, !.effects = {"write"}]
Longer  == [Write EXCEPT !.tokens = <<"touch", "a", "b">>]
Replace == [Write EXCEPT !.effects = {"write", "destroy"}]
Never   == [Write EXCEPT !.hard = TRUE]
Device  == [Base EXCEPT !.gate = "sys", !.declared = "never", !.device = TRUE]

GateCalls == {Write, Longer, Replace, Never, Device}

OneConn == {c1}
=============================================================================
