------------------------------ MODULE MCBotMatch ------------------------------
(* Two main turns, then at most two tie-break turns, the second of which must be supplied. *)
EXTENDS BotMatch
=============================================================================
