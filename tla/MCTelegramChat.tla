--------------------------- MODULE MCTelegramChat ---------------------------
(* TelegramChat for TLC: a private chat and a group share one place.       *)
EXTENDS TelegramChat

CONSTANTS dm, group
=============================================================================
