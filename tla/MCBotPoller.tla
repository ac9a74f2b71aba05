----------------------------- MODULE MCBotPoller -----------------------------
(* Model values for checking BotPoller.                                    *)
EXTENDS BotPoller, TLC

CONSTANTS b1, b2, b3, w1, w2

PollerSymmetry == Permutations(Bots) \cup Permutations(Workers)
=============================================================================
