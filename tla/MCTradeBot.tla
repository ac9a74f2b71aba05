----------------------------- MODULE MCTradeBot -----------------------------
(* Model values and bounds for checking TradeBot.                          *)
EXTENDS TradeBot, TLC

CONSTANTS c1, c2

ConfigSymmetry == Permutations(Configs)

\* A failure and an edit, or two edits that leave a running bot's references and
\* annotation as they should be.  What an unpolled bot trades, nobody reads.
FewUpsets ==
    /\ Introspection \/ pod.trading = "Running"
    /\ \/ edits < 2
       \/ /\ faults = 0 /\ cfgState = "ok"
          /\ status.configResolved \in {"unset", "AsExpected"}
          /\ spec.state = "Running" /\ ~spec.preserve

\* One edit of a trading bot that updates manually: references that turn up, another
\* spec.state, a deletion, a Service lost.  A poll is not in flight while a pass
\* applies objects, of which it reads none.
OneEdit ==
    /\ cfgState = "ok" \/ (cfgState = "missing" /\ edits = 0)
    /\ ~spec.job /\ ~spec.preserve /\ ~spec.auto /\ ~pod.stale
    /\ poll.busy => rec.pc \notin {"secret", "configmap", "pvc", "statefulset", "service",
                                   "networkpolicy", "observe"}
=============================================================================
