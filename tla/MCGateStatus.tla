---------------------------- MODULE MCGateStatus ----------------------------
(* Small instances of GateStatus. *)
EXTENDS GateStatus

\* open -> closed, by a timer that survives a change of the status
Closing == [from |-> "open", to |-> "closed", after |-> 1, persist |-> TRUE]

\* closed -> unresponsive: a custom status may have the name of the worker's mark
Losing == [from |-> "closed", to |-> "unresponsive", after |-> 1, persist |-> FALSE]

\* A chain of transitions, all shorter than the TTL, and a configuration without
\* any, saved while the timers of the first are armed.
Chain ==
  {[ttl |-> 1, rules |-> <<>>, transitions |-> <<Closing, Losing>>],
   [ttl |-> 2, rules |-> <<>>, transitions |-> <<>>]}

\* The same chain behind a rule on the metadata.
AlarmRule == [matches |-> {"alarm"}, setStatus |-> "closed"]

RuledChain ==
  {[ttl |-> 1, rules |-> <<AlarmRule>>, transitions |-> <<Closing, Losing>>]}
=============================================================================
