------------------------------- MODULE PinUses -------------------------------
(***************************************************************************)
(* PinAccess with an observer: how often each code has opened its gate,    *)
(* by whichever of the two public routes.                                  *)
(***************************************************************************)
EXTENDS PinAccess

VARIABLE opened   \* (observer) commands to open sent for each code

UsesInit == Init /\ opened = [p \in Pins |-> 0]

\* The requests that trigger the gate in this step.
Opening == {r \in Requests : TriggerGate(r)}

UsesNext ==
  /\ Next
  /\ opened' = [p \in Pins |-> opened[p] + Cardinality({r \in Opening : req[r].pin = p})]

UsesSpec == UsesInit /\ [][UsesNext]_<<vars, opened>>

\* EXPRESSION_OF_NEED 4.5.3: "Nombre d'utilisations maximum : le code se
\* désactive après N utilisations": no request opens the gate with a code that
\* has opened it N times already, N being the quota the request itself read.
CodeStopsAfterUses ==
  [][\A r \in Requests :
       TriggerGate(r) /\ req[r].quota > 0 => opened[req[r].pin] < req[r].quota
    ]_<<vars, opened>>
=============================================================================
