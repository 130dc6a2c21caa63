------------------------------ MODULE MCRelayer ------------------------------
(* Small instances of Relayer: the escrow, one port, and both.               *)
EXTENDS Relayer

MCRecord(token, recipient) == [token |-> token, recipient |-> recipient, amount |-> 1]

MCDeployment(rails, records, epochs, bound) ==
  [consumers |-> rails, chain |-> records, policies |-> epochs, faults |-> bound]

\* Two burns to one account, which the first release has to create.
MCBurns == <<MCRecord("fmina", "k1"), MCRecord("fmina", "k1")>>

\* Two locks for one account, which the first mint has to create.
MCLocksToOne == <<MCRecord("fxrp", "k1"), MCRecord("fxrp", "k1")>>

\* Two new policies while a burn is on its way, and both consumers at once.
MCDeployments ==
  {MCDeployment({"fmina"}, MCBurns, 1, 1), MCDeployment({"fxrp"}, MCLocksToOne, 1, 1),
   MCDeployment({"fmina"}, <<MCRecord("fmina", "k1")>>, 2, 1),
   MCDeployment({"fmina", "fxrp"}, <<MCRecord("fxrp", "k1")>>, 1, 1)}

MCOnePort == {MCDeployment({"fxrp"}, MCLocksToOne, 1, 0)}
=============================================================================
