---------------------------- MODULE MCDeployment ----------------------------
(* Deployment on a small instance: two clients of one release or of two, of  *)
(* which the second has the same or a newer protocol, and the same or        *)
(* another version, and runs on the host or does not.                        *)
EXTENDS Deployment

MCWorlds ==
  {w \in [carries : {<<1, 1>>, <<1, 2>>, <<2, 2>>}, protocol : {<<1, 1>>, <<1, 2>>},
          version : {<<1, 1>>, <<1, 2>>}, runnable : {{1}, {1, 2}}, first : {0, 1}] :
     \* Of what nobody carries nothing is told apart.
     w.carries = <<1, 1>> => w.protocol = <<1, 2>> /\ w.version = <<1, 2>> /\ w.runnable = {1}}
=============================================================================
