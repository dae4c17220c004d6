---------------------------- MODULE MCDeployment ----------------------------
(***************************************************************************)
(* The deployment of Deployment for TLC: every network of truffle.js in    *)
(* two runs, and one contract deployed on its own.                         *)
(***************************************************************************)
EXTENDS DeploymentInvariant

(* Where the scripts end early, of one kind each, and where they succeed.  *)
SomeNetworks == {"arbitrum_one", "arbitrum_goerli", "matic", "test", "docker"}
=============================================================================
