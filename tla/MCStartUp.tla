------------------------------ MODULE MCStartUp ------------------------------
(***************************************************************************)
(* The program, with one other user of the factory of the slices.          *)
(***************************************************************************)
EXTENDS StartUp, TLC

LongResync == Slices :> 60
Complete == {"shard-name", "shard-external-url", "local-shard-kubeconfig",
             "front-proxy-kubeconfig", "filtered-apiexport-vw-kubeconfig"}
SomeCommandLines ==
  {Complete, Complete \cup {"cache-kubeconfig"}, {"cache-kubeconfig"}, Complete \ {"shard-name"}}
=============================================================================
