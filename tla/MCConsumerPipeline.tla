-------------------------- MODULE MCConsumerPipeline --------------------------
(***************************************************************************)
(* Topics for model checking ConsumerPipeline: the PG topic of MCTopics    *)
(* holds a message whose processing raises, MCShort one that is filtered;  *)
(* MCShort is for liveness.                                                *)
(***************************************************************************)
EXTENDS ConsumerPipeline, TLC

CONSTANTS pg, udal

MCConsumer == {pg, udal}

MCTopics == (pg :> <<"open", "poison", "close">>) @@ (udal :> <<"whole", "whole">>)

MCShort == (pg :> <<"open", "noise", "close">>) @@ (udal :> <<"whole">>)
=============================================================================
