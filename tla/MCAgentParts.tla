---------------------------- MODULE MCAgentParts ---------------------------
(***************************************************************************)
(* The parts inside an agent, model-checked one by one: its feature        *)
(* handlers, and of its stream the pipeline, the connection and the        *)
(* packets.  The parts share no variable (the pipeline asks the producer   *)
(* only whether it is connected, and StreamPipeline lets the answer be     *)
(* any), so an instance runs one of them and the others stay as they       *)
(* start.                                                                  *)
(***************************************************************************)
EXTENDS AgentFeatures, StreamPipeline, WebRtcProducer, RtpPacketizer

CONSTANTS t1, t2

VARIABLE part

\* One unit of every kind: aggregated, sent alone, just as large as a packet,
\* just too large for one, and of three fragments.
MCSlices ==
    { <<5>>, <<5, 0, 2>>, <<5, 0, 0, 2, 1>>, <<5, 0, 0, 2, 0, 1, 2, 2>>,
      <<5, 1, 2, 0, 0, 2, 1, 2, 2>>,
      <<5, 1, 2, 1, 2, 1, 2, 0, 0, 2, 1, 2, 1, 2, 1>> }

MCVars == <<part, featureHandlerVars, pipelineVars, producerVars, packetizerVars>>

MCInit ==
    /\ part \in {"features", "pipeline", "producer", "packetizer"}
    /\ FeaturesInit /\ PipelineInit /\ ProducerInit /\ PacketizerInit

MCNext ==
    /\ UNCHANGED part
    /\ \/ /\ part = "features" /\ FeaturesNext
          /\ UNCHANGED <<pipelineVars, producerVars, packetizerVars>>
       \/ /\ part = "pipeline" /\ PipelineNext
          /\ UNCHANGED <<featureHandlerVars, producerVars, packetizerVars>>
       \/ /\ part = "producer" /\ ProducerNext
          /\ UNCHANGED <<featureHandlerVars, pipelineVars, packetizerVars>>
       \/ /\ part = "packetizer" /\ PacketizerNext
          /\ UNCHANGED <<featureHandlerVars, pipelineVars, producerVars>>

MCSpec == MCInit /\ [][MCNext]_MCVars /\ FeaturesFairness /\ PipelineFairness
============================================================================
