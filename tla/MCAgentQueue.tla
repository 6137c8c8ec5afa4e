---------------------------- MODULE MCAgentQueue ----------------------------
EXTENDS AgentQueue
====
