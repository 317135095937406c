-------------------------- MODULE AgentLifecycleMC --------------------------
\* Two attempts at one identity; which of them meet a persistence backend and
\* how many messages each agent gets is the configuration's choice.
EXTENDS AgentLifecycle
=============================================================================
