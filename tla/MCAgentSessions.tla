-------------------------- MODULE MCAgentSessions --------------------------
EXTENDS AgentSessions, TLC

CONSTANTS s1, s2, t1

MCTools == {"get_customer_statement", "get_business_alerts"}
MCReads == [t \in MCTools |-> 1]
MCWorkers == Sessions \cup Threads
MCAsked == s1 :> 2 @@ s2 :> 1 @@ t1 :> 3
=============================================================================
