----------------------------- MODULE MCRetention -----------------------------
EXTENDS Retention, TLC

CONSTANT search

\* The topics core.search-projection subscribes to in server.ts.
MCHandlerTopics == [h \in Handlers |->
  {"document.created", "document.draft-created", "document.revision-restored",
   "document.deleted", "document.purged"}]

MCRegistered == [w \in Workers |-> Handlers]
MCAttemptLimit == [w \in Workers |-> 1]

KeepAll == [c \in Categories |-> NoTime]
PruneAll == [c \in Categories |-> 1]
MCPolicies == {KeepAll, PruneAll}

CreatedOnly == {"document.created"}
=============================================================================
