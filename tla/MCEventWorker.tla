---------------------------- MODULE MCEventWorker ----------------------------
EXTENDS EventWorker, TLC

CONSTANTS search, plugin

\* The topics core.search-projection subscribes to in server.ts.
SearchTopics == {"document.created", "document.draft-created",
                 "document.revision-restored", "document.deleted",
                 "document.purged"}

MCHandlerTopics == [h \in Handlers |-> SearchTopics]

\* Every process has loaded every handler.
MCRegistered == [w \in Workers |-> Handlers]

MCAttemptLimit == [w \in Workers |-> 2]

\* The handlers of one plugin, loaded in one of the processes only: what the
\* other one claims for the plugin fails there.  An event that this one fans out
\* makes a batch of two deliveries.
PluginTopics == [h \in Handlers |-> IF h = plugin THEN {"document.created"} ELSE SearchTopics]

PluginInOne == [w \in Workers |->
  IF w = CHOOSE x \in Workers : TRUE THEN {search, plugin} ELSE {search}]

IndexTopics == {"document.created", "document.draft-created"}
IndexTopicsAndRemoval == IndexTopics \cup {"document.deleted"}

\* Bound: enough for both attempts of a delivery to run out one after the other.
MaxClock == 3
MCNext == Next /\ clock' <= MaxClock
MCSpec == Init /\ [][MCNext]_vars

\* Bounds: the fault hits a worker that has more of its batch to do, or the
\* operator retries what is settled while the workers wait.  Both are choices of
\* the environment that no fairness speaks of.
Amid(w) ==
  /\ worker[w].phase \in {"handling", "acking", "failing"}
  /\ DOMAIN worker[w].batch \ {worker[w].current} # {}
LiveNext ==
  /\ Next
  /\ faults' # faults => retries = 0 /\ \E w \in Workers : Amid(w) /\ worker'[w] # worker[w]
  /\ retries' # retries => faults = 0 /\ Settled /\ \A w \in Workers : worker[w] = Idle
LiveSpec == Init /\ [][LiveNext]_vars /\ Fairness

WorkerSymmetry == Permutations(Workers)
=============================================================================
