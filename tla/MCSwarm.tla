-------------------------------- MODULE MCSwarm --------------------------------
(* Swarm with the incidents and settings the runs use.                     *)
EXTENDS Swarm

CONSTANTS timeline, home, user, store, ads, jaeger

\* timeline has a name of three parts, home is what is left of it.
MCDeployed == {timeline, user, store, ads}
MCServices == MCDeployed \cup {home, jaeger}
MCCanonical == [svc \in MCServices |-> IF svc = timeline THEN home ELSE svc]
MCReplies == {user, store, Token}
MCInfra == {jaeger}
MCRole == [svc \in MCServices |-> CASE svc = store -> "DATASTORE" [] svc = jaeger -> "OBSERVABILITY"
                                    [] svc = home -> "GATEWAY" [] OTHER -> "APP"]

\* The requests: service of the span, parent.
Chain == <<<<timeline, 0>>, <<user, 1>>, <<ads, 2>>, <<store, 3>>>>
Cycle == <<<<user, 0>>, <<ads, 1>>, <<user, 2>>, <<store, 2>>>>

Traces(requests, faults) ==
    {[id |-> i, service |-> requests[i][1], parent |-> requests[i][2],
      error |-> "everywhere" \in faults,
      duration |-> IF "slow" \in faults /\ requests[i][1] = user THEN 150 ELSE 50] :
        i \in DOMAIN requests}

\* A service that restarted under an earlier fault, and one that is down now.
MCPods(faults) ==
    IF faults \cap {"old", "down"} = {} THEN {}
    ELSE {[service |-> svc, replica |-> 1, status |-> "healthy",
           up |-> IF "down" \in faults /\ svc \in {ads, jaeger} THEN 0 ELSE 1,
           restarts |-> IF svc = user THEN 4 ELSE 0] : svc \in MCDeployed \cup {jaeger}}

\* The services whose use jumped within the window, and one that is bigger throughout.
Metrics(metric, jumped, big) ==
    IF jumped \cup big = {} THEN {}
    ELSE {[metric |-> metric, service |-> svc,
           values |-> [i \in 1..6 |-> IF svc \in big \/ (svc \in jumped /\ i > 3) THEN 20 ELSE 2]] :
             svc \in MCDeployed}

Logs(faults) ==
    {[number |-> 1, section |-> ads, words |-> {"ERROR"}, refused |-> Nobody] :
        f \in faults \cap {"error"}}
    \cup {[number |-> 2, section |-> user, words |-> {}, refused |-> store] :
             f \in faults \cap {"refused"}}

Incident(requests, faults) ==
    LET Where(names) == {svc \in MCDeployed : \E f \in faults : f \in DOMAIN names /\ names[f] = svc}
    IN  [source \in Telemetry |->
            CASE source = "traces" -> Traces(requests, faults)
              [] source = "pods" -> MCPods(faults)
              [] source = "metrics" ->
                    Metrics("usage_cpu", Where([cpuUser |-> user, cpuAds |-> ads]), Where([big |-> store]))
                    \cup Metrics("usage_mem", Where([memUser |-> user, memAds |-> ads]), {})
              [] source = "logs" -> Logs(faults)]

\* No fault, one or two; or one that shows on every service, strong on some.
MCFaults ==
    {{f, g} : f, g \in {"cpuUser", "cpuAds", "slow", "refused"}}
    \cup {{}, {"big"}, {"error"}, {"error", "refused"}, {"old"}, {"down"},
           {"everywhere", "memUser"}, {"everywhere", "memUser", "memAds"}}

MCIncidents == {Incident(requests, faults) : requests \in {Chain, Cycle}, faults \in MCFaults}

MCSettings ==
    {[drill |-> FALSE, rerank |-> FALSE, store |-> "full"],
     [drill |-> FALSE, rerank |-> TRUE, store |-> "minimal"],
     [drill |-> TRUE, rerank |-> TRUE, store |-> "full"],
     [drill |-> TRUE, rerank |-> FALSE, store |-> "flaky"]}
===============================================================================
