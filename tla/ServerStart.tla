---------------------------- MODULE ServerStart ----------------------------
(***************************************************************************)
(* The servers of a run: MetricsServer::start and TcpOutputServer's start,  *)
(* initialize and createListener, in the order MainInstance::run calls      *)
(* them, with every call that may fail on the way, and what the end of the  *)
(* run closes.  A run may follow another in the same process.               *)
(*                                                                          *)
(* A port is taken on an address; other processes take and leave them too.  *)
(***************************************************************************)
EXTENDS Absent, Integers, Sequences, FiniteSets

CONSTANTS Asked,      \* [metrics, avr, beast]: the ports that are asked for, or None
          Addresses,  \* what getaddrinfo answers, in its order
          MetricsAddress,
          MaxStarts, MaxErrors, MaxTaken \* bounds: runs, errors of calls, ports others take

ASSUME ServerStartAssumption ==
  /\ Addresses # <<>> /\ {MaxStarts, MaxErrors, MaxTaken} \subseteq Nat

VARIABLES ports,
          open,       \* the descriptors there are, by what they are for
          bound,      \* the address and port of those that listen
          foreign,    \* the addresses and ports of other processes
          candidate,  \* the address that is tried
          isRunning, worker, metricsRunning,
          at, starts, errors, taking

startVars == <<ports, open, bound, foreign, candidate, isRunning, worker, metricsRunning, at,
               starts, errors, taking>>

Pipe == {"controlRead", "controlWrite"}
Listeners == {"avr", "beast"}
Enabled == {l \in Listeners : ports[l] # None}
InUse == foreign \cup {bound[l] : l \in DOMAIN bound}

InitStart ==
  /\ ports \in Asked /\ open = {} /\ bound = <<>> /\ foreign = {} /\ candidate = 1
  /\ isRunning = FALSE /\ worker = FALSE /\ metricsRunning = FALSE
  /\ at = "idle" /\ starts = 0 /\ errors = 0 /\ taking = 0

Goes(from, to) == at = from /\ at' = to
Errs == errors < MaxErrors /\ errors' = errors + 1
Bind(l, place) == bound' = [k \in DOMAIN bound \cup {l} |-> IF k = l THEN place ELSE bound[k]]
Only(kept) == open' = open \cap kept /\ bound' = [l \in DOMAIN bound \cap kept |-> bound[l]]

\* Another process takes a port, or gives one back.
Others ==
  /\ taking < MaxTaken /\ taking' = taking + 1
  /\ \E place \in ({Addresses[i] : i \in DOMAIN Addresses} \cup {MetricsAddress})
                   \X {ports[s] : s \in {"metrics"} \cup Enabled} :
       \/ place \notin InUse /\ foreign' = foreign \cup {place}
       \/ place \in foreign /\ foreign' = foreign \ {place}
  /\ UNCHANGED <<ports, open, bound, candidate, isRunning, worker, metricsRunning, at, starts, errors>>

-----------------------------------------------------------------------------
(* MetricsServer::start; a run goes on without it *)

BeginRun ==
  /\ starts < MaxStarts /\ starts' = starts + 1
  /\ Goes("idle", IF ports["metrics"] = None THEN "tcp" ELSE "metrics")
  /\ UNCHANGED <<ports, open, bound, foreign, candidate, isRunning, worker, metricsRunning, errors, taking>>

MetricsSocket ==
  /\ \/ Goes("metrics", "tcp") /\ Errs /\ UNCHANGED open
     \/ Goes("metrics", "metricsBind") /\ open' = open \cup {"metrics"} /\ UNCHANGED errors
  /\ UNCHANGED <<ports, bound, foreign, candidate, isRunning, worker, metricsRunning, starts, taking>>

\* inet_pton, bind and listen.
MetricsBind ==
  LET place == <<MetricsAddress, ports["metrics"]>>
  IN  /\ Goes("metricsBind", "tcp")
      /\ \/ /\ (place \in InUse /\ UNCHANGED errors) \/ Errs
            /\ open' = open \ {"metrics"} /\ UNCHANGED <<bound, metricsRunning>>
         \/ /\ place \notin InUse /\ Bind("metrics", place) /\ metricsRunning' = TRUE
            /\ UNCHANGED <<open, errors>>
      /\ UNCHANGED <<ports, foreign, candidate, isRunning, worker, starts, taking>>

-----------------------------------------------------------------------------
(* TcpOutputServer::start *)

\* The listener that comes next, or the worker.
After(l) == IF l = "pipe" /\ "avr" \in Enabled THEN "avr"
            ELSE IF l \in {"pipe", "avr"} /\ "beast" \in Enabled THEN "beast" ELSE "worker"

\* Mutant: the listener that came up first stays when the second fails.
CleanupButAvr == Only({"metrics", "avr"})
Cleanup == Only({"metrics"})

OpenPipe ==
  /\ at = "tcp"
  /\ \/ Enabled = {} /\ at' = "run" /\ UNCHANGED <<open, bound, errors>>
     \/ Enabled # {} /\ at' = "stop" /\ Errs /\ UNCHANGED <<open, bound>>
     \/ Enabled # {} /\ at' = "pipe" /\ open' = open \cup Pipe /\ UNCHANGED <<bound, errors>>
  /\ UNCHANGED <<ports, foreign, candidate, isRunning, worker, metricsRunning, starts, taking>>

ConfigurePipe ==
  /\ at = "pipe"
  /\ \/ at' = "stop" /\ Errs /\ Cleanup
     \/ at' = After("pipe") /\ UNCHANGED <<open, bound, errors>>
  /\ UNCHANGED <<ports, foreign, candidate, isRunning, worker, metricsRunning, starts, taking>>

\* An address after another, until one takes socket, bind and listen.
TryAddress ==
  LET place == <<Addresses[candidate], ports[at]>>
  IN  /\ at \in Listeners /\ candidate <= Len(Addresses) /\ at \notin open
      /\ \/ /\ (place \in InUse /\ UNCHANGED errors) \/ Errs
            /\ candidate' = candidate + 1 /\ UNCHANGED <<open, bound>>
         \/ /\ place \notin InUse /\ open' = open \cup {at} /\ Bind(at, place)
            /\ UNCHANGED <<candidate, errors>>
      /\ UNCHANGED <<ports, foreign, isRunning, worker, metricsRunning, at, starts, taking>>
NoAddress ==
  /\ at \in Listeners /\ candidate > Len(Addresses) /\ at' = "stop" /\ Cleanup /\ candidate' = 1
  /\ UNCHANGED <<ports, foreign, isRunning, worker, metricsRunning, starts, errors, taking>>
\* getsockname, for the port the kernel chose.
InspectListener ==
  /\ at \in Listeners /\ at \in open /\ candidate' = 1
  /\ \/ at' = "stop" /\ Errs /\ Cleanup
     \/ at' = After(at) /\ UNCHANGED <<open, bound, errors>>
  /\ UNCHANGED <<ports, foreign, isRunning, worker, metricsRunning, starts, taking>>
StartWorker ==
  /\ Goes("worker", "run") /\ isRunning' = TRUE /\ worker' = TRUE
  /\ UNCHANGED <<ports, open, bound, foreign, candidate, metricsRunning, starts, errors, taking>>

-----------------------------------------------------------------------------
(* The end of the run: the device's, and one whose device cannot be set up *)

EndRun ==
  /\ Goes("run", "stop")
  /\ UNCHANGED <<ports, open, bound, foreign, candidate, isRunning, worker, metricsRunning, starts, errors, taking>>

\* The worker closes what it has before it is joined.  The destructor of a
\* server that did not start finds nothing to stop.
StopTcp ==
  /\ Goes("stop", "stopMetrics") /\ isRunning' = FALSE /\ worker' = FALSE
  /\ IF worker THEN Cleanup ELSE UNCHANGED <<open, bound>>
  /\ UNCHANGED <<ports, foreign, candidate, metricsRunning, starts, errors, taking>>
StopMetrics ==
  /\ Goes("stopMetrics", "idle") /\ metricsRunning' = FALSE
  /\ IF metricsRunning THEN Only(Pipe \cup Listeners) ELSE UNCHANGED <<open, bound>>
  /\ UNCHANGED <<ports, foreign, candidate, isRunning, worker, starts, errors, taking>>

NextStart ==
  \/ Others \/ BeginRun \/ MetricsSocket \/ MetricsBind \/ OpenPipe \/ ConfigurePipe
  \/ TryAddress \/ NoAddress \/ InspectListener \/ StartWorker \/ EndRun \/ StopTcp \/ StopMetrics

-----------------------------------------------------------------------------
(* Properties *)

\* While a run decodes, each protocol that was asked for is listened to on the
\* port that was asked for, and the metrics are served or left out whole; after
\* it, and after a start that failed at any of its calls, no descriptor, port
\* or thread of it is left for the next run to fall over (TcpOutputServer.cpp:
\* 83-179, 352-382, MetricsServer.hpp:80-142, MainInstance.hpp:161-170, 414-454).
ServersWhole ==
  /\ at = "run" =>
       /\ isRunning <=> Enabled # {}
       /\ open \ {"metrics"} = IF isRunning THEN Pipe \cup Enabled ELSE {}
       /\ \A l \in Enabled : l \in DOMAIN bound /\ bound[l][2] = ports[l]
       /\ "metrics" \in open <=> metricsRunning
  /\ at = "idle" => open = {} /\ bound = <<>> /\ ~isRunning /\ ~worker /\ ~metricsRunning
=============================================================================
