--------------------------- MODULE MetricsService ---------------------------
(***************************************************************************)
(* The numbers the process shows (Stats.hpp, Metrics.hpp, MetricsServer.hpp *)
(* and their use in DemodCore.hpp and MainInstance.hpp).  The decoding      *)
(* thread counts in a window it owns, folds the window into totals, and     *)
(* now and then copies both, one counter after the other, into the registry *)
(* that the one thread of the server reads while it answers a request.      *)
(*                                                                          *)
(* The run creates the counters and the server anew each time; only the     *)
(* registry is the process's.  Time is left out: a timeout may come         *)
(* whenever nothing has arrived.                                            *)
(***************************************************************************)
EXTENDS Integers, Sequences, FiniteSets

CONSTANTS BlockIterations, \* iterations a block of samples adds
          TickIterations,  \* 5000000, the window of the table
          PublishInterval, \* MetricsPublishInterval
          CounterRange,    \* 2^64
          EndOnly,         \* STATS_END_ONLY
          Scrapers,        \* the clients
          Prompt,          \* those that send their request at once and read the answer
          MaxPieces,       \* pieces that make MaxRequestBytes
          MaxServiceRuns, MaxMetricBlocks \* bounds

ASSUME MetricsServiceAssumption ==
  /\ {BlockIterations, TickIterations, PublishInterval, CounterRange, MaxPieces} \subseteq Nat \ {0}
  /\ {EndOnly} \subseteq BOOLEAN /\ Prompt \subseteq Scrapers
  /\ {MaxServiceRuns, MaxMetricBlocks} \subseteq Nat

\* A window takes several publications, and the counters are wide.
ASSUME PublishAssumption ==
  /\ PublishInterval + BlockIterations <= TickIterations
  /\ TickIterations + PublishInterval <= CounterRange

VARIABLES window, total,   \* m_window, m_total: the counters of this run
          lastPublish,     \* m_lastMetricsPublish
          unpublished,     \* the counters publishDemod is still to store
          tcpDropped,      \* the dropped frames of this run's TCP server
          registry,        \* what a scrape reads
          main,            \* idle, running, stopping, joining
          serving,         \* m_running
          server,          \* off, head, poll, recv, render, send, ended
          backlog,         \* the clients that wait at the listening socket
          client,          \* the one accepted
          pieces,          \* pieces of its request so far
          unread,          \* the counters render is still to read
          peer,            \* away, waiting, accepted, answered, cut, refused
          inbox,           \* what a peer has sent: none, piece, whole, gone
          shown,           \* history: the value each counter showed last
          counted,         \* history: what this run counted
          silent,          \* history: iterations since the last copy
          runsBegun

countVars == <<window, total, lastPublish, unpublished, tcpDropped, counted, silent>>
serverVars == <<server, backlog, client, pieces, unread, peer, inbox, shown>>
serviceVars == <<countVars, serverVars, registry, main, serving, runsBegun>>

Events == {"iterations", "sent"}
Published == <<"iterations", "sent">>
Rendered == <<"iterations", "sent", "tcp">>
NothingCounted == [e \in Events |-> 0]

-----------------------------------------------------------------------------
(* Counters and StatsLog *)

Log(counters, event, n) == [counters EXCEPT ![event] = @ + n]
AccumulateInto(counters, target) == [e \in Events |-> target[e] + counters[e]]
Cumulative == AccumulateInto(window, total)

\* Mutant: the window is cleared, not folded.
ResetForgets(win, tot) == [window |-> NothingCounted, total |-> tot]
Reset(win, tot) == [window |-> NothingCounted, total |-> AccumulateInto(win, tot)]

PrintTick(win, tot) ==
  IF win["iterations"] >= TickIterations THEN Reset(win, tot)
  ELSE [window |-> win, total |-> tot]

\* The window starts again from 0 below the last publication: the difference
\* of the unsigned counters is then nearly their range.
PublishDue(now) == (now - lastPublish) % CounterRange >= PublishInterval

-----------------------------------------------------------------------------
(* The run *)

\* A server that cannot listen leaves the run without one.
StartService ==
  /\ main = "idle" /\ runsBegun < MaxServiceRuns
  /\ main' = "running" /\ runsBegun' = runsBegun + 1
  /\ window' = NothingCounted /\ total' = NothingCounted /\ lastPublish' = 0
  /\ unpublished' = <<>> /\ tcpDropped' = 0 /\ counted' = NothingCounted /\ silent' = 0
  /\ \/ serving' = TRUE /\ server' = "head"
     \/ UNCHANGED <<serving, server>>
  /\ UNCHANGED <<registry, backlog, client, pieces, unread, peer, inbox, shown>>

\* The frames of a block, then logBlockStats.
CountBlock ==
  /\ main = "running" /\ unpublished = <<>> /\ counted["iterations"] < MaxMetricBlocks * BlockIterations
  /\ \E frames \in {0, 1} :
       LET logged(c) == Log(Log(c, "sent", frames), "iterations", BlockIterations)
           ticked == IF EndOnly THEN [window |-> logged(window), total |-> total]
                     ELSE PrintTick(logged(window), total)
           due == PublishDue(ticked.window["iterations"])
       IN  /\ window' = ticked.window /\ total' = ticked.total
           /\ counted' = logged(counted)
           /\ lastPublish' = IF due THEN window'["iterations"] ELSE lastPublish
           /\ unpublished' = IF due THEN Published ELSE <<>>
           /\ silent' = IF due THEN 0 ELSE silent + BlockIterations
  /\ UNCHANGED <<tcpDropped, registry, main, serving, serverVars, runsBegun>>

PublishDemod ==
  /\ unpublished # <<>>
  /\ registry' = [registry EXCEPT ![Head(unpublished)] = Cumulative[Head(unpublished)]]
  /\ unpublished' = Tail(unpublished)
  /\ UNCHANGED <<window, total, lastPublish, tcpDropped, counted, silent, main, serving,
                 serverVars, runsBegun>>

DropTcpFrame ==
  /\ main = "running" /\ unpublished = <<>> /\ tcpDropped < 1
  /\ tcpDropped' = tcpDropped + 1
  /\ UNCHANGED <<window, total, lastPublish, unpublished, counted, silent, registry, main, serving,
                 serverVars, runsBegun>>

\* The watchdog, every 200 ms.
WatchdogCopiesTcp ==
  /\ main = "running" /\ registry' = [registry EXCEPT !["tcp"] = tcpDropped]
  /\ UNCHANGED <<countVars, main, serving, serverVars, runsBegun>>

EndService ==
  /\ main = "running" /\ unpublished = <<>>
  /\ main' = "stopping" /\ registry' = [registry EXCEPT !["tcp"] = tcpDropped]
  /\ UNCHANGED <<countVars, serving, serverVars, runsBegun>>

StopServer ==
  /\ main = "stopping"
  /\ serving' = FALSE /\ main' = IF serving THEN "joining" ELSE "idle"
  /\ UNCHANGED <<countVars, registry, serverVars, runsBegun>>

\* join, then closeListen, which refuses whoever still waits.
JoinServer ==
  /\ main = "joining" /\ server = "ended"
  /\ main' = "idle" /\ server' = "off" /\ backlog' = <<>>
  /\ peer' = [p \in Scrapers |-> IF peer[p] = "waiting" THEN "refused" ELSE peer[p]]
  /\ UNCHANGED <<countVars, registry, serving, client, pieces, unread, inbox, shown, runsBegun>>

-----------------------------------------------------------------------------
(* The server: serve, handle, respond, sendAll *)

ServerOnly ==
  UNCHANGED <<countVars, registry, main, serving, runsBegun>>

TestRunning ==
  /\ server = "head" /\ server' = IF serving THEN "poll" ELSE "ended"
  /\ UNCHANGED <<backlog, client, pieces, unread, peer, inbox, shown>> /\ ServerOnly

PollTimesOut ==
  /\ server = "poll" /\ backlog = <<>> /\ server' = "head"
  /\ UNCHANGED <<backlog, client, pieces, unread, peer, inbox, shown>> /\ ServerOnly

AcceptScraper ==
  /\ server = "poll" /\ backlog # <<>>
  /\ client' = Head(backlog) /\ backlog' = Tail(backlog)
  /\ peer' = [peer EXCEPT ![Head(backlog)] = "accepted"] /\ pieces' = 0 /\ server' = "recv"
  /\ UNCHANGED <<unread, inbox, shown>> /\ ServerOnly

HangUpOn(outcome) == peer' = [peer EXCEPT ![client] = outcome] /\ server' = "head"

\* The blank line, or as much as may be, ends the request; whatever it asks
\* for but the metrics has an answer ready.
ReceiveRequest ==
  /\ server = "recv" /\ inbox[client] \in {"piece", "whole"}
  /\ inbox' = [inbox EXCEPT ![client] = "none"] /\ pieces' = pieces + 1
  /\ \/ /\ inbox[client] = "whole" /\ server' = "render"
        /\ unread' \in IF client \in Prompt THEN {Rendered} ELSE {Rendered, <<>>}
     \/ inbox[client] = "piece" /\ pieces' >= MaxPieces /\ server' = "render" /\ unread' = <<>>
     \/ inbox[client] = "piece" /\ pieces' < MaxPieces /\ UNCHANGED <<server, unread>>
  /\ UNCHANGED <<backlog, client, peer, shown>> /\ ServerOnly

\* Mutant: the socket has no timeouts.
QuietTooLongNever(p) == FALSE
QuietTooLong(p) == inbox[p] = "none"
ReceiveFails ==
  /\ server = "recv" /\ (QuietTooLong(client) \/ inbox[client] = "gone")
  /\ HangUpOn("cut")
  /\ UNCHANGED <<backlog, client, pieces, unread, inbox, shown>> /\ ServerOnly

RenderCounter ==
  /\ server = "render" /\ unread # <<>>
  /\ shown' = [shown EXCEPT ![Head(unread)] = registry[Head(unread)]]
  /\ unread' = Tail(unread)
  /\ UNCHANGED <<server, backlog, client, pieces, peer, inbox>> /\ ServerOnly

\* A client that does not read fills its socket, and send times out.
Respond ==
  /\ server = "render" /\ unread = <<>>
  /\ \/ inbox[client] # "gone" /\ HangUpOn("answered")
     \/ client \notin Prompt /\ HangUpOn("cut")
  /\ UNCHANGED <<backlog, client, pieces, unread, inbox, shown>> /\ ServerOnly

-----------------------------------------------------------------------------
(* The clients *)

ConnectScraper(p) ==
  /\ peer[p] = "away" /\ server # "off" /\ main # "idle"
  /\ peer' = [peer EXCEPT ![p] = "waiting"] /\ backlog' = Append(backlog, p)
  /\ inbox' = [inbox EXCEPT ![p] = IF p \in Prompt THEN "whole" ELSE "none"]
  /\ UNCHANGED <<server, client, pieces, unread, shown>> /\ ServerOnly
SendsRequest(p, what) ==
  /\ p \notin Prompt /\ peer[p] \in {"waiting", "accepted"} /\ inbox[p] = "none"
  /\ server # "render" /\ inbox' = [inbox EXCEPT ![p] = what]
  /\ UNCHANGED <<server, backlog, client, pieces, unread, peer, shown>> /\ ServerOnly
\* A scraper comes again.
Leaves(p) ==
  /\ peer[p] \in {"answered", "cut", "refused"} /\ peer' = [peer EXCEPT ![p] = "away"]
  /\ UNCHANGED <<server, backlog, client, pieces, unread, inbox, shown>> /\ ServerOnly

-----------------------------------------------------------------------------
(* Specification *)

InitService ==
  /\ window = NothingCounted /\ total = NothingCounted /\ lastPublish = 0
  /\ unpublished = <<>> /\ tcpDropped = 0 /\ counted = NothingCounted /\ silent = 0
  /\ registry = [e \in Events \cup {"tcp"} |-> 0] /\ shown = registry
  /\ main = "idle" /\ serving = FALSE /\ server = "off" /\ runsBegun = 0
  /\ backlog = <<>> /\ client \in Scrapers /\ pieces = 0 /\ unread = <<>>
  /\ peer = [p \in Scrapers |-> "away"] /\ inbox = [p \in Scrapers |-> "none"]

ServerStep ==
  TestRunning \/ PollTimesOut \/ AcceptScraper \/ ReceiveRequest \/ ReceiveFails
  \/ RenderCounter \/ Respond
NextService ==
  \/ StartService \/ CountBlock \/ PublishDemod \/ DropTcpFrame \/ WatchdogCopiesTcp
  \/ EndService \/ StopServer \/ JoinServer \/ ServerStep
  \/ \E p \in Scrapers :
       \/ ConnectScraper(p) \/ Leaves(p)
       \/ \E what \in {"piece", "whole", "gone"} : SendsRequest(p, what)

-----------------------------------------------------------------------------
(* Properties *)

\* The registry is copied at least once in every interval of a run, although
\* the window that measures the interval starts again under it, and each copy
\* holds all the run counted, whatever the window forgot since.
SnapshotFresh ==
  /\ silent < PublishInterval
  /\ unpublished # <<>> => Cumulative = counted

\* No client holds the server's only thread: one that sends its request is
\* answered, unless the run ends first, and a run that ends joins the thread.
NobodyHoldsServer ==
  /\ \A p \in Prompt : peer[p] = "waiting" ~> peer[p] \in {"answered", "refused"}
  /\ main = "joining" ~> main = "idle"

\* A counter on the endpoint never goes back while the process lives.
CountersMonotonic == [][\A e \in DOMAIN shown : shown'[e] >= shown[e]]_shown
=============================================================================
