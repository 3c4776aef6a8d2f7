---------------------------- MODULE HostService ----------------------------
(***************************************************************************)
(* The host as a server (crates/mikura-host/src/lib.rs, main.rs,           *)
(* metrics.rs): it binds, opens its store and serves; clients connect and  *)
(* send one line each, the accept loop hands connections to the worker     *)
(* pool through a channel without a buffer, a worker reads the line within *)
(* its bound and its deadline, checks its token, answers, counts and goes  *)
(* on, and a thread that watches stdin stops it all.                       *)
(*                                                                         *)
(* What a handler does to the store is HostScheduler's subject: here it    *)
(* ends, or panics.  Time is that a deadline passes when nothing else      *)
(* happens.                                                                *)
(***************************************************************************)
EXTENDS Naturals, FiniteSets, Sequences

CONSTANTS
  Threads,   \* DEFAULT_MAX_IN_FLIGHT worker threads
  Clients,   \* who connects, once each
  Named,     \* the namespaces requests name
  MaxNamespaces, \* of them, how many the metrics tell apart
  Other,     \* OTHER_NS, the label of the rest
  Launches,  \* a command line, and what each client sends
  Backlog,   \* connections the listener's queue holds
  Panics,    \* bound: handlers that panic
  Wakeup,    \* the connection the watcher makes to itself
  Nobody      \* no connection, no thread

ASSUME ServiceAssumption ==
  /\ IsFiniteSet(Threads) /\ Threads # {} /\ IsFiniteSet(Clients)
  /\ Backlog \in Nat \ {0} /\ Panics \in Nat
  /\ Wakeup \notin Clients /\ Nobody \notin Clients \cup Threads \cup {Wakeup}
  /\ Other \notin Named /\ Nobody \notin Named /\ MaxNamespaces \in Nat
  /\ Launches \subseteq
       [routable : BOOLEAN, limited : BOOLEAN, bearer : {"none", "empty", "secret"},
        sends : [Clients -> [line : {"whole", "long", "slow", "gone"},
                             v : {"none", "1", "2"},
                             token : {"none", "secret", "other"},
                             request : {"good", "refused", "scrape", "malformed"},
                             ns : Named \cup {Nobody}]]]

VARIABLES
  given,    \* the command line, and what each client sends once connected
  backlog,  \* connections nobody accepted yet
  loop,     \* where the accept loop is
  stream,   \* the connection it is about to send
  nones,    \* how many workers it has yet to send a None to
  rx,       \* holder of the receiver's mutex
  doing,    \* where each worker is
  job,      \* the connection of each worker
  running,  \* the flag serve_while asks for
  watcher,  \* the thread that reads stdin
  accepted, \* the counters
  rejected,
  overloaded,
  observed, \* requests in the latency histograms
  byLabel,  \* requests by the label of their namespace
  fate      \* what became of each client: "away", "waiting", or how it ended

serviceVars == <<given, backlog, loop, stream, nones, rx, doing, job, running, watcher, accepted,
                 rejected, overloaded, observed, byLabel, fate>>
poolVars == <<rx, doing, job>>
loopVars == <<loop, stream, nones>>
metrics == <<overloaded, observed, byLabel>>
counters == <<accepted, rejected, metrics>>
sends == given.sends

GoesTo(w, at) == doing' = [doing EXCEPT ![w] = at]

-----------------------------------------------------------------------------
(* run: the start.                                                         *)

(* require_bearer_if_routable.                                             *)
Refuses(present) == given.routable /\ ~present

(* Host::bind: a routable address asks for a bearer that is not empty.     *)
Bind ==
  /\ loop = "bind"
  /\ loop' = IF Refuses(given.bearer \notin {"none", "empty"}) THEN "returned" ELSE "open"
  /\ UNCHANGED <<given, backlog, stream, nones, poolVars, running, watcher, counters, fate>>

(* The host ends before it served; whoever is queued is closed.            *)
GiveUp ==
  /\ loop' = "returned" /\ backlog' = <<>>
  /\ fate' = [c \in Clients |-> IF fate[c] = "waiting" THEN "closed" ELSE fate[c]]
  /\ UNCHANGED <<given, stream, nones, poolVars, running, watcher, counters>>

(* Host::listen: the store is opened or created, which may fail, while     *)
(* clients are queued already; require_bearer takes no empty one.          *)
OpenStore ==
  /\ loop = "open"
  /\ \/ /\ given.bearer # "empty"
        /\ loop' = "limits"
        /\ UNCHANGED <<given, backlog, stream, nones, poolVars, running, watcher, counters, fate>>
     \/ GiveUp

(* set_request_limits: neither is zero.                                    *)
SetRequestLimits == given.limited

RefuseUnauthenticatedRoutable == Refuses(given.bearer # "none")

(* The limits are set, stdin is watched, and serve_while looks at the      *)
(* address once more.                                                      *)
Watch ==
  /\ loop = "limits"
  /\ IF SetRequestLimits /\ ~RefuseUnauthenticatedRoutable
     THEN /\ loop' = "check" /\ watcher' = "reading"
          /\ UNCHANGED <<given, backlog, stream, nones, poolVars, running, counters, fate>>
     ELSE GiveUp

-----------------------------------------------------------------------------
(* Clients and the thread that watches stdin.                              *)

Connect(c) ==
  /\ fate[c] = "away" /\ Len(backlog) < Backlog /\ loop \notin {"bind", "returned"}
  /\ backlog' = Append(backlog, c)
  /\ fate' = [fate EXCEPT ![c] = "waiting"]
  /\ UNCHANGED <<given, loopVars, poolVars, running, watcher, counters>>

(* Stdin is at its end, or cannot be read.                                 *)
CloseStdin ==
  /\ watcher = "reading"
  /\ watcher' = "stopping"
  /\ UNCHANGED <<given, backlog, loopVars, poolVars, running, counters, fate>>

(* Mutant of StopRunning: connect first, then lower the flag.              *)
WakesFirst ==
  /\ watcher \in {"stopping", "waking"}
  /\ IF watcher = "stopping"
     THEN /\ backlog' = IF Len(backlog) < Backlog THEN Append(backlog, Wakeup) ELSE backlog
          /\ watcher' = "waking" /\ UNCHANGED running
     ELSE running' = FALSE /\ watcher' = "done" /\ UNCHANGED backlog
  /\ UNCHANGED <<given, loopVars, poolVars, counters, fate>>

StopRunning ==
  /\ watcher = "stopping"
  /\ running' = FALSE
  /\ watcher' = "waking"
  /\ UNCHANGED <<given, backlog, loopVars, poolVars, counters, fate>>

(* connect_timeout: the error of a full queue is dropped.                  *)
WakeAccept ==
  /\ watcher = "waking"
  /\ backlog' = IF Len(backlog) < Backlog THEN Append(backlog, Wakeup) ELSE backlog
  /\ watcher' = "done"
  /\ UNCHANGED <<given, loopVars, poolVars, running, counters, fate>>

-----------------------------------------------------------------------------
(* serve_while.                                                            *)

Loop(at) == loop' = at /\ UNCHANGED <<given, poolVars, running, watcher, counters>>

CheckGoing ==
  /\ loop = "check"
  /\ Loop(IF running THEN "accept" ELSE "stop")
  /\ UNCHANGED <<backlog, stream, nones, fate>>

Accept ==
  /\ loop = "accept" /\ backlog # <<>>
  /\ stream' = Head(backlog) /\ backlog' = Tail(backlog)
  /\ Loop("recheck")
  /\ UNCHANGED <<nones, fate>>

(* A failed accept ends the loop.                                          *)
AcceptFails ==
  /\ loop = "accept"
  /\ Loop("stop")
  /\ UNCHANGED <<backlog, stream, nones, fate>>

(* The connection that came too late is closed without an answer.          *)
CheckAgain ==
  /\ loop = "recheck"
  /\ IF running
     THEN Loop("send") /\ UNCHANGED <<stream, fate>>
     ELSE /\ Loop("stop")
          /\ stream' = Nobody
          /\ fate' = [c \in Clients |-> IF c = stream THEN "closed" ELSE fate[c]]
  /\ UNCHANGED <<backlog, nones>>

(* Mutant of Return: threads without a scope, a channel that is dropped.    *)
ReturnAtOnce ==
  /\ loop = "stop"
  /\ Loop("returned")
  /\ backlog' = <<>>
  /\ fate' = [c \in Clients |-> IF \E i \in DOMAIN backlog : backlog[i] = c THEN "closed" ELSE fate[c]]
  /\ UNCHANGED <<stream, nones>>

(* The scope ends when every worker thread has; the listener goes, and     *)
(* with it whoever is still in its queue.                                  *)
Return ==
  /\ loop = "stop" /\ nones = 0
  /\ \A w \in Threads : doing[w] \in {"left", "dead"}
  /\ Loop("returned")
  /\ backlog' = <<>>
  /\ fate' = [c \in Clients |-> IF fate[c] = "waiting" THEN "closed" ELSE fate[c]]
  /\ UNCHANGED <<stream, nones>>

-----------------------------------------------------------------------------
(* A worker.                                                               *)

LockReceiver(w) ==
  /\ doing[w] = "idle" /\ rx = Nobody
  /\ rx' = w
  /\ GoesTo(w, "recv")
  /\ UNCHANGED <<given, backlog, loopVars, job, running, watcher, counters, fate>>

(* Both sides of a send meet here.                                         *)
Receive(w) ==
  /\ doing[w] = "recv" /\ rx = w /\ loop = "send"
  /\ job' = [job EXCEPT ![w] = stream]
  /\ rx' = Nobody /\ stream' = Nobody /\ loop' = "check"
  /\ GoesTo(w, "reading")
  /\ UNCHANGED <<given, backlog, nones, running, watcher, counters, fate>>

(* Mutant of ReceiveNone: the worker goes back for the next job.           *)
ReceiveAnyNone(w) ==
  /\ doing[w] = "recv" /\ rx = w /\ loop = "stop" /\ nones > 0
  /\ nones' = nones - 1
  /\ rx' = Nobody
  /\ GoesTo(w, "idle")
  /\ UNCHANGED <<given, backlog, loop, stream, job, running, watcher, counters, fate>>

ReceiveNone(w) ==
  /\ doing[w] = "recv" /\ rx = w /\ loop = "stop" /\ nones > 0
  /\ nones' = nones - 1
  /\ rx' = Nobody
  /\ GoesTo(w, "left")
  /\ UNCHANGED <<given, backlog, loop, stream, job, running, watcher, counters, fate>>

Ends(w, how) ==
  /\ fate' = [c \in Clients |-> IF c = job[w] THEN how ELSE fate[c]]
  /\ job' = [job EXCEPT ![w] = Nobody]
  /\ UNCHANGED <<given, backlog, loopVars, rx, running, watcher>>

Stays(w, at) ==
  /\ GoesTo(w, at)
  /\ UNCHANGED <<given, backlog, loopVars, rx, job, running, watcher, fate>>

Line(w) == IF job[w] = Wakeup THEN "gone" ELSE sends[job[w]].line

(* note_overload.                                                          *)
NoteOverload ==
  /\ rejected' = rejected + 1 /\ overloaded' = overloaded + 1
  /\ UNCHANGED <<accepted, observed, byLabel>>

(* Mutant of ReadLine: a slow client is waited for.                        *)
ReadWithoutDeadline(w) ==
  /\ doing[w] = "reading" /\ Line(w) # "slow"
  /\ IF Line(w) = "whole" THEN Stays(w, "handling") /\ UNCHANGED counters
     ELSE IF Line(w) = "long" THEN Stays(w, "draining") /\ NoteOverload
     ELSE Ends(w, "closed") /\ GoesTo(w, "idle") /\ UNCHANGED counters

(* read_request_line: a whole line; or more bytes than the bound, or the   *)
(* deadline, which are overloads and answered as such; or a client gone.   *)
ReadLine(w) ==
  /\ doing[w] = "reading"
  /\ \/ Line(w) = "whole" /\ Stays(w, "handling") /\ UNCHANGED counters
     \/ Line(w) \in {"long", "slow"} /\ Stays(w, "draining") /\ NoteOverload
     \/ Line(w) = "gone" /\ Ends(w, "closed") /\ GoesTo(w, "idle") /\ UNCHANGED counters

(* handle: a scrape is answered and not counted.                           *)
Handled(request) ==
  /\ \/ request = "good" /\ accepted' = accepted + 1 /\ UNCHANGED rejected
     \/ request = "refused" /\ rejected' = rejected + 1 /\ UNCHANGED accepted
     \/ request = "scrape" /\ UNCHANGED <<accepted, rejected>>
  /\ UNCHANGED metrics

(* wire_version: no version at all is the current one.                     *)
WireVersion(v) == v \in {"none", "1"}

(* Mutant of CheckToken: only a token that is there is compared.           *)
CheckPresented(token) == token # "none" /\ given.bearer = "secret" => token = given.bearer

(* check_token: who has a bearer asks for it.                              *)
CheckToken(token) == given.bearer = "secret" => token = given.bearer

Admitted(sent) == WireVersion(sent.v) /\ sent.request # "malformed" /\ CheckToken(sent.token)

(* handle_line: what does not parse, is of another version or has not the  *)
(* token is answered before it counts as a request.                        *)
HandleLine(w) ==
  /\ doing[w] = "handling"
  /\ IF Admitted(sends[job[w]])
     THEN /\ Handled(sends[job[w]].request)
          /\ Stays(w, IF sends[job[w]].request = "scrape" THEN "writing" ELSE "observing")
     ELSE UNCHANGED counters /\ Stays(w, "writing")

(* Mutant of Label: the labels are not bounded.                            *)
OwnLabel(ns) == ns

(* observe_namespace: the first namespaces have a label each.              *)
Label(ns) ==
  IF ns \in DOMAIN byLabel \/ Cardinality(DOMAIN byLabel) < MaxNamespaces THEN ns ELSE Other

(* observe_rpc, by the operation and by the namespace if there is one.     *)
ObserveRpc(w) ==
  /\ doing[w] = "observing"
  /\ observed' = observed + 1
  /\ LET ns == sends[job[w]].ns
         l == Label(ns)
         count(n) == IF n \in DOMAIN byLabel THEN byLabel[n] ELSE 0
     IN byLabel' = IF ns = Nobody THEN byLabel
                   ELSE [n \in DOMAIN byLabel \cup {l} |-> count(n) + (IF n = l THEN 1 ELSE 0)]
  /\ UNCHANGED <<accepted, rejected, overloaded>>
  /\ Stays(w, "writing")

Panic(w) ==
  /\ doing[w] = "handling" /\ Admitted(sends[job[w]])
  /\ Cardinality({v \in Threads : doing[v] = "dead"}) < Panics
  /\ Ends(w, "closed") /\ GoesTo(w, "dead")
  /\ UNCHANGED counters

(* write_response, within the write timeout.                               *)
WriteResponse(w) ==
  /\ doing[w] = "writing"
  /\ \E how \in {"answered", "closed"} : Ends(w, how)
  /\ GoesTo(w, "idle")
  /\ UNCHANGED counters

(* write_fail_closed: answer, then discard what the client still sends     *)
(* until it stops or the deadline passes.                                  *)
WriteFailClosed(w) ==
  /\ doing[w] = "draining"
  /\ \E how \in {"answered", "closed"} : Ends(w, how)
  /\ GoesTo(w, "idle")
  /\ UNCHANGED counters

-----------------------------------------------------------------------------
ServiceInit ==
  /\ given \in Launches
  /\ backlog = <<>> /\ loop = "bind" /\ stream = Nobody /\ nones = Cardinality(Threads)
  /\ rx = Nobody /\ doing = [w \in Threads |-> "idle"] /\ job = [w \in Threads |-> Nobody]
  /\ running = TRUE /\ watcher = "none"
  /\ accepted = 0 /\ rejected = 0
  /\ overloaded = 0 /\ observed = 0 /\ byLabel = <<>>
  /\ fate = [c \in Clients |-> "away"]

WorkerStep(w) ==
  \/ LockReceiver(w) \/ Receive(w) \/ ReceiveNone(w)
  \/ ReadLine(w) \/ HandleLine(w) \/ ObserveRpc(w) \/ WriteResponse(w) \/ WriteFailClosed(w)

LoopStep == Bind \/ OpenStore \/ Watch \/ CheckGoing \/ Accept \/ CheckAgain \/ Return
WatcherStep == StopRunning \/ WakeAccept

ServiceNext ==
  \/ \E c \in Clients : Connect(c)
  \/ CloseStdin \/ AcceptFails
  \/ LoopStep \/ WatcherStep
  \/ \E w \in Threads : WorkerStep(w) \/ Panic(w)

(* Threads that can run do run, deadlines pass, and the receiver's mutex   *)
(* is not assumed to be fair.  Nobody needs to connect, and stdin may stay *)
(* open.                                                                   *)
ServiceFairness ==
  /\ WF_serviceVars(LoopStep) /\ WF_serviceVars(WatcherStep)
  /\ \A w \in Threads : WF_serviceVars(WorkerStep(w))

ServiceSpec == ServiceInit /\ [][ServiceNext]_serviceVars /\ ServiceFairness

-----------------------------------------------------------------------------
(* Properties.                                                             *)

Dead == {w \in Threads : doing[w] = "dead"}

(* EveryClientEnds: whoever connected is answered or closed, whatever the  *)
(* other clients send or fail to send, as long as a worker is left; and    *)
(* the same when the host stops while it is in the queue, being accepted,  *)
(* handed over or served.                                                  *)
EveryClientEnds ==
  \A c \in Clients : fate[c] = "waiting" ~> fate[c] # "waiting" \/ Dead # {}

(* ServerStops (main.rs:78): once stdin is closed serve_while returns,     *)
(* with clients or without, wherever the flag meets the accept loop and    *)
(* though the connection that wakes it may fail; unless a worker panicked. *)
ServerStops == watcher = "stopping" ~> loop = "returned" \/ Dead # {}

(* NobodyWaits: no client is left waiting, and the host stops when told.   *)
NobodyWaits == EveryClientEnds /\ ServerStops

(* A request that is let in and counts, and whose connection with it is.   *)
Served(c) == sends[c].line = "whole" /\ sends[c].request \in {"good", "refused"}
               /\ (given.bearer = "none" \/ sends[c].token = given.bearer)
               /\ sends[c].v # "2"
Counted(c) == sends[c].line \in {"long", "slow"} \/ Served(c)
With(c) == {w \in Threads : job[w] = c}

(* No connection is with two threads, none is lost between them, the       *)
(* counters have told every answer that counts and no request twice, and   *)
(* when serve_while has returned no worker is still at one.                *)
ConnectionsOwned ==
  /\ \A c \in Clients : fate[c] = "waiting" =>
       Cardinality(With(c)) + (IF stream = c THEN 1 ELSE 0)
         + Cardinality({i \in DOMAIN backlog : backlog[i] = c}) = 1
  /\ Cardinality({c \in Clients : fate[c] = "answered" /\ Counted(c)}) <= accepted + rejected
  /\ accepted + rejected <= Cardinality({c \in Clients : fate[c] # "away" /\ Counted(c)})
  /\ loop = "returned" =>
       /\ \A w \in Threads : job[w] = Nobody
       /\ \A c \in Clients : fate[c] # "waiting"

(* What a scrape shows (metrics.rs): every request of the histograms was   *)
(* accepted or rejected, the others there being overloads and those on     *)
(* their way; the labels stay within their bound, and a namespace that has *)
(* one has every answer it was given under it, whoever came first.         *)
MetricsAgree ==
  /\ accepted + rejected =
       observed + overloaded + Cardinality({w \in Threads : doing[w] = "observing"})
  /\ Cardinality(DOMAIN byLabel \ {Other}) <= MaxNamespaces
  /\ \A ns \in DOMAIN byLabel \ {Other} :
       LET of == {c \in Clients : sends[c].ns = ns /\ Served(c)}
       IN /\ Cardinality({c \in of : fate[c] = "answered"}) <= byLabel[ns]
          /\ byLabel[ns] <= Cardinality({c \in of : fate[c] # "away"})

(* NothingHalfServed: connections, counters and metrics tell the same      *)
(* story; on an address others reach nobody is served without a bearer.    *)
NothingHalfServed ==
  /\ ConnectionsOwned /\ MetricsAgree
  /\ given.routable /\ observed > 0 => given.bearer = "secret"

(* StopsAnyway: the same as ServerStops, panics or not.                    *)
StopsAnyway == watcher = "stopping" ~> loop = "returned"

=============================================================================
