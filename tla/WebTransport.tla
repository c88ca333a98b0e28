---------------------------- MODULE WebTransport ----------------------------
(***************************************************************************)
(* QcWifiWebTransport: one listing, kept as a snapshot and as JSON, served *)
(* to GET requests by the HTTP server's thread and pushed to WebSocket     *)
(* clients by the worker thread qc_wifi_web; the session's heartbeat       *)
(* publishes from a third thread.  A critical section of dataMutex_ is one *)
(* step; a socket call is a step of its own, made without the lock.        *)
(*                                                                         *)
(* A listing is its number, 0 being the empty one of the constructor, and  *)
(* so is a preset change.  Zephyr hands out a WebSocket context, and the   *)
(* socket that names it, again as soon as it is unregistered.              *)
(***************************************************************************)
EXTENDS Naturals, Sequences, FiniteSets, SequencesExt

CONSTANTS Socks,          \* the sockets of CONFIG_WEBSOCKET_MAX_CONTEXTS contexts
          NoSock,         \* no socket
          MaxClients,     \* kMaxWsClients
          MaxListings,    \* bound on the calls of publishCatalog()
          MaxChanges,     \* bound on the calls of publishPresetChange()
          MaxConnections, \* bound on the WebSocket connections
          MaxGets,        \* bound on the GET requests
          MaxOutages      \* bound on the losses of the Wi-Fi link

(* prj.conf: "WEBSOCKET_MAX_CONTEXTS must cover QcWifiWebTransport's own   *)
(* kMaxWsClients (2)" - both are 2, so no more contexts than clients.      *)
ASSUME TransportAssumption ==
  /\ IsFiniteSet(Socks) /\ NoSock \notin Socks
  /\ MaxClients \in Nat /\ Cardinality(Socks) <= MaxClients
  /\ MaxListings \in Nat /\ MaxChanges \in Nat
  /\ MaxConnections \in Nat /\ MaxGets \in Nat /\ MaxOutages \in Nat

VARIABLES
  server,   \* http_server_start(): "off", "on" or "failed"
  wifi,     \* "off", "requested", "up", or "dead": nothing more will come
  snapshot, \* catalogSnapshot_
  dirty,    \* catalogDirty_
  json,     \* catalogJson_
  change,   \* lastChangeEvent_
  pending,  \* changePending_
  sem,      \* the count of broadcastSem_, of limit 1
  clients,  \* wsSockets_
  ppc,      \* the publisher: "idle", or about to give the semaphore
  wpc,      \* the worker in run()
  frame,    \* broadcastJson_: its listing, and its change or 0
  todo,     \* the worker's copy of wsSockets_, as far as it has come
  leaving,  \* the socket removed from wsSockets_ and not yet unregistered
  hpc,      \* the HTTP thread
  response, \* responseJson_
  joining,  \* handleWsSetup()'s argument
  \* outside, and history:
  conn,     \* the connection of each socket and what it got last
  asked,    \* the listing published when the GET under way came in
  connections, gets, outages

bringUpVars == <<server, wifi, outages>>
dataVars == <<snapshot, dirty, json, change, pending>>
workerVars == <<wpc, frame, todo, leaving>>
httpVars == <<hpc, response, joining, asked, connections, gets>>
vars == <<bringUpVars, dataVars, sem, clients, ppc, workerVars, httpVars, conn>>

Fresh(state) == [state |-> state, fed |-> FALSE, listing |-> 0, change |-> 0]

(* The constructor encodes the empty, incomplete listing.                  *)
Init ==
  /\ server = "off" /\ wifi = "off" /\ outages = 0
  /\ snapshot = 0 /\ dirty = FALSE /\ json = 0 /\ change = 0 /\ pending = FALSE
  /\ sem = 0 /\ clients = << >> /\ ppc = "idle"
  /\ wpc = "off" /\ frame = [listing |-> 0, change |-> 0] /\ todo = << >> /\ leaving = NoSock
  /\ hpc = "idle" /\ response = 0 /\ joining = NoSock /\ asked = 0
  /\ conn = [s \in Socks |-> Fresh("free")]
  /\ connections = 0 /\ gets = 0

---------------------------------------------------------------------------
(* start(), and what the network reports afterwards                        *)

(* startServer(): the worker starts even when the server does not.         *)
StartServer(ok) ==
  /\ server = "off"
  /\ server' = IF ok THEN "on" ELSE "failed"
  /\ wpc' = "wait"
  /\ UNCHANGED <<wifi, outages, dataVars, sem, clients, ppc, frame, todo, leaving, httpVars, conn>>

(* startAccessPoint(), startStation(): with no interface, no SSID or no    *)
(* DHCP server nothing is requested, and a refused request is only logged. *)
StartWifi(ok) ==
  /\ server # "off"
  /\ wifi = "off"
  /\ wifi' = IF ok THEN "requested" ELSE "dead"
  /\ UNCHANGED <<server, outages, dataVars, sem, clients, ppc, workerVars, httpVars, conn>>

(* onWifiEvent(): the AP is enabled or the station connected.  A failure   *)
(* is logged; the driver associates again on its own.                      *)
WifiUp ==
  /\ wifi = "requested"
  /\ wifi' = "up"
  /\ UNCHANGED <<server, outages, dataVars, sem, clients, ppc, workerVars, httpVars, conn>>

(* The link drops, which the firmware only logs; what that does to a       *)
(* client is Vanish or a failed send.                                      *)
WifiLost ==
  /\ wifi = "up"
  /\ outages < MaxOutages
  /\ outages' = outages + 1
  /\ wifi' = "requested"
  /\ UNCHANGED <<server, dataVars, sem, clients, ppc, workerVars, httpVars, conn>>

---------------------------------------------------------------------------
(* The publisher's side, on the session's heartbeat thread; Main calls     *)
(* start() before it registers the transport.                              *)

PublishCatalog ==
  /\ wifi # "off"
  /\ ppc = "idle"
  /\ snapshot < MaxListings
  /\ snapshot' = snapshot + 1
  /\ dirty' = TRUE
  /\ ppc' = "give"
  /\ UNCHANGED <<bringUpVars, json, change, pending, sem, clients, workerVars, httpVars, conn>>

PublishPresetChange ==
  /\ wifi # "off"
  /\ ppc = "idle"
  /\ change < MaxChanges
  /\ change' = change + 1
  /\ pending' = TRUE
  /\ ppc' = "give"
  /\ UNCHANGED <<bringUpVars, snapshot, dirty, json, sem, clients, workerVars, httpVars, conn>>

(* As with a semaphore that has no limit.                                  *)
WakeWorkerCounts ==
  /\ ppc = "give"
  /\ ppc' = "idle"
  /\ sem' = sem + 1
  /\ UNCHANGED <<bringUpVars, dataVars, clients, workerVars, httpVars, conn>>

(* k_sem_give(&broadcastSem_); a give at the limit is lost.                *)
WakeWorker ==
  /\ ppc = "give"
  /\ ppc' = "idle"
  /\ sem' = 1
  /\ UNCHANGED <<bringUpVars, dataVars, clients, workerVars, httpVars, conn>>

---------------------------------------------------------------------------
(* The HTTP server's single thread                                         *)

CanServe == server = "on" /\ wifi = "up"

GetArrives ==
  /\ CanServe
  /\ hpc = "idle"
  /\ gets < MaxGets
  /\ gets' = gets + 1
  /\ asked' = snapshot
  /\ hpc' = "asked"
  /\ UNCHANGED <<bringUpVars, dataVars, sem, clients, ppc, workerVars, response, joining,
                 connections, conn>>

(* encodeIfDirtyLocked()                                                   *)
EncodeIfDirty ==
  /\ json' = IF dirty THEN snapshot ELSE json
  /\ dirty' = FALSE

(* As it was before the smoke test: only the worker encodes.               *)
HandlePresetsGetAsIs ==
  /\ hpc = "asked"
  /\ response' = json
  /\ hpc' = "body"
  /\ UNCHANGED <<bringUpVars, dataVars, sem, clients, ppc, workerVars,
                 joining, asked, connections, gets, conn>>

(* As if the snapshot were copied when the request comes in, and encoded   *)
(* without dataMutex_.                                                     *)
HandlePresetsGetFromCopy ==
  /\ hpc = "asked"
  /\ json' = asked /\ dirty' = FALSE
  /\ response' = json'
  /\ hpc' = "body"
  /\ UNCHANGED <<bringUpVars, snapshot, change, pending, sem, clients, ppc, workerVars,
                 joining, asked, connections, gets, conn>>

(* handlePresetsGet(), under dataMutex_                                    *)
HandlePresetsGet ==
  /\ hpc = "asked"
  /\ EncodeIfDirty
  /\ response' = json'
  /\ hpc' = "body"
  /\ UNCHANGED <<bringUpVars, snapshot, change, pending, sem, clients, ppc, workerVars,
                 joining, asked, connections, gets, conn>>

(* Zephyr sends response_ctx->body after the handler has returned.         *)
BodySent ==
  /\ hpc = "body"
  /\ hpc' = "idle"
  /\ asked' = 0
  /\ UNCHANGED <<bringUpVars, dataVars, sem, clients, ppc, workerVars, response, joining,
                 connections, gets, conn>>

(* Zephyr accepts an upgrade while a WebSocket context is free, ...        *)
Upgrade(s) ==
  /\ CanServe
  /\ hpc = "idle"
  /\ connections < MaxConnections
  /\ conn[s].state = "free"
  /\ connections' = connections + 1
  /\ conn' = [conn EXCEPT ![s] = Fresh("open")]
  /\ joining' = s
  /\ hpc' = "setup"
  /\ UNCHANGED <<bringUpVars, dataVars, sem, clients, ppc, workerVars, response, asked, gets>>

(* ... and calls handleWsSetup(): addWsClient(), under dataMutex_, ...     *)
AddWsClient ==
  /\ hpc = "setup"
  /\ clients' = IF Len(clients) >= MaxClients THEN clients ELSE Append(clients, joining)
  /\ hpc' = "wake"
  /\ UNCHANGED <<bringUpVars, dataVars, sem, ppc, workerVars, response, joining, asked,
                 connections, gets, conn>>

(* As it was before the smoke test: the new client waits for a publish.    *)
RequestNoInitialSend ==
  /\ hpc = "wake"
  /\ hpc' = "idle"
  /\ joining' = NoSock
  /\ UNCHANGED <<bringUpVars, dataVars, sem, clients, ppc, workerVars, response, asked,
                 connections, gets, conn>>

(* ... then requestInitialSend().                                          *)
RequestInitialSend ==
  /\ hpc = "wake"
  /\ sem' = 1
  /\ hpc' = "idle"
  /\ joining' = NoSock
  /\ UNCHANGED <<bringUpVars, dataVars, clients, ppc, workerVars, response, asked,
                 connections, gets, conn>>

---------------------------------------------------------------------------
(* The worker: run(), broadcast() and pollWsClients()                      *)

workerUnchanged == <<bringUpVars, ppc, httpVars>>

(* k_sem_take(&broadcastSem_, K_MSEC(kPollIntervalMs)): woken, ...         *)
TakeWake ==
  /\ wpc = "wait"
  /\ sem = 1
  /\ sem' = 0
  /\ wpc' = "broadcast"
  /\ UNCHANGED <<workerUnchanged, dataVars, clients, frame, todo, leaving, conn>>

(* ... or not within the poll interval.                                    *)
PollIntervalOver ==
  /\ wpc = "wait"
  /\ sem = 0
  /\ wpc' = "list"
  /\ UNCHANGED <<workerUnchanged, dataVars, sem, clients, frame, todo, leaving, conn>>

(* broadcast(), under dataMutex_                                           *)
Broadcast ==
  /\ wpc = "broadcast"
  /\ EncodeIfDirty
  /\ frame' = [listing |-> json', change |-> IF pending THEN change ELSE 0]
  /\ pending' = FALSE
  /\ todo' = clients
  /\ wpc' = "send"
  /\ UNCHANGED <<workerUnchanged, snapshot, change, sem, clients, leaving, conn>>

(* std::find() and erase().                                                *)
Without(s) == RemoveFirst(clients, s)

(* As if the context were given back before the list is corrected.         *)
DropUnregistersFirst ==
  /\ leaving' = Head(todo)
  /\ conn' = [conn EXCEPT ![Head(todo)] = Fresh("free")]
  /\ clients' = clients

(* removeWsClient(), under dataMutex_; websocket_unregister() comes after. *)
Drop ==
  /\ leaving' = Head(todo)
  /\ clients' = Without(Head(todo))
  /\ conn' = conn

(* websocket_unregister() frees the context.                               *)
Unregister ==
  /\ leaving # NoSock
  /\ conn' = [conn EXCEPT ![leaving] = Fresh("free")]
  /\ leaving' = NoSock
  /\ UNCHANGED <<workerUnchanged, dataVars, sem, clients, wpc, frame, todo>>

Received(c) ==
  IF c.state # "open" THEN c
  ELSE [c EXCEPT !.listing = frame.listing, !.fed = TRUE,
                 !.change = IF frame.change > 0 THEN frame.change ELSE @]

(* websocket_send_msg() reports success, also to a client that is gone ... *)
Send ==
  /\ wpc = "send" /\ todo # << >> /\ leaving = NoSock
  /\ conn' = [conn EXCEPT ![Head(todo)] = Received(@)]
  /\ todo' = Tail(todo)
  /\ UNCHANGED <<workerUnchanged, dataVars, sem, clients, wpc, frame, leaving>>

(* ... or fails, as it does for a client that takes nothing for 2 seconds. *)
SendFails ==
  /\ wpc = "send" /\ todo # << >> /\ leaving = NoSock
  /\ Drop
  /\ todo' = Tail(todo)
  /\ UNCHANGED <<workerUnchanged, dataVars, sem, wpc, frame>>

EndBroadcast ==
  /\ wpc = "send" /\ todo = << >> /\ leaving = NoSock
  /\ wpc' = "list"
  /\ UNCHANGED <<workerUnchanged, dataVars, sem, clients, frame, todo, leaving, conn>>

(* pollWsClients(): the list is copied under dataMutex_, ...               *)
ListClients ==
  /\ wpc = "list"
  /\ todo' = clients
  /\ wpc' = "poll"
  /\ UNCHANGED <<workerUnchanged, dataVars, sem, clients, frame, leaving, conn>>

(* ... nothing, or a frame without consequence, is read, ...               *)
PollQuiet ==
  /\ wpc = "poll" /\ todo # << >> /\ leaving = NoSock
  /\ todo' = Tail(todo)
  /\ UNCHANGED <<workerUnchanged, dataVars, sem, clients, wpc, frame, leaving, conn>>

(* ... or an error or a close frame.                                       *)
PollGone ==
  /\ wpc = "poll" /\ todo # << >> /\ leaving = NoSock
  /\ conn[Head(todo)].state = "gone"
  /\ Drop
  /\ todo' = Tail(todo)
  /\ UNCHANGED <<workerUnchanged, dataVars, sem, wpc, frame>>

EndPoll ==
  /\ wpc = "poll" /\ todo = << >> /\ leaving = NoSock
  /\ wpc' = "wait"
  /\ UNCHANGED <<workerUnchanged, dataVars, sem, clients, frame, todo, leaving, conn>>

---------------------------------------------------------------------------
(* A page is closed, or its connection is lost.                            *)
Vanish(s) ==
  /\ conn[s].state = "open"
  /\ conn' = [conn EXCEPT ![s] = Fresh("gone")]
  /\ UNCHANGED <<bringUpVars, dataVars, sem, clients, ppc, workerVars, httpVars>>

BringUp == (\E ok \in BOOLEAN : StartServer(ok) \/ StartWifi(ok)) \/ WifiUp \/ WifiLost
Publisher == PublishCatalog \/ PublishPresetChange
Http == HandlePresetsGet \/ BodySent \/ AddWsClient \/ RequestInitialSend
Pages == GetArrives \/ (\E s \in Socks : Upgrade(s) \/ Vanish(s))
Worker == \/ TakeWake \/ PollIntervalOver \/ Broadcast \/ Send \/ SendFails \/ EndBroadcast
          \/ ListClients \/ PollQuiet \/ PollGone \/ EndPoll \/ Unregister

Next == BringUp \/ Publisher \/ WakeWorker \/ Http \/ Pages \/ Worker

SafeSpec == Init /\ [][Next]_vars

(* The threads run; nobody has to publish, to connect or to ask.           *)
Fairness == WF_vars(WakeWorker) /\ WF_vars(Http) /\ WF_vars(Worker)
Spec == SafeSpec /\ Fairness
---------------------------------------------------------------------------
(* Properties                                                              *)

Connection == [state : {"free", "open", "gone"}, fed : BOOLEAN, listing : Nat, change : Nat]

BringUpTypeOK ==
  /\ server \in {"off", "on", "failed"} /\ wifi \in {"off", "requested", "up", "dead"}
  /\ outages \in Nat
DataTypeOK ==
  /\ snapshot \in Nat /\ dirty \in BOOLEAN /\ json \in Nat /\ change \in Nat /\ pending \in BOOLEAN
  /\ sem \in 0 .. 1 /\ ppc \in {"idle", "give"}
ClientsTypeOK ==
  /\ clients \in Seq(Socks) /\ Len(clients) <= MaxClients
  /\ conn \in [Socks -> Connection]
WorkerTypeOK ==
  /\ wpc \in {"off", "wait", "broadcast", "send", "list", "poll"}
  /\ frame \in [listing : Nat, change : Nat]
  /\ todo \in Seq(Socks) /\ leaving \in Socks \cup {NoSock}
HttpTypeOK ==
  /\ hpc \in {"idle", "asked", "body", "setup", "wake"}
  /\ response \in Nat /\ joining \in Socks \cup {NoSock} /\ asked \in Nat
  /\ connections \in Nat /\ gets \in Nat

(* Every variable has its type; the semaphore stays within its limit and   *)
(* the list of clients within its capacity.                                *)
TypeOK == BringUpTypeOK /\ DataTypeOK /\ ClientsTypeOK /\ WorkerTypeOK /\ HttpTypeOK

(* "A GET can never serve a stale (or the startup placeholder) listing     *)
(* just because of thread ordering": what is served is at least what was   *)
(* published when the request came in, and the JSON is out of date only    *)
(* while it is marked so.                                                  *)
ServedIsCurrent ==
  /\ hpc = "body" => response >= asked
  /\ ~dirty => json = snapshot

(* Every connection that Zephyr accepts is a client: addWsClient() always  *)
(* finds room, no socket is listed twice, and none is listed, sent to or   *)
(* polled once its context is free for the next connection.                *)
Listed == Range(clients)
EveryUpgradeIsServed ==
  /\ hpc = "setup" => Len(clients) < MaxClients /\ joining \notin Listed
  /\ IsInjective(clients)
  /\ \A s \in Listed \cup Range(todo) : conn[s].state # "free"
  /\ \A s \in Socks :
       conn[s].state # "free" =>
         s \in Listed \/ s = leaving \/ (hpc = "setup" /\ s = joining)

(* What a client has been sent never goes back: two threads encode, and a  *)
(* frame is sent client by client without the lock, while others publish   *)
(* and ask; no push replaces a listing or a change by an older one.        *)
Open(s) == conn[s].state = "open"
GoesForward(s) ==
  Open(s) /\ Open(s)' => conn'[s].listing >= conn[s].listing /\ conn'[s].change >= conn[s].change
PushesGoForward == [][\A s \in Socks : GoesForward(s)]_vars

(* Every client is brought up to date: it gets the listing published last, *)
(* the first time although nothing is published any more, and the change   *)
(* that is published while it is listed - whatever the worker is in the    *)
(* middle of, and although the semaphore counts only to one.               *)
ClientsCatchUp ==
  \A s \in Socks :
    /\ \A v \in 0 .. MaxListings :
         (Open(s) /\ snapshot = v) ~> (Open(s) => conn[s].fed /\ conn[s].listing >= v)
    /\ \A k \in 1 .. MaxChanges :
         (Open(s) /\ s \in Listed /\ pending /\ change = k)
           ~> (Open(s) => conn[s].change >= k)
=============================================================================
