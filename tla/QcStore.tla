------------------------------ MODULE QcStore ------------------------------
(* The web client's store (store.js) and the board it talks to over a      *)
(* WebSocket (the mock board, one session per socket).  JavaScript runs a  *)
(* handler to its end, so each is one step; what interleaves is the        *)
(* browser's events, four timers, the network and the board.               *)
(*                                                                         *)
(* The state a message carries is a preset (a folder and an index) and the *)
(* catalog's generation.  Time is abstract: a timer that is set may fire,  *)
(* the liveness timer only when nothing comes any more.                    *)
EXTENDS Naturals, Sequences, FiniteSets

CONSTANTS Presets,      \* folder and index, counted from 1: 0 is the null of the code
          Impatient,    \* the page may be shown again while it connects
          MaxSockets, MaxFaults, MaxChanges, MaxLost, MaxTicks, MaxSwitches

ASSUME StoreAssumption ==
  /\ Presets # {} /\ Presets \subseteq (Nat \X (Nat \ {0}))
  /\ Impatient \in BOOLEAN
  /\ MaxSockets \in Nat \ {0} /\ MaxFaults \in Nat /\ MaxChanges \in Nat
  /\ MaxLost \in Nat /\ MaxTicks \in Nat /\ MaxSwitches \in Nat

Sockets == 1 .. MaxSockets
None == 0

VARIABLES
  \* the store:
  link,            \* #state.link
  view,            \* #state.current and #state.catalog
  pending,         \* #state.pending: an index, or None
  socket,          \* #socket, or None before connect()
  seq,             \* #seq, or None
  liveness,        \* #livenessTimer is set
  reconnect,       \* #reconnectTimer is set
  pendingTimer,    \* the preset #pendingTimer was set for, or NoPreset
  closed,          \* #closed
  \* the sockets and the board's sessions:
  sock,            \* readyState of each
  silent,          \* nothing gets through any more, and nobody is told
  toClient, toBoard,
  session,         \* state, seq and the switches under way of each session
  \* bounds and history:
  ticks, changes, dropped, faults, switches,
  heard            \* the board's state when it sent the latest message handled;
                   \* NoState before a snapshot, and from a gap to the next

storeVars == <<link, view, pending, socket, seq, liveness, reconnect, pendingTimer, closed>>
netVars == <<sock, silent, toClient, toBoard>>
boardVars == <<session, ticks, changes, dropped>>
historyVars == <<faults, switches, heard>>
vars == <<storeVars, netVars, boardVars, historyVars>>

NoPreset == <<None, None>>
NoState == [preset |-> NoPreset, catalog |-> 0]
NoSession == [state |-> NoState, seq |-> 0, switching |-> << >>]

Init ==
  /\ link = "offline" /\ view = NoState /\ pending = None /\ socket = None
  /\ seq = None /\ liveness = FALSE /\ reconnect = FALSE /\ pendingTimer = NoPreset
  /\ closed = FALSE
  /\ sock = [s \in Sockets |-> "none"]
  /\ silent = [s \in Sockets |-> FALSE]
  /\ toClient = [s \in Sockets |-> << >>]
  /\ toBoard = [s \in Sockets |-> << >>]
  /\ session = [s \in Sockets |-> NoSession]
  /\ ticks = 0 /\ changes = 0 /\ dropped = 0 /\ faults = 0 /\ switches = 0
  /\ heard = NoState

---------------------------------------------------------------------------
(* The store                                                               *)

(* #open(): a new socket; the one before is left to itself.                *)
Open ==
  /\ \E s \in Sockets : s = socket + 1
  /\ socket' = socket + 1
  /\ sock' = [sock EXCEPT ![socket + 1] = "connecting"]
  /\ link' = "connecting"

Connect ==
  /\ socket = None
  /\ Open
  /\ UNCHANGED <<view, pending, seq, liveness, reconnect, pendingTimer, closed, silent, toClient,
                 toBoard, boardVars, historyVars>>

(* As if the scheduled reconnect were left to fire as well.                *)
RetryNowKeepsTimer ==
  /\ socket # None
  /\ ~closed /\ link # "online"
  /\ Impatient \/ link # "connecting"
  /\ Open
  /\ UNCHANGED <<view, pending, seq, liveness, reconnect, pendingTimer, closed, silent, toClient,
                 toBoard, boardVars, historyVars>>

(* #retryNow(), when the page is shown or the network is back.             *)
RetryNow ==
  /\ socket # None
  /\ ~closed /\ link # "online"
  /\ Impatient \/ link # "connecting"
  /\ reconnect' = FALSE
  /\ Open
  /\ UNCHANGED <<view, pending, seq, liveness, pendingTimer, closed, silent, toClient, toBoard,
                 boardVars, historyVars>>

ReconnectFires ==
  /\ reconnect
  /\ reconnect' = FALSE
  /\ Open
  /\ UNCHANGED <<view, pending, seq, liveness, pendingTimer, closed, silent, toClient, toBoard,
                 boardVars, historyVars>>

(* socket.close(): no message is handled any more, onclose comes later.    *)
Closing(s) ==
  sock' = IF sock[s] \in {"connecting", "open"} THEN [sock EXCEPT ![s] = "closing"] ELSE sock

(* As if close() forgot the scheduled reconnect.                           *)
CloseKeepsTimer ==
  /\ socket # None /\ ~closed
  /\ closed' = TRUE
  /\ Closing(socket)
  /\ UNCHANGED <<link, view, pending, socket, seq, liveness, reconnect, pendingTimer, silent, toClient,
                 toBoard, boardVars, historyVars>>

Close ==
  /\ socket # None /\ ~closed
  /\ closed' = TRUE
  /\ reconnect' = FALSE
  /\ Closing(socket)
  /\ UNCHANGED <<link, view, pending, socket, seq, liveness, pendingTimer, silent, toClient, toBoard,
                 boardVars, historyVars>>

(* #armLiveness()'s timer.  A page that was asleep may find it due before  *)
(* the messages that came meanwhile, which counts as a fault.              *)
LivenessFires ==
  /\ liveness
  /\ \/ (\A s \in Sockets : sock[s] = "open" => silent[s]) /\ faults' = faults
     \/ faults < MaxFaults /\ faults' = faults + 1
  /\ liveness' = FALSE
  /\ Closing(socket)
  /\ UNCHANGED <<link, view, pending, socket, seq, reconnect, pendingTimer, closed, silent, toClient,
                 toBoard, boardVars, switches, heard>>

(* #send(): into the latest socket, if it is open.                         *)
Send(m) ==
  toBoard' = IF sock[socket] = "open" THEN [toBoard EXCEPT ![socket] = Append(@, m)] ELSE toBoard

SwitchPreset(p) ==
  /\ link = "online"
  /\ switches < MaxSwitches
  /\ switches' = switches + 1
  /\ Send([t |-> "switchPreset", preset |-> p])
  /\ pending' = p[2]
  /\ pendingTimer' = p
  /\ UNCHANGED <<link, view, socket, seq, liveness, reconnect, closed, sock, silent, toClient,
                 boardVars, faults, heard>>

(* As if the timer gave up on every switch but its own.                    *)
PendingTimerFiresForOthers ==
  /\ pendingTimer # NoPreset
  /\ pendingTimer' = NoPreset
  /\ pending' = IF pending # pendingTimer[2] THEN None ELSE pending
  /\ UNCHANGED <<link, view, socket, seq, liveness, reconnect, closed, netVars, boardVars,
                 historyVars>>

PendingTimerFires ==
  /\ pendingTimer # NoPreset
  /\ pendingTimer' = NoPreset
  /\ pending' = IF pending = pendingTimer[2] THEN None ELSE pending
  /\ UNCHANGED <<link, view, socket, seq, liveness, reconnect, closed, netVars, boardVars,
                 historyVars>>

(* As if a socket that closed were tried again only after it had opened.   *)
OnCloseGivesUp(s) ==
  /\ sock[s] \in {"connecting", "open", "closing"}
  /\ \/ sock[s] = "closing" /\ faults' = faults
     \/ sock[s] # "closing" /\ faults < MaxFaults /\ faults' = faults + 1
  /\ sock' = [sock EXCEPT ![s] = "closed"]
  /\ toClient' = [toClient EXCEPT ![s] = << >>]
  /\ toBoard' = [toBoard EXCEPT ![s] = << >>]
  /\ silent' = [silent EXCEPT ![s] = FALSE]
  /\ session' = [session EXCEPT ![s] = NoSession]
  /\ liveness' = FALSE
  /\ link' = "offline" /\ pending' = None
  /\ reconnect' = (reconnect \/ (~closed /\ link = "online"))
  /\ UNCHANGED <<view, socket, seq, pendingTimer, closed, ticks, changes, dropped, switches,
                 heard>>

(* onclose of any socket; the board ends its session.                      *)
OnClose(s) ==
  /\ sock[s] \in {"connecting", "open", "closing"}
  /\ \/ sock[s] = "closing" /\ faults' = faults
     \/ sock[s] # "closing" /\ faults < MaxFaults /\ faults' = faults + 1
  /\ sock' = [sock EXCEPT ![s] = "closed"]
  /\ toClient' = [toClient EXCEPT ![s] = << >>]
  /\ toBoard' = [toBoard EXCEPT ![s] = << >>]
  /\ silent' = [silent EXCEPT ![s] = FALSE]
  /\ session' = [session EXCEPT ![s] = NoSession]
  /\ liveness' = FALSE
  /\ link' = "offline" /\ pending' = None
  /\ reconnect' = (reconnect \/ ~closed)
  /\ UNCHANGED <<view, socket, seq, pendingTimer, closed, ticks, changes, dropped, switches,
                 heard>>

---------------------------------------------------------------------------
(* #handle()                                                               *)

(* As if only a number from the past were a gap.                           *)
IsGapMissed(m) == m.t # "snapshot" /\ seq # None /\ m.seq <= seq

(* #seq is null after a gap: whatever comes next is taken.                 *)
IsGap(m) == m.t # "snapshot" /\ seq # None /\ m.seq # seq + 1

(* The shallow merge of a snapshot, or of the section a patch carries.     *)
Merged(m) ==
  CASE m.t = "snapshot" -> m.state
    [] m.t = "current"  -> [view EXCEPT !.preset = m.state.preset]
    [] m.t = "catalog"  -> [view EXCEPT !.catalog = m.state.catalog]
    [] m.t = "tick"     -> view

(* The board has moved to the index that is pending.                       *)
Confirms(m) == m.t = "current" /\ pending # None /\ m.state.preset[2] = pending

(* As if a gap were only noted.                                            *)
OnGapIgnored ==
  /\ seq' = None /\ heard' = NoState
  /\ UNCHANGED <<view, pending, pendingTimer, toBoard>>

OnGap ==
  /\ seq' = None /\ heard' = NoState
  /\ Send([t |-> "resync", preset |-> NoPreset])
  /\ UNCHANGED <<view, pending, pendingTimer>>

OnInSequence(m) ==
  /\ seq' = m.seq
  /\ view' = Merged(m)
  /\ pending' = IF m.t = "snapshot" \/ Confirms(m) THEN None ELSE pending
  /\ pendingTimer' = IF Confirms(m) THEN NoPreset ELSE pendingTimer
  /\ heard' = IF m.t = "snapshot" \/ heard # NoState THEN m.state ELSE NoState
  /\ UNCHANGED toBoard

(* onmessage of any socket that is open.                                   *)
OnMessage(s) ==
  /\ sock[s] = "open" /\ ~silent[s]
  /\ toClient[s] # << >>
  /\ toClient' = [toClient EXCEPT ![s] = Tail(@)]
  /\ liveness' = TRUE
  /\ LET m == Head(toClient[s])
     IN \/ IsGap(m) /\ OnGap
        \/ ~IsGap(m) /\ OnInSequence(m)
  /\ UNCHANGED <<link, socket, reconnect, closed, sock, silent, boardVars, faults, switches>>

---------------------------------------------------------------------------
(* The board                                                               *)

(* As if a number were used up for nothing.                                *)
MessageSkips(t, s, state) == [t |-> t, seq |-> session[s].seq + 2, state |-> state]

Message(t, s, state) == [t |-> t, seq |-> session[s].seq + 1, state |-> state]

Alive(s) == sock[s] = "open" /\ ~silent[s]

(* The upgrade: startSession() sends a snapshot, and onopen runs.          *)
Upgrade(s) ==
  /\ sock[s] = "connecting"
  /\ sock' = [sock EXCEPT ![s] = "open"]
  /\ \E p \in Presets :
       LET state == [preset |-> p, catalog |-> 1]
       IN /\ session' = [session EXCEPT ![s] = [state |-> state, seq |-> 1, switching |-> << >>]]
          /\ toClient' = [toClient EXCEPT ![s] = <<Message("snapshot", s, state)>>]
  /\ seq' = None /\ heard' = NoState
  /\ link' = "online" /\ liveness' = TRUE
  /\ UNCHANGED <<view, pending, socket, reconnect, pendingTimer, closed, silent, toBoard, ticks, changes,
                 dropped, faults, switches>>

(* sendPatch(): the number is used up although the patch may be lost; the  *)
(* bound on ticks leaves one to come after the loss.                       *)
SendPatch(s, t, state, rest) ==
  /\ session' = [session EXCEPT ![s] = [state |-> state, seq |-> @.seq + 1, switching |-> rest]]
  /\ \/ /\ toClient' = [toClient EXCEPT ![s] = Append(@, Message(t, s, state))]
        /\ dropped' = dropped
     \/ /\ dropped < MaxLost /\ ticks < MaxTicks
        /\ dropped' = dropped + 1
        /\ toClient' = toClient

boardRest == <<storeVars, sock, silent, historyVars>>

(* What the board pushes on its own: a footswitch, a new listing.          *)
BoardChanges(s) ==
  /\ Alive(s)
  /\ changes < MaxChanges
  /\ changes' = changes + 1
  /\ LET now == session[s].state
     IN \/ \E p \in Presets : SendPatch(s, "current", [now EXCEPT !.preset = p], session[s].switching)
        \/ SendPatch(s, "catalog", [now EXCEPT !.catalog = @ + 1], session[s].switching)
  /\ UNCHANGED <<boardRest, toBoard, ticks>>

(* setInterval's tick.                                                     *)
Tick(s) ==
  /\ Alive(s)
  /\ ticks < MaxTicks
  /\ ticks' = ticks + 1
  /\ session' = [session EXCEPT ![s].seq = @ + 1]
  /\ toClient' = [toClient EXCEPT ![s] = Append(@, Message("tick", s, session[s].state))]
  /\ UNCHANGED <<boardRest, toBoard, changes, dropped>>

(* handleClientMessage(): a switch takes its time, a resync is answered.   *)
BoardReceives(s) ==
  /\ Alive(s)
  /\ toBoard[s] # << >>
  /\ toBoard' = [toBoard EXCEPT ![s] = Tail(@)]
  /\ LET m == Head(toBoard[s])
     IN IF m.t = "resync"
        THEN /\ session' = [session EXCEPT ![s].seq = @ + 1]
             /\ toClient' = [toClient EXCEPT ![s] =
                               Append(@, Message("snapshot", s, session[s].state))]
        ELSE /\ session' = [session EXCEPT ![s].switching = Append(@, m.preset)]
             /\ toClient' = toClient
  /\ UNCHANGED <<boardRest, ticks, changes, dropped>>

SwitchDone(s) ==
  /\ Alive(s)
  /\ session[s].switching # << >>
  /\ SendPatch(s, "current", [session[s].state EXCEPT !.preset = Head(session[s].switching)],
               Tail(session[s].switching))
  /\ UNCHANGED <<boardRest, toBoard, ticks, changes>>

(* The network: a connection that dies without a FIN.                      *)
GoSilent(s) ==
  /\ Alive(s)
  /\ faults < MaxFaults
  /\ faults' = faults + 1
  /\ silent' = [silent EXCEPT ![s] = TRUE]
  /\ UNCHANGED <<storeVars, sock, toClient, toBoard, boardVars, switches, heard>>

---------------------------------------------------------------------------
Page == Connect \/ RetryNow \/ Close \/ \E p \in Presets : SwitchPreset(p)
Timers == ReconnectFires \/ LivenessFires \/ PendingTimerFires
Socket(s) == Upgrade(s) \/ OnMessage(s) \/ OnClose(s) \/ GoSilent(s)
Board(s) == BoardChanges(s) \/ Tick(s) \/ BoardReceives(s) \/ SwitchDone(s)

Next == Page \/ Timers \/ \E s \in Sockets : Socket(s) \/ Board(s)

SafeSpec == Init /\ [][Next]_vars

(* Timers fire, an attempt to connect or to close ends, messages arrive.   *)
(* Nothing obliges the board to carry out a switch.                        *)
Spec ==
  /\ SafeSpec
  /\ WF_vars(Connect) /\ WF_vars(ReconnectFires) /\ WF_vars(LivenessFires) /\ WF_vars(PendingTimerFires)
  /\ \A s \in Sockets :
       /\ WF_vars(Upgrade(s)) /\ WF_vars(OnMessage(s)) /\ WF_vars(OnClose(s) /\ sock[s] = "closing")
       /\ WF_vars(Tick(s)) /\ WF_vars(BoardReceives(s))

---------------------------------------------------------------------------
State == [preset : Presets \cup {NoPreset}, catalog : Nat]
Indices == {p[2] : p \in Presets} \cup {None}

(* Types.                                                                  *)
TypeOK ==
  /\ link \in {"offline", "connecting", "online"}
  /\ view \in State /\ heard \in State
  /\ pending \in Indices /\ pendingTimer \in Presets \cup {NoPreset}
  /\ socket \in 0 .. MaxSockets /\ seq \in Nat
  /\ liveness \in BOOLEAN /\ reconnect \in BOOLEAN /\ closed \in BOOLEAN
  /\ \A s \in Sockets :
       /\ sock[s] \in {"none", "connecting", "open", "closing", "closed"}
       /\ session[s].state \in State /\ session[s].seq \in Nat
       /\ \A i \in DOMAIN toClient[s] : toClient[s][i].seq <= session[s].seq

Live(s) == sock[s] \in {"connecting", "open"}

(* "One store means one connection": no two sockets of the page are        *)
(* connecting or open.                                                     *)
OneLiveSocket == \A s, t \in Sockets : Live(s) /\ Live(t) => s = t

(* The link shown is that of the latest socket: offline means no socket is *)
(* left that could still change the state, online that it was opened.      *)
LinkTellsTruth ==
  /\ link = "offline" => \A s \in Sockets : ~Live(s)
  /\ link = "connecting" => sock[socket] \in {"connecting", "closing"}
  /\ link = "online" => sock[socket] \in {"open", "closing"}

(* What is shown, between a snapshot and the next gap noticed, is exactly  *)
(* what the board's state was when it sent the latest message: no lost     *)
(* patch goes unnoticed.                                                   *)
NoUnnoticedLoss == heard # NoState => view = heard

(* A switch that is pending has a timer that will end it; a timer left by  *)
(* an earlier switch ends no other.                                        *)
PendingIsTimed == pending # None => pendingTimer[2] = pending

(* A store that was closed opens no other connection.                      *)
ClosedForGood == [][closed => socket' = socket]_vars

(* No switch is pending for ever.                                          *)
PendingEnds == pending # None ~> pending = None

(* A page that is not closed comes back online, or stays so.               *)
Recovers == []<>(closed \/ (link = "online" /\ sock[socket] = "open"))

(* On a connection that lasts, the page comes to show the board's state    *)
(* and keeps to it, although patches are lost on the way.                  *)
Lasting(s) == socket = s /\ sock[s] = "open" /\ ~silent[s]
ComesInStep ==
  \A s \in Sockets : <>[]Lasting(s) => <>[](view = session[s].state)
=============================================================================
