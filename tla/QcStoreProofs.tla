--------------------------- MODULE QcStoreProofs ---------------------------
(* Theorems about QcStore, for every number of sockets, faults, losses and *)
(* switches: one live connection, a link that tells the truth, nothing     *)
(* opened after close(), a timer for every pending switch, and no loss     *)
(* that goes unnoticed.                                                    *)
EXTENDS QcStore, SequenceTheorems, TLAPS

Phases == {"none", "connecting", "open", "closing", "closed"}

(* The sockets are used one after the other: all before the latest are     *)
(* closed, none after it was made.                                         *)
OneAfterAnother ==
  /\ socket \in 0 .. MaxSockets
  /\ sock \in [Sockets -> Phases]
  /\ \A s \in Sockets : s > socket => sock[s] = "none"
  /\ \A s \in Sockets : s < socket => sock[s] = "closed"

(* The link follows the latest socket, and a reconnect is scheduled only   *)
(* while it is offline and the store is not closed.                        *)
LinkFollows ==
  /\ link \in {"offline", "connecting", "online"}
  /\ link = "offline" => (socket = None \/ sock[socket] = "closed")
  /\ link # "offline" => socket # None
  /\ link = "connecting" => sock[socket] \in {"connecting", "closing"}
  /\ link = "online" => sock[socket] \in {"open", "closing"}
  /\ reconnect => (link = "offline" /\ socket # None /\ ~closed)
  /\ closed => socket # None

SocketInv == OneAfterAnother /\ LinkFollows

(* Open makes the next socket; the latest before it must be closed.        *)
LEMMA OpenKeeps ==
  ASSUME SocketInv, Open, link = "offline", UNCHANGED closed, ~closed, reconnect' = FALSE
  PROVE  SocketInv'
<1>1. socket' = socket + 1 /\ socket + 1 \in Sockets /\ socket' \in 0 .. MaxSockets
  BY StoreAssumption DEF Open, SocketInv, OneAfterAnother, Sockets
<1>2. sock' = [sock EXCEPT ![socket + 1] = "connecting"] /\ link' = "connecting"
  BY DEF Open
<1>3. OneAfterAnother'
  BY <1>1, <1>2, StoreAssumption DEF SocketInv, OneAfterAnother, LinkFollows, Sockets, Phases, None
<1>4. LinkFollows'
  BY <1>1, <1>2, StoreAssumption DEF SocketInv, OneAfterAnother, LinkFollows, Sockets, Phases, None
<1> QED  BY <1>3, <1>4 DEF SocketInv

(* A socket leaves "none" only to connect, so no step but Open touches one *)
(* that is not the latest.                                                 *)
LEMMA InUseIsLatest ==
  ASSUME SocketInv, NEW s \in Sockets, sock[s] \in {"connecting", "open", "closing"}
  PROVE  s = socket
BY StoreAssumption DEF SocketInv, OneAfterAnother, Sockets

(* The page starts without a socket.                                       *)
LEMMA InitSockets == Init => SocketInv
BY StoreAssumption DEF Init, SocketInv, OneAfterAnother, LinkFollows, Sockets, Phases, None

(* Every step keeps the sockets in their order.                            *)
LEMMA StepSockets ==
  ASSUME ~Impatient, SocketInv, [Next]_vars
  PROVE  SocketInv'
<1> USE StoreAssumption
<1>1. CASE Connect
  <2>1. Open /\ link = "offline" /\ UNCHANGED closed /\ ~closed /\ reconnect' = FALSE
    BY <1>1 DEF Connect, SocketInv, LinkFollows
  <2> QED  BY <2>1, OpenKeeps
<1>2. CASE RetryNow
  <2>1. Open /\ link = "offline" /\ UNCHANGED closed /\ ~closed /\ reconnect' = FALSE
    BY <1>2 DEF RetryNow, SocketInv, LinkFollows
  <2> QED  BY <2>1, OpenKeeps
<1>3. CASE ReconnectFires
  <2>1. Open /\ link = "offline" /\ UNCHANGED closed /\ ~closed /\ reconnect' = FALSE
    BY <1>3 DEF ReconnectFires, SocketInv, LinkFollows
  <2> QED  BY <2>1, OpenKeeps
<1>4. CASE Close
  BY <1>4 DEF Close, Closing, SocketInv, OneAfterAnother, LinkFollows, Sockets, Phases, None
<1>5. CASE LivenessFires
  <2>1. CASE socket = None
    BY <1>5, <2>1 DEF LivenessFires, Closing, SocketInv, OneAfterAnother, LinkFollows, Sockets, Phases, None
  <2>2. CASE socket # None
    BY <1>5, <2>2 DEF LivenessFires, Closing, SocketInv, OneAfterAnother, LinkFollows, Sockets, Phases, None
  <2> QED  BY <2>1, <2>2
<1>6. CASE PendingTimerFires
  BY <1>6 DEF PendingTimerFires, netVars, SocketInv, OneAfterAnother, LinkFollows
<1>7. ASSUME NEW p \in Presets, SwitchPreset(p) PROVE SocketInv'
  BY <1>7 DEF SwitchPreset, SocketInv, OneAfterAnother, LinkFollows
<1>8. ASSUME NEW s \in Sockets, Upgrade(s) PROVE SocketInv'
  <2>1. s = socket  BY <1>8, InUseIsLatest DEF Upgrade
  <2>2. sock' = [sock EXCEPT ![s] = "open"] /\ link' = "online" /\ UNCHANGED <<socket, reconnect, closed>>
    BY <1>8 DEF Upgrade
  <2>3. sock[s] = "connecting"  BY <1>8 DEF Upgrade
  <2> QED  BY <2>1, <2>2, <2>3 DEF SocketInv, OneAfterAnother, LinkFollows, Sockets, Phases, None
<1>9. ASSUME NEW s \in Sockets, OnMessage(s) PROVE SocketInv'
  BY <1>9 DEF OnMessage, SocketInv, OneAfterAnother, LinkFollows
<1>10. ASSUME NEW s \in Sockets, OnClose(s) PROVE SocketInv'
  <2>1. s = socket  BY <1>10, InUseIsLatest DEF OnClose
  <2>2. /\ sock' = [sock EXCEPT ![s] = "closed"] /\ link' = "offline"
        /\ reconnect' = (reconnect \/ ~closed) /\ UNCHANGED <<socket, closed>>
    BY <1>10 DEF OnClose
  <2> QED  BY <2>1, <2>2 DEF SocketInv, OneAfterAnother, LinkFollows, Sockets, Phases, None
<1>11. ASSUME NEW s \in Sockets, GoSilent(s) PROVE SocketInv'
  BY <1>11 DEF GoSilent, storeVars, SocketInv, OneAfterAnother, LinkFollows
<1>12. ASSUME NEW s \in Sockets, Board(s) PROVE SocketInv'
  BY <1>12 DEF Board, BoardChanges, Tick, BoardReceives, SwitchDone, boardRest, storeVars, SocketInv,
               OneAfterAnother, LinkFollows
<1>13. CASE UNCHANGED vars
  BY <1>13 DEF vars, storeVars, netVars, SocketInv, OneAfterAnother, LinkFollows
<1> QED  BY <1>1, <1>2, <1>3, <1>4, <1>5, <1>6, <1>7, <1>8, <1>9, <1>10, <1>11, <1>12, <1>13
         DEF Next, Page, Timers, Socket

(* While the page is not shown again as it connects, the sockets follow    *)
(* one another (Open, onclose and the timers of store.js).                 *)
LEMMA SocketsFollow == ASSUME ~Impatient PROVE SafeSpec => []SocketInv
<1>1. SocketInv /\ [Next]_vars => SocketInv'  BY StepSockets
<1> QED  BY <1>1, InitSockets, PTL DEF SafeSpec

(* "One store means one connection" (store.js:7), for any number of faults *)
(* and attempts, of a page that is not shown again while it connects.      *)
THEOREM OneConnection == ASSUME ~Impatient PROVE SafeSpec => []OneLiveSocket
<1>1. SocketInv => OneLiveSocket
  <2> SUFFICES ASSUME SocketInv, NEW s \in Sockets, NEW t \in Sockets, Live(s), Live(t) PROVE s = t
    BY DEF OneLiveSocket
  <2> QED  BY InUseIsLatest DEF Live
<1> QED  BY <1>1, SocketsFollow, PTL

(* The link the page shows is that of its latest socket, and offline means *)
(* that no socket is left which could still change the state.              *)
THEOREM LinkIsTrue == ASSUME ~Impatient PROVE SafeSpec => []LinkTellsTruth
<1>1. SocketInv => LinkTellsTruth
  <2> SUFFICES ASSUME SocketInv PROVE LinkTellsTruth
    OBVIOUS
  <2>1. ASSUME link = "offline", NEW s \in Sockets, Live(s) PROVE FALSE
    <3>1. s = socket  BY <2>1, InUseIsLatest DEF Live
    <3> QED  BY <2>1, <3>1, StoreAssumption DEF Live, SocketInv, LinkFollows, Sockets, None
  <2> QED  BY <2>1 DEF LinkTellsTruth, SocketInv, LinkFollows
<1> QED  BY <1>1, SocketsFollow, PTL

(* A store that was closed opens no other connection: close() clears the   *)
(* timer, and no onclose after it sets another.                            *)
THEOREM StaysClosed == ASSUME ~Impatient PROVE SafeSpec => ClosedForGood
<1>1. SocketInv /\ [Next]_vars => [closed => socket' = socket]_vars
  <2> SUFFICES ASSUME SocketInv, Next, closed PROVE socket' = socket
    OBVIOUS
  <2>1. ~Connect /\ ~RetryNow /\ ~ReconnectFires
    BY DEF SocketInv, LinkFollows, Connect, RetryNow, ReconnectFires
  <2>2. CASE Close \/ LivenessFires \/ PendingTimerFires \/ \E p \in Presets : SwitchPreset(p)
    BY <2>2 DEF Close, LivenessFires, PendingTimerFires, SwitchPreset
  <2>3. ASSUME NEW s \in Sockets, Socket(s) PROVE socket' = socket
    BY <2>3 DEF Socket, Upgrade, OnMessage, OnClose, GoSilent, storeVars
  <2>4. ASSUME NEW s \in Sockets, Board(s) PROVE socket' = socket
    BY <2>4 DEF Board, BoardChanges, Tick, BoardReceives, SwitchDone, boardRest, storeVars
  <2> QED  BY <2>1, <2>2, <2>3, <2>4 DEF Next, Page, Timers
<1> QED  BY <1>1, SocketsFollow, PTL DEF SafeSpec, ClosedForGood

(* Every pending switch has the timer that will end it, whatever timers of *)
(* earlier switches, confirmations and disconnects there were.             *)
THEOREM PendingHasTimer == SafeSpec => []PendingIsTimed
<1>1. Init => PendingIsTimed
  BY DEF Init, PendingIsTimed
<1>2. PendingIsTimed /\ [Next]_vars => PendingIsTimed'
  <2> SUFFICES ASSUME PendingIsTimed, [Next]_vars PROVE PendingIsTimed'
    OBVIOUS
  <2>1. CASE Connect \/ RetryNow \/ ReconnectFires \/ Close \/ LivenessFires
    BY <2>1 DEF Connect, RetryNow, ReconnectFires, Close, LivenessFires, PendingIsTimed
  <2>2. CASE PendingTimerFires
    BY <2>2 DEF PendingTimerFires, PendingIsTimed
  <2>3. ASSUME NEW p \in Presets, SwitchPreset(p) PROVE PendingIsTimed'
    BY <2>3 DEF SwitchPreset, PendingIsTimed
  <2>4. ASSUME NEW s \in Sockets, OnMessage(s) PROVE PendingIsTimed'
    <3>1. CASE UNCHANGED <<pending, pendingTimer>>
      BY <3>1 DEF PendingIsTimed
    <3>2. CASE \E m \in {Head(toClient[s])} : OnInSequence(m)
      BY <3>2 DEF OnInSequence, PendingIsTimed
    <3> QED  BY <2>4, <3>1, <3>2 DEF OnMessage, OnGap
  <2>5. ASSUME NEW s \in Sockets, Upgrade(s) \/ OnClose(s) \/ GoSilent(s) PROVE PendingIsTimed'
    BY <2>5 DEF Upgrade, OnClose, GoSilent, storeVars, PendingIsTimed
  <2>6. ASSUME NEW s \in Sockets, Board(s) PROVE PendingIsTimed'
    BY <2>6 DEF Board, BoardChanges, Tick, BoardReceives, SwitchDone, boardRest, storeVars, PendingIsTimed
  <2>7. CASE UNCHANGED vars
    BY <2>7 DEF vars, storeVars, PendingIsTimed
  <2> QED  BY <2>1, <2>2, <2>3, <2>4, <2>5, <2>6, <2>7 DEF Next, Page, Timers, Socket
<1> QED  BY <1>1, <1>2, PTL DEF SafeSpec

---------------------------------------------------------------------------
(* Types, and what the messages of a connection say of the board           *)

Session == [state : State, seq : Nat, switching : Seq(Presets \cup {NoPreset})]
BoardMessage == [t : {"snapshot", "current", "catalog", "tick"}, seq : Nat \ {0}, state : State]
PageMessage == [t : {"resync", "switchPreset"}, preset : Presets \cup {NoPreset}]

PageTypeOK ==
  /\ link \in {"offline", "connecting", "online"}
  /\ pending \in Indices /\ pendingTimer \in Presets \cup {NoPreset}
  /\ socket \in 0 .. MaxSockets
FlagTypeOK == liveness \in BOOLEAN /\ reconnect \in BOOLEAN /\ closed \in BOOLEAN
ShownTypeOK == view \in State /\ heard \in State /\ seq \in Nat
NetTypeOK == sock \in [Sockets -> Phases] /\ toBoard \in [Sockets -> Seq(PageMessage)]
SentTypeOK == session \in [Sockets -> Session] /\ toClient \in [Sockets -> Seq(BoardMessage)]

(* A message changes the state it was sent after only where it says so.    *)
Extends(was, m) ==
  /\ m.t = "current" => m.state = [was EXCEPT !.preset = m.state.preset]
  /\ m.t = "catalog" => m.state = [was EXCEPT !.catalog = m.state.catalog]
  /\ m.t = "tick" => m.state = was

(* What comes after a carries a later number, and extends a when it is the *)
(* next one.                                                               *)
Continues(a, m) == a.seq < m.seq /\ (m.seq = a.seq + 1 => Extends(a.state, m))

(* The board b has not gone past a unless it has used numbers up since.    *)
Reaches(a, b) == a.seq <= b.seq /\ (a.seq = b.seq => a.state = b.state)

(* The messages on their way to the page: they came from this board, in    *)
(* this order, and only the lost ones are missing.                         *)
InOrder(s) ==
  /\ \A i, j \in DOMAIN toClient[s] : i < j => Continues(toClient[s][i], toClient[s][j])
  /\ \A i \in DOMAIN toClient[s] : Reaches(toClient[s][i], session[s])

SentInv == SentTypeOK /\ \A s \in Sockets : InOrder(s)

(* What the board does to a session, seen from the page: nothing, a number *)
(* used up for a patch that is lost, or the next message.                  *)
Sends(s) ==
  \E b \in Session :
    /\ session' = [session EXCEPT ![s] = b]
    /\ \/ /\ toClient' = toClient
          /\ b.seq = session[s].seq => b.state = session[s].state
          /\ b.seq \in {session[s].seq, session[s].seq + 1}
       \/ \E m \in BoardMessage :
            /\ toClient' = [toClient EXCEPT ![s] = Append(toClient[s], m)]
            /\ b.seq = session[s].seq + 1 /\ m.seq = b.seq /\ m.state = b.state
            /\ Extends(session[s].state, m)

(* A patch carries one section of the state it leaves behind.              *)
LEMMA PatchSends ==
  ASSUME SentTypeOK, NEW s \in Sockets, NEW t \in {"current", "catalog"}, NEW state \in State,
         NEW rest \in Seq(Presets \cup {NoPreset}), SendPatch(s, t, state, rest),
         t = "current" => state = [session[s].state EXCEPT !.preset = state.preset],
         t = "catalog" => state = [session[s].state EXCEPT !.catalog = state.catalog]
  PROVE  Sends(s)
<1> DEFINE b == [state |-> state, seq |-> session[s].seq + 1, switching |-> rest]
           m == Message(t, s, state)
<1>1. session[s] \in Session
  BY DEF SentTypeOK
<1>2. b \in Session /\ b.seq = session[s].seq + 1 /\ b.state = state /\ b.seq # session[s].seq
  BY <1>1 DEF Session
<1>3. m \in BoardMessage /\ m.seq = b.seq /\ m.state = state /\ m.t = t
  BY <1>1 DEF Session, BoardMessage, Message
<1>4. session' = [session EXCEPT ![s] = b]
  BY DEF SendPatch
<1>5. toClient' = toClient \/ toClient' = [toClient EXCEPT ![s] = Append(toClient[s], m)]
  BY DEF SendPatch
<1> HIDE DEF b, m
<1>6. Extends(session[s].state, m)
  BY <1>3 DEF Extends
<1> QED
  BY <1>2, <1>3, <1>4, <1>5, <1>6 DEF Sends

(* Whatever the board does is one of these.                                *)
LEMMA BoardSends ==
  ASSUME SentTypeOK, NetTypeOK, NEW s \in Sockets, Board(s)
  PROVE  Sends(s) /\ UNCHANGED <<storeVars, sock, historyVars>> /\ toBoard' \in [Sockets -> Seq(PageMessage)]
<1> DEFINE now == session[s].state
<1>1. session[s] \in Session /\ now \in State /\ session[s].seq \in Nat
      /\ session[s].switching \in Seq(Presets \cup {NoPreset})
  BY DEF SentTypeOK, Session
<1>2. UNCHANGED <<storeVars, sock, historyVars>>
  BY DEF Board, BoardChanges, Tick, BoardReceives, SwitchDone, boardRest
<1>3. toBoard' \in [Sockets -> Seq(PageMessage)]
  <2>1. CASE BoardReceives(s)
    <3>1. toBoard' = [toBoard EXCEPT ![s] = Tail(toBoard[s])] /\ toBoard[s] # << >>
      BY <2>1 DEF BoardReceives
    <3>2. Tail(toBoard[s]) \in Seq(PageMessage)
      BY <3>1, HeadTailProperties DEF NetTypeOK
    <3> QED
      BY <3>1, <3>2 DEF NetTypeOK
  <2>2. CASE ~BoardReceives(s)
    BY <2>2 DEF Board, BoardChanges, Tick, SwitchDone, NetTypeOK
  <2> QED
    BY <2>1, <2>2
<1>4. Sends(s)
  <2>1. CASE BoardChanges(s)
    <3>1. CASE \E p \in Presets : SendPatch(s, "current", [now EXCEPT !.preset = p], session[s].switching)
      <4>1. PICK p \in Presets : SendPatch(s, "current", [now EXCEPT !.preset = p], session[s].switching)
        BY <3>1
      <4> DEFINE state == [now EXCEPT !.preset = p]
      <4>2. state \in State /\ state = [now EXCEPT !.preset = state.preset]
        BY <1>1 DEF State
      <4> QED
        BY <1>1, <4>1, <4>2, PatchSends
    <3>2. CASE SendPatch(s, "catalog", [now EXCEPT !.catalog = @ + 1], session[s].switching)
      <4> DEFINE state == [now EXCEPT !.catalog = @ + 1]
      <4>1. state \in State /\ state = [now EXCEPT !.catalog = state.catalog]
        BY <1>1 DEF State
      <4> QED
        BY <1>1, <3>2, <4>1, PatchSends
    <3> QED
      BY <2>1, <3>1, <3>2 DEF BoardChanges
  <2>2. CASE SwitchDone(s)
    <3> DEFINE p == Head(session[s].switching)
               state == [now EXCEPT !.preset = p]
    <3>1. p \in Presets \cup {NoPreset} /\ Tail(session[s].switching) \in Seq(Presets \cup {NoPreset})
      BY <1>1, <2>2, HeadTailProperties DEF SwitchDone
    <3>2. state \in State /\ state = [now EXCEPT !.preset = state.preset]
      BY <1>1, <3>1 DEF State
    <3> QED
      BY <1>1, <2>2, <3>1, <3>2, PatchSends DEF SwitchDone
  <2>3. CASE Tick(s)
    <3> DEFINE b == [session[s] EXCEPT !.seq = @ + 1]
               m == Message("tick", s, now)
    <3>1. b \in Session /\ b.seq = session[s].seq + 1 /\ b.state = now
      BY <1>1 DEF Session
    <3>2. m \in BoardMessage /\ m.seq = b.seq /\ m.state = b.state /\ m.t = "tick"
      BY <1>1, <3>1 DEF BoardMessage, Message
    <3>3. session' = [session EXCEPT ![s] = b] /\ toClient' = [toClient EXCEPT ![s] = Append(toClient[s], m)]
      BY <2>3 DEF Tick
    <3> HIDE DEF b, m
    <3>4. Extends(session[s].state, m)
      BY <3>1, <3>2 DEF Extends
    <3> QED
      BY <3>1, <3>2, <3>3, <3>4 DEF Sends
  <2>4. CASE BoardReceives(s)
    <3>1. Head(toBoard[s]) \in PageMessage
      BY <2>4, HeadTailProperties DEF BoardReceives, NetTypeOK
    <3>2. CASE Head(toBoard[s]).t = "resync"
      <4> DEFINE b == [session[s] EXCEPT !.seq = @ + 1]
                 m == Message("snapshot", s, now)
      <4>1. b \in Session /\ b.seq = session[s].seq + 1 /\ b.state = now
        BY <1>1 DEF Session
      <4>2. m \in BoardMessage /\ m.seq = b.seq /\ m.state = b.state /\ m.t = "snapshot"
        BY <1>1, <4>1 DEF BoardMessage, Message
      <4>3. session' = [session EXCEPT ![s] = b] /\ toClient' = [toClient EXCEPT ![s] = Append(toClient[s], m)]
        BY <2>4, <3>2 DEF BoardReceives
      <4> HIDE DEF b, m
      <4>4. Extends(session[s].state, m)
        BY <4>2 DEF Extends
      <4> QED
        BY <4>1, <4>2, <4>3, <4>4 DEF Sends
    <3>3. CASE Head(toBoard[s]).t # "resync"
      <4> DEFINE b == [session[s] EXCEPT !.switching = Append(@, Head(toBoard[s]).preset)]
      <4>1. Head(toBoard[s]).preset \in Presets \cup {NoPreset}
        BY <3>1 DEF PageMessage
      <4>2. b \in Session /\ b.seq = session[s].seq /\ b.state = now
        <5>1. PICK q : q = Append(session[s].switching, Head(toBoard[s]).preset)
          OBVIOUS
        <5>2. q \in Seq(Presets \cup {NoPreset})
          BY <1>1, <4>1, <5>1, AppendProperties
        <5>3. b = [session[s] EXCEPT !.switching = q]
          BY <5>1
        <5> QED
          BY <1>1, <5>2, <5>3 DEF Session
      <4>3. session' = [session EXCEPT ![s] = b] /\ toClient' = toClient
        BY <2>4, <3>3 DEF BoardReceives
      <4> HIDE DEF b
      <4> QED
        BY <4>2, <4>3 DEF Sends
    <3> QED
      BY <3>2, <3>3
  <2> QED
    BY <2>1, <2>2, <2>3, <2>4 DEF Board
<1> QED
  BY <1>2, <1>3, <1>4

(* The next message keeps the order, and so does a number used up.         *)
LEMMA SendsKeep ==
  ASSUME SentInv, NEW s \in Sockets, Sends(s)
  PROVE  SentInv'
<1> DEFINE q == toClient[s]
<1>1. q \in Seq(BoardMessage) /\ session[s] \in Session /\ InOrder(s) /\ SentTypeOK
  BY DEF SentInv, SentTypeOK
<1>2. PICK b \in Session :
        /\ session' = [session EXCEPT ![s] = b]
        /\ \/ /\ toClient' = toClient
              /\ b.seq = session[s].seq => b.state = session[s].state
              /\ b.seq \in {session[s].seq, session[s].seq + 1}
           \/ \E m \in BoardMessage :
                /\ toClient' = [toClient EXCEPT ![s] = Append(toClient[s], m)]
                /\ b.seq = session[s].seq + 1 /\ m.seq = b.seq /\ m.state = b.state
                /\ Extends(session[s].state, m)
  BY DEF Sends
<1>3. session' \in [Sockets -> Session] /\ session'[s] = b /\ \A x \in Sockets \ {s} : session'[x] = session[x]
  BY <1>2 DEF SentTypeOK, SentInv
<1>4. b.seq \in Nat /\ session[s].seq \in Nat /\ \A i \in DOMAIN q : q[i] \in BoardMessage /\ q[i].seq \in Nat
  <2>1. \A i \in DOMAIN q : q[i] \in BoardMessage
    BY <1>1, LenProperties, ElementOfSeq
  <2> QED
    BY <1>1, <2>1 DEF Session, BoardMessage
<1>5. CASE /\ toClient' = toClient
           /\ b.seq = session[s].seq => b.state = session[s].state
           /\ b.seq \in {session[s].seq, session[s].seq + 1}
  <2>1. \A i \in DOMAIN q : Reaches(q[i], b)
    BY <1>1, <1>4, <1>5 DEF InOrder, Reaches
  <2>2. ASSUME NEW x \in Sockets PROVE InOrder(x)'
    <3>1. CASE x = s
      BY <1>1, <1>3, <1>5, <2>1, <3>1 DEF InOrder
    <3>2. CASE x # s
      BY <1>3, <1>5, <3>2 DEF SentInv, InOrder
    <3> QED
      BY <3>1, <3>2
  <2> QED
    BY <1>1, <1>3, <1>5, <2>2 DEF SentInv, SentTypeOK
<1>6. ASSUME NEW m \in BoardMessage,
             toClient' = [toClient EXCEPT ![s] = Append(q, m)],
             b.seq = session[s].seq + 1, m.seq = b.seq, m.state = b.state,
             Extends(session[s].state, m)
      PROVE  SentInv'
  <2> DEFINE longer == Append(q, m)
             n == Len(q)
  <2>1. /\ longer \in Seq(BoardMessage) /\ Len(longer) = n + 1 /\ longer[n + 1] = m
        /\ \A i \in 1 .. n : longer[i] = q[i]
    BY <1>1, AppendProperties
  <2>2. n \in Nat /\ DOMAIN q = 1 .. n /\ DOMAIN longer = 1 .. n + 1
    BY <1>1, <2>1, LenProperties
  <2>3. /\ toClient' \in [Sockets -> Seq(BoardMessage)] /\ toClient'[s] = longer
        /\ \A x \in Sockets \ {s} : toClient'[x] = toClient[x]
    BY <1>6, <2>1 DEF SentInv, SentTypeOK
  <2> HIDE DEF longer, n, q
  <2>4. ASSUME NEW i \in 1 .. n PROVE Continues(q[i], m) /\ Reaches(q[i], b)
    <3>1. Reaches(q[i], session[s]) /\ q[i].seq \in Nat
      BY <1>1, <1>4, <2>2 DEF InOrder, q
    <3> QED
      BY <1>4, <1>6, <3>1 DEF Reaches, Continues
  <2>5. Reaches(m, b)
    BY <1>4, <1>6 DEF Reaches
  <2>6. ASSUME NEW i \in 1 .. n + 1, NEW j \in 1 .. n + 1, i < j PROVE Continues(longer[i], longer[j])
    <3>1. CASE j = n + 1
      <4>1. i \in 1 .. n
        BY <2>2, <2>6, <3>1
      <4> QED
        BY <2>1, <2>4, <3>1, <4>1
    <3>2. CASE j # n + 1
      <4>1. i \in 1 .. n /\ j \in 1 .. n
        BY <2>2, <2>6, <3>2
      <4>2. Continues(q[i], q[j])
        BY <1>1, <2>2, <2>6, <4>1 DEF InOrder, q
      <4> QED
        BY <2>1, <4>1, <4>2
    <3> QED
      BY <3>1, <3>2
  <2>7. ASSUME NEW i \in 1 .. n + 1 PROVE Reaches(longer[i], b)
    <3>1. CASE i = n + 1
      BY <2>1, <2>5, <3>1
    <3>2. CASE i # n + 1
      <4>1. i \in 1 .. n
        BY <2>2, <3>2
      <4> QED
        BY <2>1, <2>4, <4>1
    <3> QED
      BY <3>1, <3>2
  <2>8. ASSUME NEW x \in Sockets PROVE InOrder(x)'
    <3>1. CASE x = s
      BY <1>3, <2>2, <2>3, <2>6, <2>7, <3>1 DEF InOrder
    <3>2. CASE x # s
      BY <1>3, <2>3, <3>2 DEF SentInv, InOrder
    <3> QED
      BY <3>1, <3>2
  <2> QED
    BY <1>3, <2>3, <2>8 DEF SentInv, SentTypeOK
<1> QED
  BY <1>2, <1>5, <1>6

(* The page reads its messages from the front.                             *)
LEMMA TailKeeps ==
  ASSUME SentInv, NEW s \in Sockets, toClient[s] # << >>,
         toClient' = [toClient EXCEPT ![s] = Tail(@)], UNCHANGED session
  PROVE  /\ SentInv'
         /\ Head(toClient[s]) \in BoardMessage /\ Reaches(Head(toClient[s]), session'[s])
         /\ \A i \in DOMAIN toClient'[s] : Continues(Head(toClient[s]), toClient'[s][i])
<1> DEFINE q == toClient[s]
           rest == Tail(q)
           n == Len(q)
<1>1. q \in Seq(BoardMessage) /\ InOrder(s) /\ SentTypeOK /\ q # << >>
  BY DEF SentInv, SentTypeOK
<1>2. n \in Nat \ {0} /\ DOMAIN q = 1 .. n /\ Head(q) = q[1]
  BY <1>1, EmptySeq, LenProperties
<1>3. /\ rest \in Seq(BoardMessage) /\ Len(rest) = n - 1 /\ Head(q) \in BoardMessage
      /\ \A i \in 1 .. n - 1 : rest[i] = q[i + 1]
  BY <1>1, HeadTailProperties
<1>4. DOMAIN rest = 1 .. n - 1
  BY <1>3, LenProperties
<1>5. /\ toClient' \in [Sockets -> Seq(BoardMessage)] /\ toClient'[s] = rest
      /\ \A x \in Sockets \ {s} : toClient'[x] = toClient[x]
  BY <1>1, <1>3 DEF SentTypeOK
<1>6. /\ \A i, j \in 1 .. n : i < j => Continues(q[i], q[j])
      /\ \A i \in 1 .. n : Reaches(q[i], session[s])
  BY <1>1, <1>2 DEF InOrder
<1> HIDE DEF rest, n, q
<1>7. ASSUME NEW i \in 1 .. n - 1, NEW j \in 1 .. n - 1, i < j PROVE Continues(rest[i], rest[j])
  <2>1. i + 1 \in 1 .. n /\ j + 1 \in 1 .. n /\ i + 1 < j + 1
    BY <1>2, <1>7
  <2> QED
    BY <1>3, <1>6, <2>1
<1>8. ASSUME NEW i \in 1 .. n - 1 PROVE Reaches(rest[i], session[s]) /\ Continues(q[1], rest[i])
  <2>1. i + 1 \in 1 .. n /\ 1 \in 1 .. n /\ 1 < i + 1
    BY <1>2
  <2> QED
    BY <1>3, <1>6, <2>1
<1>9. ASSUME NEW x \in Sockets PROVE InOrder(x)'
  <2>1. CASE x = s
    BY <1>4, <1>5, <1>7, <1>8, <2>1 DEF InOrder
  <2>2. CASE x # s
    BY <1>5, <2>2 DEF SentInv, InOrder
  <2> QED
    BY <2>1, <2>2
<1>10. SentInv'
  BY <1>1, <1>5, <1>9 DEF SentInv, SentTypeOK
<1>11. 1 \in 1 .. n
  BY <1>2
<1>12. Head(q) \in BoardMessage /\ Reaches(Head(q), session'[s]) /\ \A i \in DOMAIN rest : Continues(Head(q), rest[i])
  BY <1>2, <1>3, <1>4, <1>6, <1>8, <1>11
<1> QED
  BY <1>5, <1>10, <1>12 DEF q

(* A socket that has not been opened has no session yet.                   *)
StartInv ==
  \A s \in Sockets :
    /\ s > socket => sock[s] = "none"
    /\ sock[s] \in {"none", "connecting"} => session[s].seq = 0

(* A connection begins with a snapshot, the session's first message, ...   *)
LEMMA UpgradeKeeps ==
  ASSUME SentInv, StartInv, NEW s \in Sockets, Upgrade(s)
  PROVE  SentInv'
<1>1. PICK p \in Presets :
        /\ session' = [session EXCEPT ![s] = [state |-> [preset |-> p, catalog |-> 1],
                                              seq |-> 1, switching |-> << >>]]
        /\ toClient' = [toClient EXCEPT ![s] = <<Message("snapshot", s, [preset |-> p, catalog |-> 1])>>]
  BY DEF Upgrade
<1> DEFINE b == [state |-> [preset |-> p, catalog |-> 1], seq |-> 1, switching |-> << >>]
           m == Message("snapshot", s, [preset |-> p, catalog |-> 1])
<1>2. session[s].seq = 0
  BY DEF Upgrade, StartInv
<1>3. [preset |-> p, catalog |-> 1] \in State
  BY DEF State
<1>4. b \in Session /\ m \in BoardMessage /\ m.seq = b.seq /\ m.state = b.state /\ b.seq = 1
  BY <1>2, <1>3, EmptySeq DEF Session, BoardMessage, Message
<1>5. session' = [session EXCEPT ![s] = b] /\ toClient' = [toClient EXCEPT ![s] = <<m>>]
  BY <1>1
<1> HIDE DEF b, m
<1>6. <<m>> \in Seq(BoardMessage) /\ DOMAIN <<m>> = {1} /\ <<m>>[1] = m
  BY <1>4
<1>7. SentTypeOK'
  BY <1>4, <1>5, <1>6 DEF SentInv, SentTypeOK
<1>8. Reaches(m, b)
  BY <1>4 DEF Reaches
<1>9. ASSUME NEW x \in Sockets PROVE InOrder(x)'
  <2>1. CASE x = s
    <3>1. toClient'[x] = <<m>> /\ session'[x] = b
      BY <1>5, <2>1 DEF SentInv, SentTypeOK
    <3> QED
      BY <1>6, <1>8, <3>1 DEF InOrder
  <2>2. CASE x # s
    BY <1>5, <2>2 DEF SentInv, SentTypeOK, InOrder
  <2> QED
    BY <2>1, <2>2
<1> QED
  BY <1>7, <1>9 DEF SentInv

(* ... and ends with nothing on its way.                                   *)
LEMMA CloseKeeps ==
  ASSUME SentInv, NEW s \in Sockets, OnClose(s)
  PROVE  SentInv'
<1>1. session' = [session EXCEPT ![s] = NoSession] /\ toClient' = [toClient EXCEPT ![s] = << >>]
  BY DEF OnClose
<1>2. NoSession \in Session
  BY EmptySeq DEF NoSession, Session, NoState, State
<1>3. << >> \in Seq(BoardMessage) /\ DOMAIN << >> = {}
  BY EmptySeq
<1>4. SentTypeOK'
  BY <1>1, <1>2, <1>3 DEF SentInv, SentTypeOK
<1>5. ASSUME NEW x \in Sockets PROVE InOrder(x)'
  <2>1. CASE x = s
    <3>1. toClient'[x] = << >>
      BY <1>1, <2>1 DEF SentInv, SentTypeOK
    <3> QED
      BY <1>3, <3>1 DEF InOrder
  <2>2. CASE x # s
    BY <1>1, <2>2 DEF SentInv, SentTypeOK, InOrder
  <2> QED
    BY <2>1, <2>2
<1> QED
  BY <1>4, <1>5 DEF SentInv

StoreInv ==
  /\ PageTypeOK /\ FlagTypeOK /\ ShownTypeOK /\ NetTypeOK
  /\ SentInv /\ StartInv

(* Before connect() there is no connection.                                *)
LEMMA StoreInit == Init => StoreInv
<1> SUFFICES ASSUME Init PROVE StoreInv
  OBVIOUS
<1>1. FlagTypeOK
  BY Zenon DEF Init, FlagTypeOK
<1>2. link = "offline" /\ pending = None /\ pendingTimer = NoPreset /\ socket = 0 /\ seq = 0
  BY DEF Init, None
<1>3. PageTypeOK
  BY <1>2, StoreAssumption DEF PageTypeOK, Indices
<1>4. ShownTypeOK
  BY <1>2 DEF Init, ShownTypeOK, NoState, State
<1>5. /\ sock = [s \in Sockets |-> "none"] /\ toBoard = [s \in Sockets |-> << >>]
      /\ toClient = [s \in Sockets |-> << >>] /\ session = [s \in Sockets |-> NoSession]
  BY DEF Init
<1>6. NetTypeOK
  BY <1>5, EmptySeq DEF NetTypeOK, Phases
<1>7. NoSession \in Session /\ NoSession.seq = 0
  BY EmptySeq DEF NoSession, Session, NoState, State
<1>8. SentInv
  BY <1>5, <1>7, EmptySeq DEF SentInv, SentTypeOK, InOrder
<1>9. StartInv
  BY <1>5, <1>7 DEF StartInv
<1> QED
  BY <1>1, <1>3, <1>4, <1>6, <1>8, <1>9 DEF StoreInv

(* The page's flags stay BOOLEAN; by themselves, as the provers ask.       *)
LEMMA FlagStep == ASSUME FlagTypeOK, [Next]_vars PROVE FlagTypeOK'
<1>1. CASE Page \/ Timers
  BY <1>1, Zenon DEF FlagTypeOK, Page, Timers, Connect, RetryNow, Close, SwitchPreset,
                    ReconnectFires, LivenessFires, PendingTimerFires
<1>2. ASSUME NEW s \in Sockets, Socket(s) PROVE FlagTypeOK'
  BY <1>2, Zenon DEF FlagTypeOK, Socket, Upgrade, OnMessage, OnClose, GoSilent, storeVars
<1>3. ASSUME NEW s \in Sockets, Board(s) PROVE FlagTypeOK'
  BY <1>3, Zenon DEF FlagTypeOK, Board, BoardChanges, Tick, BoardReceives, SwitchDone, boardRest, storeVars
<1>4. CASE UNCHANGED vars
  BY <1>4, Zenon DEF FlagTypeOK, vars, storeVars
<1> QED
  BY <1>1, <1>2, <1>3, <1>4 DEF Next

(* A message from the page is put into the latest socket.                  *)
LEMMA SendType ==
  ASSUME NetTypeOK, NEW m \in PageMessage, Send(m)
  PROVE  toBoard' \in [Sockets -> Seq(PageMessage)]
<1> DEFINE longer == Append(toBoard[socket], m)
<1>1. socket \in Sockets => longer \in Seq(PageMessage)
  BY AppendProperties DEF NetTypeOK
<1>2. toBoard' \in {toBoard, [toBoard EXCEPT ![socket] = longer]}
  BY DEF Send
<1> HIDE DEF longer
<1> QED
  BY <1>1, <1>2 DEF NetTypeOK

(* What the page itself does, and its timers: no message is sent or read.  *)
LEMMA PageStep ==
  ASSUME StoreInv, Page \/ Timers
  PROVE  /\ PageTypeOK' /\ NetTypeOK' /\ StartInv'
         /\ UNCHANGED <<view, heard, seq, toClient, session>>
<1> USE DEF StoreInv
<1>1. UNCHANGED <<view, heard, seq, toClient, session>>
  BY DEF Page, Timers, Connect, RetryNow, Close, SwitchPreset, ReconnectFires, LivenessFires,
         PendingTimerFires, netVars, boardVars, historyVars
<1>2. CASE Connect \/ RetryNow \/ ReconnectFires
  <2>1. Open /\ UNCHANGED <<pending, pendingTimer, toBoard>>
    BY <1>2 DEF Connect, RetryNow, ReconnectFires
  <2>2. socket' = socket + 1 /\ socket + 1 \in Sockets /\ link' = "connecting"
    BY <2>1 DEF Open, PageTypeOK
  <2>3. sock' = [sock EXCEPT ![socket + 1] = "connecting"]
    BY <2>1 DEF Open
  <2>4. PageTypeOK' /\ NetTypeOK'
    BY <2>1, <2>2, <2>3, StoreAssumption DEF PageTypeOK, NetTypeOK, Phases, Sockets
  <2>5. StartInv'
    BY <1>1, <2>2, <2>3, StoreAssumption DEF StartInv, PageTypeOK, NetTypeOK, Sockets
  <2> QED
    BY <1>1, <2>4, <2>5
<1>3. CASE Close \/ LivenessFires
  <2>1. Closing(socket) /\ UNCHANGED <<link, pending, pendingTimer, socket, toBoard>>
    BY <1>3 DEF Close, LivenessFires
  <2>2. /\ sock' \in [Sockets -> Phases]
        /\ \A s \in Sockets : sock'[s] = sock[s] \/ (sock[s] # "none" /\ sock'[s] = "closing")
    BY <2>1 DEF Closing, NetTypeOK, Phases
  <2>3. PageTypeOK' /\ NetTypeOK'
    BY <2>1, <2>2 DEF PageTypeOK, NetTypeOK
  <2>4. StartInv'
    BY <1>1, <2>1, <2>2 DEF StartInv
  <2> QED
    BY <1>1, <2>3, <2>4
<1>4. CASE PendingTimerFires
  <2>1. PageTypeOK' /\ NetTypeOK' /\ StartInv'
    BY <1>1, <1>4 DEF PendingTimerFires, netVars, PageTypeOK, NetTypeOK, StartInv, Indices
  <2> QED
    BY <1>1, <2>1
<1>5. ASSUME NEW p \in Presets, SwitchPreset(p) PROVE PageTypeOK' /\ NetTypeOK' /\ StartInv'
  <2>1. /\ Send([t |-> "switchPreset", preset |-> p]) /\ pending' = p[2] /\ pendingTimer' = p
        /\ UNCHANGED <<link, socket, sock>>
    BY <1>5 DEF SwitchPreset
  <2>2. [t |-> "switchPreset", preset |-> p] \in PageMessage /\ p[2] \in Indices
    BY DEF PageMessage, Indices
  <2>3. NetTypeOK'
    BY <2>1, <2>2, SendType DEF NetTypeOK
  <2>4. PageTypeOK' /\ StartInv'
    BY <1>1, <2>1, <2>2 DEF PageTypeOK, StartInv
  <2> QED
    BY <2>3, <2>4
<1> QED
  BY <1>1, <1>2, <1>3, <1>4, <1>5 DEF Page, Timers

(* Merging the section a message carries makes the state it was sent with, *)
(* provided what is shown is the state it extends.                         *)
LEMMA MergedIs ==
  ASSUME NEW m \in BoardMessage, view \in State
  PROVE  /\ Merged(m) \in State
         /\ m.t = "snapshot" \/ Extends(view, m) => Merged(m) = m.state
<1>1. m.state \in State /\ m.t \in {"snapshot", "current", "catalog", "tick"}
  BY DEF BoardMessage
<1>2. CASE m.t = "snapshot"
  BY <1>1, <1>2 DEF Merged
<1>3. CASE m.t = "current"
  BY <1>1, <1>3 DEF Merged, Extends, State
<1>4. CASE m.t = "catalog"
  BY <1>1, <1>4 DEF Merged, Extends, State
<1>5. CASE m.t = "tick"
  BY <1>1, <1>5 DEF Merged, Extends
<1> QED
  BY <1>1, <1>2, <1>3, <1>4, <1>5

(* A message is handled.                                                   *)
LEMMA MessageStep ==
  ASSUME StoreInv, NEW s \in Sockets, OnMessage(s)
  PROVE  PageTypeOK' /\ ShownTypeOK' /\ NetTypeOK' /\ SentInv' /\ StartInv'
<1> DEFINE m == Head(toClient[s])
<1>1. PageTypeOK /\ ShownTypeOK /\ NetTypeOK /\ SentInv /\ StartInv
  BY DEF StoreInv
<1>2. /\ toClient[s] # << >> /\ toClient' = [toClient EXCEPT ![s] = Tail(@)]
      /\ UNCHANGED <<session, socket, sock, link>>
      /\ (IsGap(m) /\ OnGap) \/ (~IsGap(m) /\ OnInSequence(m))
  BY DEF OnMessage, boardVars
<1>3. SentInv' /\ m \in BoardMessage
  BY <1>1, <1>2, TailKeeps
<1> HIDE DEF m
<1>4. StartInv'
  BY <1>1, <1>2 DEF StartInv
<1>5. CASE OnGap
  <2>1. /\ seq' = 0 /\ heard' = NoState /\ UNCHANGED <<view, pending, pendingTimer>>
        /\ Send([t |-> "resync", preset |-> NoPreset])
    BY <1>5 DEF OnGap, None
  <2>2. [t |-> "resync", preset |-> NoPreset] \in PageMessage
    BY DEF PageMessage
  <2>3. NetTypeOK'
    BY <1>1, <1>2, <2>1, <2>2, SendType DEF NetTypeOK
  <2>4. ShownTypeOK'
    BY <1>1, <2>1 DEF ShownTypeOK, NoState, State
  <2>5. PageTypeOK'
    BY <1>1, <1>2, <2>1 DEF PageTypeOK
  <2> QED
    BY <1>3, <1>4, <2>3, <2>4, <2>5
<1>6. CASE OnInSequence(m)
  <2>1. /\ seq' = m.seq /\ view' = Merged(m) /\ heard' \in {m.state, NoState}
        /\ pending' \in {None, pending} /\ pendingTimer' \in {NoPreset, pendingTimer}
        /\ toBoard' = toBoard
    BY <1>6 DEF OnInSequence
  <2>2. NetTypeOK'
    BY <1>1, <1>2, <2>1 DEF NetTypeOK
  <2>3. view' \in State
    BY <1>1, <1>3, <2>1, MergedIs DEF ShownTypeOK
  <2>4. ShownTypeOK'
    BY <1>3, <2>1, <2>3 DEF ShownTypeOK, BoardMessage, NoState, State
  <2>5. PageTypeOK'
    BY <1>1, <1>2, <2>1 DEF PageTypeOK, Indices
  <2> QED
    BY <1>3, <1>4, <2>2, <2>4, <2>5
<1> QED
  BY <1>2, <1>5, <1>6

(* A connection is made, or it ends, or it goes silent.                    *)
LEMMA SocketStep ==
  ASSUME StoreInv, NEW s \in Sockets, Upgrade(s) \/ OnClose(s) \/ GoSilent(s)
  PROVE  PageTypeOK' /\ ShownTypeOK' /\ NetTypeOK' /\ SentInv' /\ StartInv'
<1>1. PageTypeOK /\ ShownTypeOK /\ NetTypeOK /\ SentInv /\ StartInv
  BY DEF StoreInv
<1>2. CASE Upgrade(s)
  <2>1. /\ sock[s] = "connecting" /\ sock' = [sock EXCEPT ![s] = "open"]
        /\ seq' = 0 /\ heard' = NoState /\ link' = "online"
        /\ UNCHANGED <<view, pending, socket, pendingTimer, toBoard>>
    BY <1>2 DEF Upgrade, None
  <2>2. \A x \in Sockets \ {s} : session'[x] = session[x]
    BY <1>1, <1>2 DEF Upgrade, SentInv, SentTypeOK
  <2>3. PageTypeOK' /\ NetTypeOK'
    BY <1>1, <2>1 DEF PageTypeOK, NetTypeOK, Phases
  <2>4. ShownTypeOK'
    BY <1>1, <2>1 DEF ShownTypeOK, NoState, State
  <2>5. StartInv'
    BY <1>1, <2>1, <2>2 DEF StartInv, NetTypeOK
  <2> QED
    BY <1>1, <1>2, <2>3, <2>4, <2>5, UpgradeKeeps
<1>3. CASE OnClose(s)
  <2>1. /\ sock[s] # "none" /\ sock' = [sock EXCEPT ![s] = "closed"]
        /\ toBoard' = [toBoard EXCEPT ![s] = << >>] /\ session' = [session EXCEPT ![s] = NoSession]
        /\ link' = "offline" /\ pending' = None /\ UNCHANGED <<view, socket, seq, pendingTimer, heard>>
    BY <1>3 DEF OnClose
  <2>2. PageTypeOK' /\ NetTypeOK' /\ ShownTypeOK'
    BY <1>1, <2>1, EmptySeq DEF PageTypeOK, NetTypeOK, ShownTypeOK, Phases, Indices
  <2>3. StartInv'
    BY <1>1, <2>1 DEF StartInv, NetTypeOK, SentInv, SentTypeOK, NoSession
  <2> QED
    BY <1>1, <1>3, <2>2, <2>3, CloseKeeps
<1>4. CASE GoSilent(s)
  <2>1. UNCHANGED <<link, pending, pendingTimer, socket, view, heard, seq, sock, toBoard, session, toClient>>
    BY <1>4 DEF GoSilent, storeVars, boardVars
  <2> QED
    BY <1>1, <2>1 DEF PageTypeOK, NetTypeOK, ShownTypeOK, SentInv, SentTypeOK, StartInv, InOrder
<1> QED
  BY <1>2, <1>3, <1>4

(* Every step of the page, the timers, the sockets and the board keeps it. *)
LEMMA StoreStep == ASSUME StoreInv, [Next]_vars PROVE StoreInv'
<1>1. PageTypeOK /\ ShownTypeOK /\ NetTypeOK /\ SentInv /\ StartInv
  BY DEF StoreInv
<1>2. FlagTypeOK'
  BY FlagStep DEF StoreInv
<1>3. CASE Page \/ Timers
  <2>1. PageTypeOK' /\ NetTypeOK' /\ StartInv' /\ UNCHANGED <<view, heard, seq, toClient, session>>
    BY <1>3, PageStep
  <2>2. ShownTypeOK' /\ SentInv'
    BY <1>1, <2>1 DEF ShownTypeOK, SentInv, SentTypeOK, InOrder
  <2> QED
    BY <1>2, <2>1, <2>2 DEF StoreInv
<1>4. ASSUME NEW s \in Sockets, Socket(s) PROVE StoreInv'
  BY <1>2, <1>4, MessageStep, SocketStep DEF Socket, StoreInv
<1>5. ASSUME NEW s \in Sockets, Board(s) PROVE StoreInv'
  <2>1. Sends(s) /\ UNCHANGED <<storeVars, sock, historyVars>> /\ toBoard' \in [Sockets -> Seq(PageMessage)]
    BY <1>1, <1>5, BoardSends DEF SentInv
  <2>2. SentInv'
    BY <1>1, <2>1, SendsKeep
  <2>3. PageTypeOK' /\ NetTypeOK' /\ ShownTypeOK'
    BY <1>1, <2>1 DEF PageTypeOK, NetTypeOK, ShownTypeOK, storeVars, historyVars
  <2>4. sock[s] = "open"
    BY <1>5 DEF Board, BoardChanges, Tick, BoardReceives, SwitchDone, Alive
  <2>5. \A x \in Sockets \ {s} : session'[x] = session[x]
    BY <1>1, <2>1 DEF Sends, SentInv, SentTypeOK
  <2>6. StartInv'
    BY <1>1, <2>1, <2>4, <2>5 DEF StartInv, storeVars
  <2> QED
    BY <1>2, <2>2, <2>3, <2>6 DEF StoreInv
<1>6. CASE UNCHANGED vars
  <2>1. UNCHANGED <<link, pending, pendingTimer, socket, view, heard, seq, sock, toBoard, session, toClient>>
    BY <1>6 DEF vars, storeVars, netVars, boardVars, historyVars
  <2>2. PageTypeOK' /\ NetTypeOK' /\ ShownTypeOK' /\ SentInv' /\ StartInv'
    BY <1>1, <2>1 DEF PageTypeOK, NetTypeOK, ShownTypeOK, SentInv, SentTypeOK, StartInv, InOrder
  <2> QED
    BY <1>2, <2>2 DEF StoreInv
<1> QED
  BY <1>3, <1>4, <1>5, <1>6 DEF Next

(* No state, number or queue of the store or of a board leaves its type,   *)
(* and no message is numbered past the session it came from.               *)
THEOREM TypeCorrect == SafeSpec => []TypeOK
<1>1. Init => StoreInv
  BY StoreInit
<1>2. StoreInv /\ [Next]_vars => StoreInv'
  BY StoreStep
<1>3. StoreInv => TypeOK
  <2> SUFFICES ASSUME StoreInv PROVE TypeOK
    OBVIOUS
  <2>1. liveness \in BOOLEAN /\ reconnect \in BOOLEAN /\ closed \in BOOLEAN
    BY Zenon DEF StoreInv, FlagTypeOK
  <2>2. PageTypeOK /\ ShownTypeOK
    BY DEF StoreInv
  <2>3. ASSUME NEW s \in Sockets
        PROVE  /\ sock[s] \in {"none", "connecting", "open", "closing", "closed"}
               /\ session[s].state \in State /\ session[s].seq \in Nat
               /\ \A i \in DOMAIN toClient[s] : toClient[s][i].seq <= session[s].seq
    BY DEF StoreInv, NetTypeOK, Phases, SentInv, SentTypeOK, Session, InOrder, Reaches
  <2> QED
    BY <2>1, <2>2, <2>3 DEF TypeOK, PageTypeOK, ShownTypeOK
<1> QED
  BY <1>1, <1>2, <1>3, PTL DEF SafeSpec

---------------------------------------------------------------------------
(* What is shown                                                           *)

Latest == [seq |-> seq, state |-> heard]

(* Between a snapshot and the next gap, what is shown is the board's state *)
(* as it was, and whatever still comes on the connection continues it.     *)
HeardInv ==
  heard # NoState =>
    /\ view = heard /\ seq # None
    /\ sock[socket] = "open" =>
         /\ \A i \in DOMAIN toClient[socket] : Continues(Latest, toClient[socket][i])
         /\ Reaches(Latest, session[socket])

(* A message on the open connection that is not a gap is a snapshot or     *)
(* extends what is shown, or nothing is claimed of what is shown.          *)
LEMMA HeardMessage ==
  ASSUME SocketInv, StoreInv, HeardInv, NEW s \in Sockets, OnMessage(s)
  PROVE  HeardInv'
<1> DEFINE m == Head(toClient[s])
<1>1. s = socket
  BY InUseIsLatest DEF OnMessage
<1>2. /\ toClient[s] # << >> /\ toClient' = [toClient EXCEPT ![s] = Tail(@)]
      /\ UNCHANGED <<session, socket, sock>> /\ sock[s] = "open"
      /\ (IsGap(m) /\ OnGap) \/ (~IsGap(m) /\ OnInSequence(m))
  BY DEF OnMessage, boardVars
<1>3. /\ m \in BoardMessage /\ Reaches(m, session'[s])
      /\ \A i \in DOMAIN toClient'[s] : Continues(m, toClient'[s][i])
  BY <1>2, TailKeeps DEF StoreInv
<1>4. toClient[s] \in Seq(BoardMessage) /\ view \in State /\ heard \in State /\ seq \in Nat
  BY DEF StoreInv, SentInv, SentTypeOK, ShownTypeOK
<1>5. 1 \in DOMAIN toClient[s] /\ toClient[s][1] = m
  BY <1>2, <1>4, EmptySeq, LenProperties
<1>6. heard # NoState => view = heard /\ seq # None /\ Continues(Latest, m)
  BY <1>1, <1>2, <1>5 DEF HeardInv
<1> HIDE DEF m
<1>7. CASE OnGap
  BY <1>7 DEF OnGap, HeardInv
<1>8. CASE ~IsGap(m) /\ OnInSequence(m)
  <2> SUFFICES ASSUME heard' # NoState PROVE HeardInv'
    BY DEF HeardInv
  <2>1. /\ seq' = m.seq /\ view' = Merged(m)
        /\ heard' = IF m.t = "snapshot" \/ heard # NoState THEN m.state ELSE NoState
    BY <1>8 DEF OnInSequence
  <2>2. m.t = "snapshot" \/ heard # NoState
    BY <2>1
  <2>3. heard' = m.state
    BY <2>1, <2>2
  <2>4. m.t = "snapshot" \/ Extends(view, m)
    <3>1. CASE m.t = "snapshot"
      BY <3>1
    <3>2. CASE m.t # "snapshot"
      <4>1. view = heard /\ seq # None /\ Continues(Latest, m)
        BY <1>6, <2>2, <3>2
      <4>2. m.seq = seq + 1
        BY <1>8, <3>2, <4>1 DEF IsGap
      <4> QED
        BY <4>1, <4>2 DEF Continues, Latest
    <3> QED
      BY <3>1, <3>2
  <2>5. view' = heard'
    BY <1>3, <1>4, <2>1, <2>3, <2>4, MergedIs
  <2>6. seq' # None
    BY <1>3, <2>1 DEF BoardMessage, None
  <2>7. Reaches(Latest', session'[s]) /\ \A i \in DOMAIN toClient'[s] : Continues(Latest', toClient'[s][i])
    BY <1>3, <2>1, <2>3 DEF Reaches, Continues, Latest
  <2> QED
    BY <1>1, <1>2, <2>5, <2>6, <2>7 DEF HeardInv
<1> QED
  BY <1>2, <1>7, <1>8

(* What the board does reaches the page only through its messages.         *)
LEMMA HeardBoard ==
  ASSUME SocketInv, StoreInv, HeardInv, NEW s \in Sockets, Board(s)
  PROVE  HeardInv'
<1>1. Sends(s) /\ UNCHANGED <<storeVars, sock, historyVars>>
  BY BoardSends DEF StoreInv, SentInv
<1>2. UNCHANGED <<view, seq, heard, socket, sock>>
  BY <1>1 DEF storeVars, historyVars
<1>3. s = socket
  <2>1. sock[s] = "open"
    BY DEF Board, BoardChanges, Tick, BoardReceives, SwitchDone, Alive
  <2> QED
    BY <2>1, InUseIsLatest
<1> DEFINE q == toClient[s]
<1>4. q \in Seq(BoardMessage) /\ session[s].seq \in Nat /\ seq \in Nat /\ SentTypeOK
  BY DEF StoreInv, SentInv, SentTypeOK, ShownTypeOK, Session
<1> SUFFICES ASSUME heard # NoState, sock[s] = "open"
             PROVE  /\ \A i \in DOMAIN toClient'[s] : Continues(Latest, toClient'[s][i])
                    /\ Reaches(Latest, session'[s])
  BY <1>2, <1>3 DEF HeardInv, Latest
<1>5. Reaches(Latest, session[s]) /\ \A i \in DOMAIN q : Continues(Latest, q[i])
  BY <1>3 DEF HeardInv
<1>6. PICK b \in Session :
        /\ session' = [session EXCEPT ![s] = b]
        /\ \/ /\ toClient' = toClient
              /\ b.seq = session[s].seq => b.state = session[s].state
              /\ b.seq \in {session[s].seq, session[s].seq + 1}
           \/ \E m \in BoardMessage :
                /\ toClient' = [toClient EXCEPT ![s] = Append(toClient[s], m)]
                /\ b.seq = session[s].seq + 1 /\ m.seq = b.seq /\ m.state = b.state
                /\ Extends(session[s].state, m)
  BY <1>1 DEF Sends
<1>7. session'[s] = b /\ b.seq \in Nat
  BY <1>4, <1>6 DEF SentTypeOK, Session
<1>8. Latest.seq \in Nat
  BY <1>4 DEF Latest
<1>9. CASE /\ toClient' = toClient
           /\ b.seq = session[s].seq => b.state = session[s].state
           /\ b.seq \in {session[s].seq, session[s].seq + 1}
  <2>1. Reaches(Latest, b)
    BY <1>4, <1>5, <1>7, <1>8, <1>9 DEF Reaches
  <2> QED
    BY <1>5, <1>7, <1>9, <2>1
<1>10. ASSUME NEW m \in BoardMessage,
              toClient' = [toClient EXCEPT ![s] = Append(q, m)],
              b.seq = session[s].seq + 1, m.seq = b.seq, m.state = b.state,
              Extends(session[s].state, m)
       PROVE  /\ \A i \in DOMAIN toClient'[s] : Continues(Latest, toClient'[s][i])
              /\ Reaches(Latest, session'[s])
  <2> DEFINE longer == Append(q, m)
             n == Len(q)
  <2>1. longer \in Seq(BoardMessage) /\ Len(longer) = n + 1 /\ longer[n + 1] = m /\ \A i \in 1 .. n : longer[i] = q[i]
    BY <1>4, AppendProperties
  <2>2. n \in Nat /\ DOMAIN q = 1 .. n /\ DOMAIN longer = 1 .. n + 1
    BY <1>4, <2>1, LenProperties
  <2>3. toClient'[s] = longer
    BY <1>4, <1>10 DEF SentTypeOK
  <2> HIDE DEF longer, n, q
  <2>4. Continues(Latest, m) /\ Reaches(Latest, b)
    BY <1>4, <1>5, <1>7, <1>8, <1>10 DEF Reaches, Continues
  <2>5. ASSUME NEW i \in 1 .. n + 1 PROVE Continues(Latest, longer[i])
    <3>1. i = n + 1 \/ i \in 1 .. n
      BY <2>2
    <3> QED
      BY <1>5, <2>1, <2>2, <2>4, <3>1
  <2> QED
    BY <1>7, <2>2, <2>3, <2>4, <2>5
<1> QED
  BY <1>6, <1>9, <1>10

(* No other step makes a claim of what is shown, or opens a connection     *)
(* without forgetting what was heard on the one before.                    *)
LEMMA HeardStep ==
  ASSUME SocketInv, StoreInv, HeardInv, [Next]_vars
  PROVE  HeardInv'
<1>1. CASE Page \/ Timers
  <2>1. UNCHANGED <<view, heard, seq, toClient, session>>
    BY <1>1, PageStep
  <2>2. sock'[socket'] = "open" => socket' = socket /\ sock[socket] = "open"
    <3>1. CASE Connect \/ RetryNow \/ ReconnectFires
      <4>1. socket' \in Sockets /\ sock' = [sock EXCEPT ![socket'] = "connecting"]
        BY <3>1, StoreAssumption DEF Connect, RetryNow, ReconnectFires, Open, StoreInv, PageTypeOK
      <4> QED
        BY <4>1 DEF StoreInv, NetTypeOK
    <3>2. CASE Close \/ LivenessFires
      <4>1. Closing(socket) /\ socket' = socket
        BY <3>2 DEF Close, LivenessFires
      <4> QED
        BY <4>1 DEF Closing
    <3>3. CASE PendingTimerFires \/ \E p \in Presets : SwitchPreset(p)
      BY <3>3 DEF PendingTimerFires, SwitchPreset, netVars
    <3> QED
      BY <1>1, <3>1, <3>2, <3>3 DEF Page, Timers
  <2> QED
    BY <2>1, <2>2 DEF HeardInv, Latest
<1>2. ASSUME NEW s \in Sockets, Upgrade(s) PROVE HeardInv'
  BY <1>2 DEF Upgrade, HeardInv
<1>3. ASSUME NEW s \in Sockets, OnClose(s) PROVE HeardInv'
  <2>1. s = socket
    BY <1>3, InUseIsLatest DEF OnClose
  <2>2. sock'[socket'] = "closed" /\ UNCHANGED <<view, heard, seq>>
    BY <1>3, <2>1 DEF OnClose, StoreInv, NetTypeOK
  <2> QED
    BY <2>2 DEF HeardInv
<1>4. ASSUME NEW s \in Sockets, GoSilent(s) PROVE HeardInv'
  BY <1>4 DEF GoSilent, storeVars, boardVars, HeardInv, Latest
<1>5. CASE UNCHANGED vars
  BY <1>5 DEF vars, storeVars, netVars, boardVars, historyVars, HeardInv, Latest
<1> QED
  BY <1>1, <1>2, <1>3, <1>4, <1>5, HeardMessage, HeardBoard DEF Next, Socket

(* No lost patch goes unnoticed: between a snapshot and the next gap what  *)
(* is shown is exactly the state the board had when it sent the latest     *)
(* message, for any number of losses, reconnects and switches.             *)
THEOREM NoLossUnnoticed == ASSUME ~Impatient PROVE SafeSpec => []NoUnnoticedLoss
<1>1. Init => StoreInv /\ HeardInv
  BY StoreInit DEF Init, HeardInv
<1>2. SocketInv /\ StoreInv /\ HeardInv /\ [Next]_vars => StoreInv' /\ HeardInv'
  BY StoreStep, HeardStep
<1>3. HeardInv => NoUnnoticedLoss
  BY DEF HeardInv, NoUnnoticedLoss
<1> QED
  BY <1>1, <1>2, <1>3, SocketsFollow, PTL DEF SafeSpec
=============================================================================
