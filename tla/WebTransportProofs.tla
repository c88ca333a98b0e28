------------------------- MODULE WebTransportProofs -------------------------
(* Safety of WebTransport for any number of listings, preset changes,      *)
(* connections and requests: no thread serves or keeps an old listing, no  *)
(* client is pushed an older one than it has, and the list of clients, the *)
(* worker's copies of it and Zephyr's contexts stay in step.               *)
EXTENDS WebTransport, FiniteSetTheorems, SequenceTheorems, TLAPS

(* A request's listing is not ahead of what is published, the JSON is that *)
(* of the snapshot unless marked, and a response made for a request is at  *)
(* least as new as the listing of its arrival.                             *)
ListingInv ==
  /\ snapshot \in Nat /\ json \in Nat /\ dirty \in BOOLEAN /\ response \in Nat /\ asked \in Nat
  /\ hpc \in {"asked", "body"} => asked <= snapshot
  /\ ~dirty => json = snapshot
  /\ hpc = "body" => response >= asked

(* At boot the placeholder is published, encoded and asked for by no one.  *)
LEMMA ListingInit == Init => ListingInv
<1>1. Init => snapshot = 0 /\ json = 0 /\ dirty = FALSE /\ response = 0 /\ asked = 0 /\ hpc = "idle"
  BY Zenon DEF Init
<1> SUFFICES ASSUME Init PROVE ListingInv
  OBVIOUS
<1>2. snapshot \in Nat /\ json \in Nat /\ response \in Nat /\ asked \in Nat
  BY <1>1
<1>3. dirty \in BOOLEAN
  BY <1>1
<1>4. hpc \notin {"asked", "body"} /\ json = snapshot
  BY <1>1
<1> QED
  BY <1>2, <1>3, <1>4 DEF ListingInv

(* The variables that ListingInv is about.                                 *)
listingVars == <<snapshot, json, dirty, response, asked, hpc>>

(* A step on the connections or the semaphores alone keeps the invariant.  *)
LEMMA ListingUnchanged == ListingInv /\ UNCHANGED listingVars => ListingInv'
  BY DEF ListingInv, listingVars

(* Every step of the publisher, the HTTP thread, the worker and the pages  *)
(* keeps it: publishing marks the JSON, encoding makes it the snapshot's.  *)
LEMMA ListingStep == ListingInv /\ [Next]_vars => ListingInv'
<1> SUFFICES ASSUME ListingInv, [Next]_vars PROVE ListingInv'
  OBVIOUS
<1>1. CASE BringUp
  <2>1. UNCHANGED listingVars
    BY <1>1 DEF BringUp, StartServer, StartWifi, WifiUp, WifiLost, listingVars, dataVars, httpVars
  <2> QED
    BY <2>1, ListingUnchanged
<1>2. CASE PublishCatalog
  BY <1>2 DEF PublishCatalog, ListingInv, httpVars
<1>3. CASE PublishPresetChange
  BY <1>3 DEF PublishPresetChange, ListingInv, httpVars
<1>4. CASE WakeWorker
  BY <1>4, ListingUnchanged DEF WakeWorker, listingVars, dataVars, httpVars
<1>5. CASE Http
  <2>1. CASE HandlePresetsGet
    BY <2>1 DEF HandlePresetsGet, EncodeIfDirty, ListingInv
  <2>2. CASE BodySent
    BY <2>2 DEF BodySent, ListingInv, dataVars
  <2>3. CASE AddWsClient
    BY <2>3 DEF AddWsClient, ListingInv, dataVars
  <2>4. CASE RequestInitialSend
    BY <2>4 DEF RequestInitialSend, ListingInv, dataVars
  <2> QED
    BY <1>5, <2>1, <2>2, <2>3, <2>4 DEF Http
<1>6. CASE Pages
  <2>1. CASE GetArrives
    BY <2>1 DEF GetArrives, ListingInv, dataVars
  <2>2. ASSUME NEW s \in Socks, Upgrade(s) PROVE ListingInv'
    BY <2>2 DEF Upgrade, ListingInv, dataVars
  <2>3. ASSUME NEW s \in Socks, Vanish(s) PROVE ListingInv'
    BY <2>3, ListingUnchanged DEF Vanish, listingVars, dataVars, httpVars
  <2> QED
    BY <1>6, <2>1, <2>2, <2>3 DEF Pages
<1>7. CASE Worker
  <2>1. CASE Broadcast
    BY <2>1 DEF Broadcast, EncodeIfDirty, ListingInv, workerUnchanged, httpVars
  <2>2. CASE TakeWake \/ PollIntervalOver \/ Send \/ SendFails \/ EndBroadcast
    <3>1. UNCHANGED listingVars
      BY <2>2 DEF TakeWake, PollIntervalOver, Send, SendFails, EndBroadcast, workerUnchanged,
                  listingVars, dataVars, httpVars
    <3> QED
      BY <3>1, ListingUnchanged
  <2>3. CASE ListClients \/ PollQuiet \/ PollGone \/ EndPoll \/ Unregister
    <3>1. UNCHANGED listingVars
      BY <2>3 DEF ListClients, PollQuiet, PollGone, EndPoll, Unregister, workerUnchanged,
                  listingVars, dataVars, httpVars
    <3> QED
      BY <3>1, ListingUnchanged
  <2> QED
    BY <1>7, <2>1, <2>2, <2>3 DEF Worker
<1>8. CASE UNCHANGED vars
  BY <1>8, ListingUnchanged DEF vars, listingVars, dataVars, httpVars
<1> QED
  BY <1>1, <1>2, <1>3, <1>4, <1>5, <1>6, <1>7, <1>8 DEF Next, Publisher

(* "A GET can never serve a stale (or the startup placeholder) listing":   *)
(* whichever thread encodes, what is served is at least what was published *)
(* when the request came in.                                               *)
THEOREM ServesTheLatest == SafeSpec => []ServedIsCurrent
<1>1. Init => ListingInv
  BY ListingInit
<1>2. ListingInv /\ [Next]_vars => ListingInv'
  BY ListingStep
<1>3. ListingInv => ServedIsCurrent
  BY DEF ListingInv, ServedIsCurrent
<1> QED
  BY <1>1, <1>2, <1>3, PTL DEF SafeSpec

---------------------------------------------------------------------------
(* Lists without repetition                                                *)

(* An injective list over a finite set that leaves an element out is       *)
(* shorter than the set is large.                                          *)
LEMMA ShorterThan ==
  ASSUME NEW S, IsFiniteSet(S), NEW x \in S, NEW seq \in Seq(S), IsInjective(seq),
         x \notin Range(seq)
  PROVE  Len(seq) < Cardinality(S)
<1>1. IsFiniteSet(S \ {x}) /\ Cardinality(S \ {x}) = Cardinality(S) - 1
  BY FS_RemoveElement
<1>2. Cardinality(S) \in Nat
  BY FS_CardinalityType
<1>3. seq \in Injection(1 .. Len(seq), S \ {x})
  BY DEF IsInjective, Injection, Range
<1>4. Cardinality(1 .. Len(seq)) <= Cardinality(S \ {x})
  BY <1>1, <1>3, FS_Injection
<1>5. Len(seq) \in Nat
  OBVIOUS
<1>6. Cardinality(1 .. Len(seq)) = Len(seq)
  <2> DEFINE n == Len(seq)
  <2>1. n \in Nat
    OBVIOUS
  <2> HIDE DEF n
  <2>2. Cardinality(1 .. n) = IF 1 > n THEN 0 ELSE n - 1 + 1
    BY <2>1, FS_Interval
  <2>3. Cardinality(1 .. n) = n
    BY <2>1, <2>2
  <2> QED
    BY <2>3 DEF n
<1> QED
  BY <1>1, <1>2, <1>4, <1>5, <1>6

(* Removing an element of an injective list takes that element out of it   *)
(* and nothing else.                                                       *)
LEMMA RemoveFirstProperties ==
  ASSUME NEW S, NEW seq \in Seq(S), IsInjective(seq), NEW e \in Range(seq)
  PROVE  /\ RemoveFirst(seq, e) \in Seq(S)
         /\ Len(RemoveFirst(seq, e)) = Len(seq) - 1
         /\ IsInjective(RemoveFirst(seq, e))
         /\ Range(RemoveFirst(seq, e)) = Range(seq) \ {e}
<1> DEFINE n == Len(seq)
<1>1. PICK k \in DOMAIN seq : e = seq[k]
  BY DEF Range
<1> DEFINE left == SubSeq(seq, 1, k - 1)
           right == SubSeq(seq, k + 1, n)
           short == left \o right
<1>2. n \in Nat /\ k \in 1 .. n /\ DOMAIN seq = 1 .. n
  OBVIOUS
<1>3. RemoveFirst(seq, e) = short
  <2>1. {i \in 1 .. n : seq[i] = e} = {k}
    BY <1>1, <1>2 DEF IsInjective
  <2>2. Min({k}) = k
    BY <1>2 DEF Min
  <2> QED
    BY <1>1, <1>2, <2>1, <2>2 DEF RemoveFirst, RemoveAt, SelectInSeq
<1>4. left \in Seq(S) /\ Len(left) = k - 1 /\ \A i \in 1 .. k - 1 : left[i] = seq[i]
  BY <1>2, SubSeqProperties
<1>5. right \in Seq(S) /\ Len(right) = n - k /\ \A i \in 1 .. n - k : right[i] = seq[k + i]
  <2>1. \A i \in k + 1 .. n : seq[i] \in S
    BY <1>2
  <2>2. k + 1 \in Int /\ n \in Int
    BY <1>2
  <2>3. /\ right \in Seq(S)
        /\ Len(right) = IF k + 1 <= n THEN n - (k + 1) + 1 ELSE 0
        /\ \A i \in 1 .. n - (k + 1) + 1 : right[i] = seq[(k + 1) + i - 1]
    BY <2>1, <2>2, SubSeqProperties
  <2>4. Len(right) = n - k
    BY <1>2, <2>3
  <2>5. ASSUME NEW i \in 1 .. n - k PROVE right[i] = seq[k + i]
    <3>1. i \in 1 .. n - (k + 1) + 1 /\ (k + 1) + i - 1 = k + i
      BY <1>2
    <3> QED
      BY <2>3, <3>1
  <2> QED
    BY <2>3, <2>4, <2>5
<1> HIDE DEF left, right
<1>6. /\ short \in Seq(S) /\ Len(short) = n - 1
      /\ \A i \in 1 .. n - 1 : short[i] = IF i <= k - 1 THEN left[i] ELSE right[i - (k - 1)]
  <2> HIDE DEF n
  <2>1. /\ short \in Seq(S) /\ Len(short) = Len(left) + Len(right)
        /\ \A i \in 1 .. Len(left) + Len(right) :
             short[i] = IF i <= Len(left) THEN left[i] ELSE right[i - Len(left)]
    BY <1>4, <1>5, ConcatProperties
  <2> HIDE DEF short
  <2>2. Len(left) + Len(right) = n - 1
    BY <1>2, <1>4, <1>5
  <2> QED
    BY <1>4, <2>1, <2>2
<1> HIDE DEF short, n
<1>7. DOMAIN short = 1 .. n - 1
  BY <1>6, LenProperties
<1>8. ASSUME NEW i \in 1 .. n - 1 PROVE short[i] = seq[IF i < k THEN i ELSE i + 1]
  <2>1. CASE i < k
    BY <1>2, <1>4, <1>6, <2>1
  <2>2. CASE ~(i < k)
    <3>1. i - (k - 1) \in 1 .. n - k /\ k + (i - (k - 1)) = i + 1 /\ ~(i <= k - 1)
      BY <1>2, <2>2
    <3>2. right[i - (k - 1)] = seq[i + 1]
      BY <1>5, <3>1
    <3> QED
      BY <1>6, <2>2, <3>1, <3>2
  <2> QED
    BY <2>1, <2>2
<1>9. IsInjective(short)
  <2> DEFINE at(i) == IF i < k THEN i ELSE i + 1
  <2>1. \A i, j \in 1 .. n - 1 : at(i) \in 1 .. n /\ (at(i) = at(j) => i = j)
    BY <1>2
  <2>2. \A i \in 1 .. n - 1 : short[i] = seq[at(i)]
    BY <1>8
  <2> HIDE DEF at
  <2>3. ASSUME NEW i \in 1 .. n - 1, NEW j \in 1 .. n - 1, short[i] = short[j] PROVE i = j
    <3>1. seq[at(i)] = seq[at(j)] /\ at(i) \in DOMAIN seq /\ at(j) \in DOMAIN seq
      BY <1>2, <2>1, <2>2, <2>3
    <3>2. at(i) = at(j)
      BY <3>1 DEF IsInjective
    <3> QED
      BY <2>1, <3>2
  <2> QED
    BY <1>7, <2>3 DEF IsInjective
<1>10. Range(short) = Range(seq) \ {e}
  <2>1. ASSUME NEW i \in 1 .. n - 1 PROVE short[i] \in Range(seq) \ {e}
    <3>1. PICK j \in 1 .. n : j # k /\ short[i] = seq[j]
      BY <1>2, <1>8
    <3> QED
      BY <1>1, <1>2, <3>1 DEF IsInjective, Range
  <2>2. ASSUME NEW j \in 1 .. n, j # k PROVE \E i \in 1 .. n - 1 : short[i] = seq[j]
    <3>1. CASE j < k
      <4>1. j \in 1 .. n - 1
        BY <1>2, <3>1
      <4> QED
        BY <1>8, <3>1, <4>1
    <3>2. CASE j > k
      <4>1. j - 1 \in 1 .. n - 1 /\ ~(j - 1 < k) /\ (j - 1) + 1 = j
        BY <1>2, <3>2
      <4> QED
        BY <1>8, <4>1
    <3> QED
      BY <1>2, <2>2, <3>1, <3>2
  <2>3. Range(short) \subseteq Range(seq) \ {e}
    BY <1>7, <2>1 DEF Range
  <2>4. ASSUME NEW x \in Range(seq), x # e PROVE x \in Range(short)
    <3>1. PICK j \in 1 .. n : x = seq[j]
      BY <1>2 DEF Range
    <3>2. j # k
      BY <1>1, <2>4, <3>1
    <3> QED
      BY <1>7, <2>2, <3>1, <3>2 DEF Range
  <2> QED
    BY <2>3, <2>4
<1> QED
  BY <1>3, <1>6, <1>9, <1>10 DEF n

(* The rest of an injective list is injective and leaves the head out.     *)
LEMMA TailProperties ==
  ASSUME NEW S, NEW seq \in Seq(S), seq # << >>, IsInjective(seq)
  PROVE  /\ Head(seq) \in Range(seq) /\ Tail(seq) \in Seq(S)
         /\ IsInjective(Tail(seq)) /\ Range(Tail(seq)) = Range(seq) \ {Head(seq)}
<1> DEFINE n == Len(seq)
           rest == Tail(seq)
<1>1. n \in Nat \ {0} /\ DOMAIN seq = 1 .. n /\ Head(seq) = seq[1]
  BY EmptySeq, LenProperties
<1>2. rest \in Seq(S) /\ Len(rest) = n - 1 /\ \A i \in 1 .. n - 1 : rest[i] = seq[i + 1]
  BY HeadTailProperties
<1>3. DOMAIN rest = 1 .. n - 1
  BY <1>2, LenProperties
<1> HIDE DEF n, rest
<1>4. IsInjective(rest)
  <2>1. ASSUME NEW i \in 1 .. n - 1, NEW j \in 1 .. n - 1, rest[i] = rest[j] PROVE i = j
    <3>1. i + 1 \in DOMAIN seq /\ j + 1 \in DOMAIN seq /\ seq[i + 1] = seq[j + 1]
      BY <1>1, <1>2, <2>1
    <3>2. i + 1 = j + 1
      BY <3>1 DEF IsInjective
    <3> QED
      BY <1>1, <3>2
  <2> QED
    BY <1>3, <2>1 DEF IsInjective
<1>5. Range(rest) \subseteq Range(seq) \ {Head(seq)}
  <2>1. ASSUME NEW i \in 1 .. n - 1 PROVE rest[i] \in Range(seq) /\ rest[i] # seq[1]
    <3>1. i + 1 \in 1 .. n /\ i + 1 # 1 /\ 1 \in 1 .. n
      BY <1>1
    <3>2. rest[i] = seq[i + 1]
      BY <1>2
    <3>3. seq[i + 1] # seq[1]
      BY <1>1, <3>1 DEF IsInjective
    <3> QED
      BY <1>1, <3>1, <3>2, <3>3 DEF Range
  <2> QED
    BY <1>1, <1>3, <2>1 DEF Range
<1>6. ASSUME NEW x \in Range(seq), x # Head(seq) PROVE x \in Range(rest)
  <2>1. PICK j \in 1 .. n : x = seq[j]
    BY <1>1 DEF Range
  <2>2. j - 1 \in 1 .. n - 1 /\ (j - 1) + 1 = j
    BY <1>1, <1>6, <2>1
  <2>3. x = rest[j - 1]
    BY <1>2, <2>1, <2>2
  <2> QED
    BY <1>3, <2>2, <2>3 DEF Range
<1>7. Head(seq) \in Range(seq)
  BY <1>1 DEF Range
<1> QED
  BY <1>2, <1>4, <1>5, <1>6, <1>7 DEF rest

(* An element that is new to an injective list may be appended to it.      *)
LEMMA AppendFresh ==
  ASSUME NEW S, NEW seq \in Seq(S), IsInjective(seq), NEW e \in S, e \notin Range(seq)
  PROVE  /\ Append(seq, e) \in Seq(S) /\ Len(Append(seq, e)) = Len(seq) + 1
         /\ IsInjective(Append(seq, e)) /\ Range(Append(seq, e)) = Range(seq) \cup {e}
<1> DEFINE n == Len(seq)
           longer == Append(seq, e)
<1>1. n \in Nat /\ DOMAIN seq = 1 .. n
  BY LenProperties
<1>2. longer \in Seq(S) /\ Len(longer) = n + 1
  OBVIOUS
<1>3. \A i \in 1 .. n + 1 : longer[i] = IF i = n + 1 THEN e ELSE seq[i]
  BY <1>1
<1>4. DOMAIN longer = 1 .. n + 1
  BY <1>2, LenProperties
<1> HIDE DEF n, longer
<1>5. \A i \in 1 .. n + 1 : i # n + 1 => i \in 1 .. n /\ seq[i] # e
  BY <1>1 DEF Range
<1>6. IsInjective(longer)
  BY <1>1, <1>3, <1>4, <1>5 DEF IsInjective
<1>7. n + 1 \in 1 .. n + 1 /\ \A i \in 1 .. n : i \in 1 .. n + 1 /\ i # n + 1
  BY <1>1
<1>8. Range(longer) = Range(seq) \cup {e}
  BY <1>1, <1>3, <1>4, <1>5, <1>7 DEF Range
<1>9. longer \in Seq(S) /\ Len(longer) = Len(seq) + 1
  BY <1>2 DEF n
<1> QED
  BY <1>6, <1>8, <1>9 DEF longer

---------------------------------------------------------------------------
(* The clients                                                             *)

(* The worker's copy holds only sockets that are still listed, a socket is *)
(* listed only while it has its context, and a context that is taken is    *)
(* listed, on its way out of the list or on its way into it - in one place *)
(* only, so that there is room in the list for the one on its way in.      *)
ClientsInv ==
  /\ IsInjective(clients) /\ IsInjective(todo) /\ Range(todo) \subseteq Listed
  /\ \A s \in Listed : conn[s].state # "free"
  /\ leaving # NoSock => leaving \notin Listed /\ conn[leaving].state # "free"
  /\ hpc = "setup" => /\ joining \in Socks \ Listed /\ joining # leaving
                      /\ conn[joining].state # "free"
  /\ \A s \in Socks :
       conn[s].state # "free" =>
         s \in Listed \/ s = leaving \/ (hpc = "setup" /\ s = joining)

IInv == TypeOK /\ ClientsInv

(* What ClientsInv is about.                                               *)
clientsVars == <<clients, todo, leaving, conn, joining>>

(* At boot nobody is connected.                                            *)
LEMMA ClientsInit == Init => IInv
<1> SUFFICES ASSUME Init PROVE IInv
  OBVIOUS
<1>1. BringUpTypeOK /\ DataTypeOK
  <2>1. dirty = FALSE /\ pending = FALSE
    BY Zenon DEF Init
  <2>2. snapshot = 0 /\ json = 0 /\ change = 0 /\ sem = 0 /\ ppc = "idle"
    BY DEF Init
  <2>3. server = "off" /\ wifi = "off" /\ outages = 0
    BY DEF Init
  <2>4. dirty \in BOOLEAN /\ pending \in BOOLEAN
    BY <2>1, Zenon
  <2> QED
    BY <2>2, <2>3, <2>4 DEF BringUpTypeOK, DataTypeOK
<1>2. conn \in [Socks -> Connection] /\ \A s \in Socks : conn[s].state = "free"
  BY DEF Init, Fresh, Connection
<1>3. ClientsTypeOK
  BY <1>2, TransportAssumption, EmptySeq DEF Init, ClientsTypeOK
<1>4. WorkerTypeOK
  BY EmptySeq DEF Init, WorkerTypeOK
<1>5. HttpTypeOK
  BY DEF Init, HttpTypeOK
<1>6. clients = << >> /\ todo = << >> /\ leaving = NoSock /\ hpc = "idle"
  BY DEF Init
<1>7. ClientsInv
  BY <1>2, <1>6 DEF ClientsInv, Listed, IsInjective, Range
<1> QED
  BY <1>1, <1>3, <1>4, <1>5, <1>7 DEF IInv, TypeOK

(* A step that changes neither the lists nor the connections, and does not *)
(* begin or end a set-up, keeps the invariant.                             *)
LEMMA ClientsUnchanged ==
  ASSUME ClientsInv, UNCHANGED <<clients, todo, leaving, conn>>,
         \/ UNCHANGED <<hpc, joining>>
         \/ hpc # "setup" /\ hpc' # "setup"
  PROVE  ClientsInv'
BY DEF ClientsInv, Listed

(* Nor does one that changes what is known of a connection, but not        *)
(* whether its context is taken.                                           *)
LEMMA SameContexts ==
  ASSUME IInv, UNCHANGED <<clients, leaving, hpc, joining>>,
         todo' = todo \/ (todo # << >> /\ todo' = Tail(todo)),
         \A x \in Socks : conn'[x].state = "free" <=> conn[x].state = "free"
  PROVE  ClientsInv'
<1>1. ClientsInv /\ todo \in Seq(Socks)
  BY DEF IInv, TypeOK, WorkerTypeOK
<1>2. Listed \subseteq Socks /\ (leaving # NoSock => leaving \in Socks)
  BY ElementOfSeq DEF IInv, TypeOK, ClientsTypeOK, WorkerTypeOK, Listed, Range
<1>3. IsInjective(todo') /\ Range(todo') \subseteq Listed
  BY <1>1, TailProperties DEF ClientsInv
<1>4. clients' = clients /\ Listed' = Listed
  BY DEF Listed
<1> QED
  BY <1>1, <1>2, <1>3, <1>4 DEF ClientsInv

(* There is room in the list for a socket that is not in it: no more       *)
(* contexts than clients, and each is listed once.                         *)
LEMMA RoomToJoin ==
  ASSUME IInv, NEW s \in Socks, s \notin Listed
  PROVE  Len(clients) < MaxClients
<1>1. clients \in Seq(Socks) /\ IsInjective(clients)
  BY DEF IInv, TypeOK, ClientsTypeOK, ClientsInv
<1>2. Len(clients) < Cardinality(Socks)
  BY <1>1, TransportAssumption, ShorterThan DEF Listed
<1> QED
  BY <1>1, <1>2, TransportAssumption, FS_CardinalityType, LenProperties

(* removeWsClient(): the head of the worker's copy is on its way out of    *)
(* the list.                                                               *)
LEMMA DropStep ==
  ASSUME IInv, todo # << >>, leaving = NoSock, Drop, todo' = Tail(todo),
         UNCHANGED <<hpc, joining>>
  PROVE  /\ ClientsTypeOK' /\ todo' \in Seq(Socks) /\ leaving' \in Socks
         /\ ClientsInv'
<1> DEFINE s == Head(todo)
<1>1. clients \in Seq(Socks) /\ Len(clients) <= MaxClients /\ conn \in [Socks -> Connection]
  BY DEF IInv, TypeOK, ClientsTypeOK
<1>2. todo \in Seq(Socks) /\ IsInjective(todo) /\ IsInjective(clients) /\ Range(todo) \subseteq Listed
  BY DEF IInv, TypeOK, WorkerTypeOK, ClientsInv
<1>3. /\ s \in Range(todo) /\ todo' \in Seq(Socks)
      /\ IsInjective(todo') /\ Range(todo') = Range(todo) \ {s}
  BY <1>2, TailProperties
<1>4. s \in Socks /\ s \in Listed
  BY <1>2, <1>3, HeadTailProperties
<1>5. leaving' = s /\ clients' = RemoveFirst(clients, s) /\ conn' = conn
  BY DEF Drop, Without
<1> HIDE DEF s
<1>6. /\ clients' \in Seq(Socks) /\ Len(clients') = Len(clients) - 1
      /\ IsInjective(clients') /\ Listed' = Listed \ {s}
  BY <1>1, <1>2, <1>4, <1>5, RemoveFirstProperties DEF Listed
<1>7. MaxClients \in Nat /\ Len(clients) \in Nat /\ NoSock \notin Socks
  BY <1>1, TransportAssumption, LenProperties
<1>8. ClientsTypeOK'
  BY <1>1, <1>5, <1>6, <1>7 DEF ClientsTypeOK
<1>9. ClientsInv'
  <2>1. IsInjective(clients') /\ IsInjective(todo') /\ Range(todo') \subseteq Listed'
    BY <1>2, <1>3, <1>6
  <2>2. \A x \in Listed' : conn'[x].state # "free"
    BY <1>5, <1>6 DEF IInv, ClientsInv
  <2>3. leaving' \notin Listed' /\ conn'[leaving'].state # "free"
    BY <1>4, <1>5, <1>6 DEF IInv, ClientsInv
  <2>4. hpc' = "setup" => /\ joining' \in Socks \ Listed' /\ joining' # leaving'
                          /\ conn'[joining'].state # "free"
    BY <1>4, <1>5, <1>6 DEF IInv, ClientsInv
  <2>5. ASSUME NEW x \in Socks, conn'[x].state # "free"
        PROVE  x \in Listed' \/ x = leaving' \/ (hpc' = "setup" /\ x = joining')
    <3>1. x \in Listed \/ (hpc = "setup" /\ x = joining)
      BY <1>5, <1>7, <2>5 DEF IInv, ClientsInv
    <3> QED
      BY <1>5, <1>6, <3>1
  <2> QED
    BY <2>1, <2>2, <2>3, <2>4, <2>5 DEF ClientsInv
<1> QED
  BY <1>3, <1>4, <1>5, <1>8, <1>9

(* The network and the server come up.                                     *)
LEMMA BringUpStep == ASSUME IInv, BringUp PROVE IInv'
<1>1. BringUpTypeOK'
  BY DEF BringUp, StartServer, StartWifi, WifiUp, WifiLost, IInv, TypeOK, BringUpTypeOK
<1>2. /\ UNCHANGED <<dataVars, sem, ppc, clients, conn, frame, todo, leaving, httpVars>>
      /\ wpc' \in {wpc, "wait"}
  BY DEF BringUp, StartServer, StartWifi, WifiUp, WifiLost, workerVars
<1>3. DataTypeOK' /\ ClientsTypeOK' /\ WorkerTypeOK' /\ HttpTypeOK'
  BY <1>2 DEF IInv, TypeOK, DataTypeOK, ClientsTypeOK, WorkerTypeOK, HttpTypeOK, dataVars, httpVars
<1>4. ClientsInv'
  BY <1>2, ClientsUnchanged DEF IInv, httpVars
<1> QED
  BY <1>1, <1>3, <1>4 DEF IInv, TypeOK

(* The session publishes, and wakes the worker.                            *)
LEMMA PublisherStep == ASSUME IInv, Publisher \/ WakeWorker PROVE IInv'
<1>1. UNCHANGED <<bringUpVars, clients, conn, workerVars, httpVars>>
  BY DEF Publisher, PublishCatalog, PublishPresetChange, WakeWorker
<1>2. BringUpTypeOK' /\ ClientsTypeOK' /\ WorkerTypeOK' /\ HttpTypeOK'
  BY <1>1 DEF IInv, TypeOK, BringUpTypeOK, ClientsTypeOK, WorkerTypeOK, HttpTypeOK,
              bringUpVars, workerVars, httpVars
<1>3. DataTypeOK
  BY DEF IInv, TypeOK
<1>4. dirty' \in BOOLEAN /\ pending' \in BOOLEAN
  BY <1>3, Zenon DEF DataTypeOK, Publisher, PublishCatalog, PublishPresetChange, WakeWorker, dataVars
<1>5. snapshot' \in Nat /\ json' \in Nat /\ change' \in Nat /\ sem' \in 0 .. 1 /\ ppc' \in {"idle", "give"}
  BY <1>3 DEF DataTypeOK, Publisher, PublishCatalog, PublishPresetChange, WakeWorker, dataVars
<1>6. DataTypeOK'
  BY <1>4, <1>5 DEF DataTypeOK
<1>7. ClientsInv'
  BY <1>1, ClientsUnchanged DEF IInv, workerVars, httpVars
<1> QED
  BY <1>2, <1>6, <1>7 DEF IInv, TypeOK

(* A request is answered: the connections are not touched.                 *)
LEMMA GetStep == ASSUME IInv, GetArrives \/ HandlePresetsGet \/ BodySent PROVE IInv'
<1>1. UNCHANGED <<bringUpVars, sem, ppc, clients, conn, workerVars>>
  BY DEF GetArrives, HandlePresetsGet, BodySent
<1>2. BringUpTypeOK' /\ ClientsTypeOK' /\ WorkerTypeOK'
  BY <1>1 DEF IInv, TypeOK, BringUpTypeOK, ClientsTypeOK, WorkerTypeOK, bringUpVars, workerVars
<1>3. DataTypeOK /\ HttpTypeOK
  BY DEF IInv, TypeOK
<1>4. dirty' \in BOOLEAN /\ pending' \in BOOLEAN
  BY <1>3, Zenon DEF DataTypeOK, GetArrives, HandlePresetsGet, BodySent, EncodeIfDirty, dataVars
<1>5. snapshot' \in Nat /\ json' \in Nat /\ change' \in Nat
  BY <1>3 DEF DataTypeOK, GetArrives, HandlePresetsGet, BodySent, EncodeIfDirty, dataVars
<1>6. DataTypeOK'
  BY <1>1, <1>3, <1>4, <1>5 DEF DataTypeOK
<1>7. HttpTypeOK'
  BY <1>3, <1>5 DEF DataTypeOK, HttpTypeOK, GetArrives, HandlePresetsGet, BodySent
<1>8. ClientsInv'
  <2>1. hpc # "setup" /\ hpc' # "setup"
    BY DEF GetArrives, HandlePresetsGet, BodySent
  <2> QED
    BY <1>1, <2>1, ClientsUnchanged DEF IInv, workerVars
<1> QED
  BY <1>2, <1>6, <1>7, <1>8 DEF IInv, TypeOK

(* Zephyr takes a free context for an upgrade.                             *)
LEMMA UpgradeStep == ASSUME IInv, NEW s \in Socks, Upgrade(s) PROVE IInv'
<1>1. UNCHANGED <<bringUpVars, dataVars, sem, ppc, clients, workerVars>>
  BY DEF Upgrade
<1>2. BringUpTypeOK' /\ DataTypeOK' /\ WorkerTypeOK'
  BY <1>1 DEF IInv, TypeOK, BringUpTypeOK, DataTypeOK, WorkerTypeOK, bringUpVars, dataVars, workerVars
<1>3. conn \in [Socks -> Connection] /\ conn[s].state = "free" /\ conn' = [conn EXCEPT ![s] = Fresh("open")]
  BY DEF IInv, TypeOK, ClientsTypeOK, Upgrade
<1>4. Fresh("open") \in Connection /\ Fresh("open").state = "open"
  BY DEF Fresh, Connection
<1>5. conn' \in [Socks -> Connection] /\ \A x \in Socks : conn'[x] = IF x = s THEN Fresh("open") ELSE conn[x]
  BY <1>3, <1>4
<1>6. ClientsTypeOK'
  BY <1>1, <1>5 DEF IInv, TypeOK, ClientsTypeOK
<1>7. HttpTypeOK'
  BY DEF IInv, TypeOK, HttpTypeOK, Upgrade
<1>8. ClientsInv'
  <2>1. hpc = "idle" /\ hpc' = "setup" /\ joining' = s
    BY DEF Upgrade
  <2>2. Listed \subseteq Socks /\ leaving \in Socks \cup {NoSock} /\ NoSock \notin Socks
    BY TransportAssumption, ElementOfSeq
       DEF IInv, TypeOK, ClientsTypeOK, WorkerTypeOK, Listed, Range
  <2>3. Listed' = Listed /\ todo' = todo /\ leaving' = leaving /\ clients' = clients
    BY <1>1 DEF Listed, workerVars
  <2>4. ClientsInv
    BY DEF IInv
  <2>5. s \notin Listed /\ s # leaving
    BY <1>3, <2>2, <2>4 DEF ClientsInv
  <2>6. \A x \in Socks : conn'[x].state # "free" <=> x = s \/ conn[x].state # "free"
    BY <1>4, <1>5
  <2>7. \A x \in Listed' : conn'[x].state # "free"
    BY <2>2, <2>3, <2>4, <2>6 DEF ClientsInv
  <2>8. leaving' # NoSock => leaving' \notin Listed' /\ conn'[leaving'].state # "free"
    BY <2>2, <2>3, <2>4, <2>6 DEF ClientsInv
  <2>9. joining' \in Socks \ Listed' /\ joining' # leaving' /\ conn'[joining'].state # "free"
    BY <2>1, <2>3, <2>5, <2>6
  <2>10. \A x \in Socks : conn'[x].state # "free" =>
            x \in Listed' \/ x = leaving' \/ (hpc' = "setup" /\ x = joining')
    BY <2>1, <2>3, <2>4, <2>6 DEF ClientsInv
  <2>11. IsInjective(clients') /\ IsInjective(todo') /\ Range(todo') \subseteq Listed'
    BY <2>3, <2>4 DEF ClientsInv
  <2> QED
    BY <2>7, <2>8, <2>9, <2>10, <2>11 DEF ClientsInv
<1> QED
  BY <1>2, <1>6, <1>7, <1>8 DEF IInv, TypeOK

(* addWsClient() finds room, and the new client wakes the worker.          *)
LEMMA SetupStep == ASSUME IInv, AddWsClient \/ RequestInitialSend PROVE IInv'
<1>1. UNCHANGED <<bringUpVars, dataVars, ppc, workerVars, conn>>
  BY DEF AddWsClient, RequestInitialSend
<1>2. sem' \in {sem, 1}
  BY DEF AddWsClient, RequestInitialSend
<1>3. BringUpTypeOK' /\ DataTypeOK' /\ WorkerTypeOK'
  BY <1>1, <1>2 DEF IInv, TypeOK, BringUpTypeOK, DataTypeOK, WorkerTypeOK, bringUpVars, dataVars, workerVars
<1>4. HttpTypeOK'
  BY DEF IInv, TypeOK, HttpTypeOK, AddWsClient, RequestInitialSend
<1>5. clients \in Seq(Socks) /\ Len(clients) <= MaxClients /\ conn \in [Socks -> Connection] /\ ClientsInv
  BY DEF IInv, TypeOK, ClientsTypeOK
<1>6. CASE RequestInitialSend
  <2>1. clients' = clients /\ hpc # "setup" /\ hpc' # "setup"
    BY <1>6 DEF RequestInitialSend
  <2>2. ClientsTypeOK'
    BY <1>1, <1>5, <2>1 DEF ClientsTypeOK
  <2>3. ClientsInv'
    BY <1>1, <1>5, <2>1, ClientsUnchanged DEF workerVars
  <2> QED
    BY <1>3, <1>4, <2>2, <2>3 DEF IInv, TypeOK
<1>7. CASE AddWsClient
  <2>1. hpc = "setup" /\ hpc' = "wake"
    BY <1>7 DEF AddWsClient
  <2>2. joining \in Socks \ Listed /\ joining # leaving /\ conn[joining].state # "free"
    BY <1>5, <2>1 DEF ClientsInv
  <2>3. Len(clients) < MaxClients
    BY <1>5, <2>2, RoomToJoin
  <2>4. clients' = Append(clients, joining)
    BY <1>5, <1>7, <2>3, TransportAssumption, LenProperties DEF AddWsClient
  <2>5. /\ clients' \in Seq(Socks) /\ Len(clients') = Len(clients) + 1
        /\ IsInjective(clients') /\ Listed' = Listed \cup {joining}
    BY <1>5, <2>2, <2>4, AppendFresh DEF ClientsInv, Listed
  <2>6. ClientsTypeOK'
    BY <1>1, <1>5, <2>3, <2>5, TransportAssumption, LenProperties DEF ClientsTypeOK
  <2>7. ClientsInv'
    BY <1>1, <1>5, <2>1, <2>2, <2>5 DEF ClientsInv, workerVars
  <2> QED
    BY <1>3, <1>4, <2>6, <2>7 DEF IInv, TypeOK
<1> QED
  BY <1>6, <1>7

(* A page goes: its context stays taken.                                   *)
LEMMA VanishStep == ASSUME IInv, NEW s \in Socks, Vanish(s) PROVE IInv'
<1>1. UNCHANGED <<bringUpVars, dataVars, sem, clients, ppc, workerVars, httpVars>>
  BY DEF Vanish
<1>2. BringUpTypeOK' /\ DataTypeOK' /\ WorkerTypeOK' /\ HttpTypeOK'
  BY <1>1 DEF IInv, TypeOK, BringUpTypeOK, DataTypeOK, WorkerTypeOK, HttpTypeOK,
              bringUpVars, dataVars, workerVars, httpVars
<1>3. conn \in [Socks -> Connection] /\ conn[s].state = "open" /\ conn' = [conn EXCEPT ![s] = Fresh("gone")]
  BY DEF IInv, TypeOK, ClientsTypeOK, Vanish
<1>4. Fresh("gone") \in Connection /\ Fresh("gone").state = "gone"
  BY DEF Fresh, Connection
<1>5. conn' \in [Socks -> Connection] /\ \A x \in Socks : conn'[x].state = "free" <=> conn[x].state = "free"
  BY <1>3, <1>4
<1>6. ClientsTypeOK'
  BY <1>1, <1>5 DEF IInv, TypeOK, ClientsTypeOK
<1>7. ClientsInv'
  BY <1>1, <1>5, SameContexts DEF workerVars, httpVars
<1> QED
  BY <1>2, <1>6, <1>7 DEF IInv, TypeOK

(* The worker takes its copy of the list, for a broadcast or for a poll.   *)
LEMMA CopyStep == ASSUME IInv, Broadcast \/ ListClients PROVE IInv'
<1>1. UNCHANGED <<bringUpVars, ppc, httpVars, sem, clients, leaving, conn, snapshot, change>>
  BY DEF Broadcast, ListClients, workerUnchanged, dataVars
<1>2. todo' = clients /\ wpc' \in {"send", "poll"}
  BY DEF Broadcast, ListClients
<1>3. BringUpTypeOK' /\ ClientsTypeOK' /\ HttpTypeOK'
  BY <1>1 DEF IInv, TypeOK, BringUpTypeOK, ClientsTypeOK, HttpTypeOK, bringUpVars, httpVars
<1>4. DataTypeOK /\ WorkerTypeOK /\ ClientsTypeOK
  BY DEF IInv, TypeOK
<1>5. dirty' \in BOOLEAN /\ pending' \in BOOLEAN
  BY <1>4, Zenon DEF DataTypeOK, Broadcast, ListClients, EncodeIfDirty, dataVars
<1>6. json' \in Nat
  BY <1>4 DEF DataTypeOK, Broadcast, ListClients, EncodeIfDirty, dataVars
<1>7. DataTypeOK'
  BY <1>1, <1>4, <1>5, <1>6 DEF DataTypeOK
<1>8. frame' \in [listing : Nat, change : Nat]
  <2>1. CASE Broadcast
    <3>1. change \in Nat /\ frame' = [listing |-> json', change |-> IF pending THEN change ELSE 0]
      BY <1>4, <2>1 DEF Broadcast, DataTypeOK
    <3>2. (IF pending THEN change ELSE 0) \in Nat
      BY <3>1
    <3> QED
      BY <1>6, <3>1, <3>2
  <2>2. CASE ListClients
    BY <1>4, <2>2 DEF ListClients, WorkerTypeOK
  <2> QED
    BY <2>1, <2>2
<1>9. WorkerTypeOK'
  BY <1>1, <1>2, <1>4, <1>8 DEF WorkerTypeOK, ClientsTypeOK
<1>10. ClientsInv'
  BY <1>1, <1>2 DEF IInv, ClientsInv, Listed, httpVars
<1> QED
  BY <1>3, <1>7, <1>9, <1>10 DEF IInv, TypeOK

(* The worker writes to the next client, or hears nothing from it.         *)
LEMMA SendStep == ASSUME IInv, Send \/ PollQuiet PROVE IInv'
<1>1. /\ UNCHANGED <<bringUpVars, dataVars, ppc, httpVars, sem, clients, leaving, wpc, frame>>
      /\ todo # << >> /\ todo' = Tail(todo)
  BY DEF Send, PollQuiet, workerUnchanged
<1>2. BringUpTypeOK' /\ DataTypeOK' /\ HttpTypeOK'
  BY <1>1 DEF IInv, TypeOK, BringUpTypeOK, DataTypeOK, HttpTypeOK, bringUpVars, dataVars, httpVars
<1>3. WorkerTypeOK'
  BY <1>1, HeadTailProperties DEF IInv, TypeOK, WorkerTypeOK
<1>4. conn \in [Socks -> Connection] /\ frame \in [listing : Nat, change : Nat]
  BY DEF IInv, TypeOK, ClientsTypeOK, WorkerTypeOK
<1>5. ASSUME NEW c \in Connection PROVE Received(c) \in Connection /\ Received(c).state = c.state
  <2>1. CASE c.state # "open"
    BY <2>1 DEF Received
  <2>2. CASE c.state = "open"
    <3>1. frame.listing \in Nat /\ (IF frame.change > 0 THEN frame.change ELSE c.change) \in Nat
      BY <1>4 DEF Connection
    <3> QED
      BY <2>2, <3>1 DEF Received, Connection
  <2> QED
    BY <2>1, <2>2
<1>6. /\ conn' \in [Socks -> Connection]
      /\ \A x \in Socks : conn'[x].state = "free" <=> conn[x].state = "free"
  <2>1. CASE Send
    <3>1. conn' = [conn EXCEPT ![Head(todo)] = Received(conn[Head(todo)])]
      BY <2>1 DEF Send
    <3>2. Head(todo) \in Socks
      BY <1>1, HeadTailProperties DEF IInv, TypeOK, WorkerTypeOK
    <3> QED
      BY <1>4, <1>5, <3>1, <3>2
  <2>2. CASE PollQuiet
    BY <1>4, <2>2 DEF PollQuiet
  <2> QED
    BY <2>1, <2>2
<1>7. ClientsTypeOK'
  BY <1>1, <1>6 DEF IInv, TypeOK, ClientsTypeOK
<1>8. ClientsInv'
  BY <1>1, <1>6, SameContexts DEF httpVars
<1> QED
  BY <1>2, <1>3, <1>7, <1>8 DEF IInv, TypeOK

(* A client that takes or says nothing more is removed ...                 *)
LEMMA RemoveStep == ASSUME IInv, SendFails \/ PollGone PROVE IInv'
<1>1. /\ UNCHANGED <<bringUpVars, dataVars, ppc, httpVars, sem, wpc, frame>>
      /\ todo # << >> /\ leaving = NoSock /\ Drop /\ todo' = Tail(todo)
  BY DEF SendFails, PollGone, workerUnchanged
<1>2. BringUpTypeOK' /\ DataTypeOK' /\ HttpTypeOK'
  BY <1>1 DEF IInv, TypeOK, BringUpTypeOK, DataTypeOK, HttpTypeOK, bringUpVars, dataVars, httpVars
<1>3. ClientsTypeOK' /\ todo' \in Seq(Socks) /\ leaving' \in Socks /\ ClientsInv'
  BY <1>1, DropStep DEF httpVars
<1>4. WorkerTypeOK'
  BY <1>1, <1>3 DEF IInv, TypeOK, WorkerTypeOK
<1> QED
  BY <1>2, <1>3, <1>4 DEF IInv, TypeOK

(* ... and only then is its context given back.                            *)
LEMMA UnregisterStep == ASSUME IInv, Unregister PROVE IInv'
<1>1. /\ UNCHANGED <<bringUpVars, dataVars, ppc, httpVars, sem, clients, wpc, frame, todo>>
      /\ leaving # NoSock /\ leaving' = NoSock
  BY DEF Unregister, workerUnchanged
<1>2. BringUpTypeOK' /\ DataTypeOK' /\ HttpTypeOK' /\ WorkerTypeOK'
  BY <1>1 DEF IInv, TypeOK, BringUpTypeOK, DataTypeOK, HttpTypeOK, WorkerTypeOK,
              bringUpVars, dataVars, httpVars
<1>3. leaving \in Socks /\ conn \in [Socks -> Connection] /\ NoSock \notin Socks
  BY <1>1, TransportAssumption DEF IInv, TypeOK, WorkerTypeOK, ClientsTypeOK
<1>4. Fresh("free") \in Connection /\ Fresh("free").state = "free"
  BY DEF Fresh, Connection
<1>5. conn' = [conn EXCEPT ![leaving] = Fresh("free")]
  BY DEF Unregister
<1>6. /\ conn' \in [Socks -> Connection]
      /\ \A x \in Socks : conn'[x] = IF x = leaving THEN Fresh("free") ELSE conn[x]
  BY <1>3, <1>4, <1>5
<1>7. ClientsTypeOK'
  BY <1>1, <1>6 DEF IInv, TypeOK, ClientsTypeOK
<1>8. ClientsInv'
  <2>1. Listed' = Listed /\ Listed \subseteq Socks
    BY <1>1, ElementOfSeq DEF IInv, TypeOK, ClientsTypeOK, Listed, Range
  <2>2. hpc' = hpc /\ joining' = joining
    BY <1>1 DEF httpVars
  <2> QED
    BY <1>1, <1>3, <1>4, <1>6, <2>1, <2>2 DEF IInv, ClientsInv
<1> QED
  BY <1>2, <1>7, <1>8 DEF IInv, TypeOK

(* Otherwise the worker only moves on.                                     *)
LEMMA WorkerStep == ASSUME IInv, Worker PROVE IInv'
<1>1. CASE TakeWake \/ PollIntervalOver \/ EndBroadcast \/ EndPoll
  <2>1. /\ UNCHANGED <<bringUpVars, dataVars, ppc, httpVars, clients, frame, todo, leaving, conn>>
        /\ sem' \in {0, sem} /\ wpc' \in {"wait", "broadcast", "list"}
    BY <1>1 DEF TakeWake, PollIntervalOver, EndBroadcast, EndPoll, workerUnchanged
  <2>2. TypeOK'
    BY <2>1 DEF IInv, TypeOK, BringUpTypeOK, DataTypeOK, ClientsTypeOK, WorkerTypeOK, HttpTypeOK,
                bringUpVars, dataVars, httpVars
  <2>3. ClientsInv'
    BY <2>1, ClientsUnchanged DEF IInv, httpVars
  <2> QED
    BY <2>2, <2>3 DEF IInv
<1> QED
  BY <1>1, CopyStep, SendStep, RemoveStep, UnregisterStep DEF Worker

(* Every step of the firmware, of the network and of the pages keeps it.   *)
LEMMA ClientsStep == ASSUME IInv, [Next]_vars PROVE IInv'
<1>1. CASE UNCHANGED vars
  <2>1. TypeOK'
    BY <1>1 DEF IInv, TypeOK, BringUpTypeOK, DataTypeOK, ClientsTypeOK, WorkerTypeOK, HttpTypeOK,
                vars, bringUpVars, dataVars, workerVars, httpVars
  <2>2. ClientsInv'
    BY <1>1, ClientsUnchanged DEF IInv, vars, workerVars, httpVars
  <2> QED
    BY <2>1, <2>2 DEF IInv
<1>2. CASE Http \/ Pages
  BY <1>2, GetStep, UpgradeStep, SetupStep, VanishStep DEF Http, Pages
<1> QED
  BY <1>1, <1>2, BringUpStep, PublisherStep, WorkerStep DEF Next

(* Every variable has its type, the list of clients never outgrows its     *)
(* capacity and the semaphore never its limit.                             *)
THEOREM TypeCorrect == SafeSpec => []TypeOK
<1>1. Init => IInv
  BY ClientsInit
<1>2. IInv /\ [Next]_vars => IInv'
  BY ClientsStep
<1>3. IInv => TypeOK
  BY DEF IInv
<1> QED
  BY <1>1, <1>2, <1>3, PTL DEF SafeSpec

(* Every connection Zephyr accepts becomes a client: addWsClient() always  *)
(* finds room, and no thread sends to, polls or lists a socket whose       *)
(* context is free for the next connection.                                *)
THEOREM ServesEveryUpgrade == SafeSpec => []EveryUpgradeIsServed
<1>1. Init => IInv
  BY ClientsInit
<1>2. IInv /\ [Next]_vars => IInv'
  BY ClientsStep
<1>3. IInv => EveryUpgradeIsServed
  <2> SUFFICES ASSUME IInv PROVE EveryUpgradeIsServed
    OBVIOUS
  <2>1. ClientsInv
    BY DEF IInv
  <2>2. hpc = "setup" => Len(clients) < MaxClients
    BY <2>1, RoomToJoin DEF ClientsInv
  <2> QED
    BY <2>1, <2>2 DEF ClientsInv, EveryUpgradeIsServed
<1> QED
  BY <1>1, <1>2, <1>3, PTL DEF SafeSpec

---------------------------------------------------------------------------
(* What a client has                                                       *)

(* What a client has is no newer than the frame taken last, nor that than  *)
(* the JSON, nor that than the snapshot.  A frame without a change says    *)
(* nothing of what the clients have of the changes; one that carries a     *)
(* change carries one that none has overtaken.                             *)
PushInv ==
  /\ json <= snapshot /\ frame.listing <= json /\ frame.change <= change
  /\ \A s \in Socks :
       /\ conn[s].listing <= frame.listing /\ conn[s].change <= change
       /\ frame.change > 0 => conn[s].change <= frame.change

(* A step that takes no frame keeps it when the listing, the JSON and the  *)
(* change go forward and every connection has what it had, or nothing.     *)
LEMMA PushKept ==
  ASSUME TypeOK, DataTypeOK', PushInv, json <= json', json' <= snapshot', change <= change',
         frame' = frame,
         \A s \in Socks : \/ conn'[s].listing = conn[s].listing /\ conn'[s].change = conn[s].change
                          \/ conn'[s].listing = 0 /\ conn'[s].change = 0
  PROVE  PushInv'
<1>1. /\ json \in Nat /\ json' \in Nat /\ change \in Nat /\ change' \in Nat
      /\ frame.listing \in Nat /\ frame.change \in Nat
  BY DEF TypeOK, DataTypeOK, WorkerTypeOK
<1>2. frame'.listing <= json' /\ frame'.change <= change'
  BY <1>1 DEF PushInv
<1>3. ASSUME NEW s \in Socks
      PROVE  /\ conn'[s].listing <= frame'.listing /\ conn'[s].change <= change'
             /\ frame'.change > 0 => conn'[s].change <= frame'.change
  <2>1. conn[s].listing \in Nat /\ conn[s].change \in Nat
    BY DEF TypeOK, ClientsTypeOK, Connection
  <2>2. /\ conn[s].listing <= frame.listing /\ conn[s].change <= change
        /\ frame.change > 0 => conn[s].change <= frame.change
    BY DEF PushInv
  <2> QED
    BY <1>1, <2>1, <2>2
<1> QED
  BY <1>2, <1>3 DEF PushInv

(* Publishing, asking and most of the worker's steps leave the connections *)
(* alone and let the data go forward only.                                 *)
LEMMA DataStep ==
  ASSUME ListingInv, TypeOK,
         BringUp \/ Publisher \/ WakeWorker \/ Http \/ GetArrives \/ TakeWake \/ PollIntervalOver
           \/ SendFails \/ EndBroadcast \/ ListClients \/ PollQuiet \/ PollGone \/ EndPoll \/ UNCHANGED vars,
         PushInv
  PROVE  json <= json' /\ json' <= snapshot' /\ change <= change' /\ UNCHANGED <<frame, conn>>
<1>1. json \in Nat /\ snapshot \in Nat /\ change \in Nat /\ json <= snapshot
  BY DEF TypeOK, DataTypeOK, PushInv
<1>2. CASE PublishCatalog
  BY <1>1, <1>2 DEF PublishCatalog, workerVars
<1>3. CASE PublishPresetChange
  BY <1>1, <1>3 DEF PublishPresetChange, workerVars
<1>4. CASE HandlePresetsGet
  BY <1>1, <1>4 DEF HandlePresetsGet, EncodeIfDirty, workerVars
<1>5. CASE BringUp \/ WakeWorker \/ GetArrives \/ BodySent \/ AddWsClient \/ RequestInitialSend
  <2>1. UNCHANGED <<json, snapshot, change, frame, conn>>
    BY <1>5 DEF BringUp, StartServer, StartWifi, WifiUp, WifiLost, WakeWorker, GetArrives, BodySent,
                AddWsClient, RequestInitialSend, workerVars, dataVars
  <2> QED
    BY <1>1, <2>1
<1>6. CASE TakeWake \/ PollIntervalOver \/ SendFails \/ EndBroadcast \/ ListClients \/ PollQuiet
             \/ PollGone \/ EndPoll \/ UNCHANGED vars
  <2>1. UNCHANGED <<json, snapshot, change, frame, conn>>
    BY <1>6 DEF TakeWake, PollIntervalOver, SendFails, Drop, EndBroadcast, ListClients, PollQuiet,
                PollGone, EndPoll, vars, workerVars, dataVars
  <2> QED
    BY <1>1, <2>1
<1> QED
  BY <1>2, <1>3, <1>4, <1>5, <1>6 DEF Publisher, Http

(* A context that is taken, lost or given back has nothing of a listing.   *)
LEMMA ContextStep ==
  ASSUME TypeOK, NEW s \in Socks, Upgrade(s) \/ Vanish(s) \/ (Unregister /\ s = leaving)
  PROVE  /\ UNCHANGED <<json, snapshot, change, frame>>
         /\ ~(Open(s) /\ Open(s)') /\ conn'[s].listing = 0 /\ conn'[s].change = 0
         /\ \A r \in Socks : r # s => conn'[r] = conn[r]
<1>1. conn \in [Socks -> Connection]
  BY DEF TypeOK, ClientsTypeOK
<1>2. UNCHANGED <<json, snapshot, change, frame>>
  BY DEF Upgrade, Vanish, Unregister, dataVars, workerVars
<1>3. PICK state \in {"open", "gone", "free"} :
        conn' = [conn EXCEPT ![s] = Fresh(state)] /\ (state = "open" => conn[s].state = "free")
  BY DEF Upgrade, Vanish, Unregister
<1>4. /\ conn'[s].state = state /\ conn'[s].listing = 0 /\ conn'[s].change = 0
      /\ \A r \in Socks : r # s => conn'[r] = conn[r]
  BY <1>1, <1>3 DEF Fresh
<1> QED
  BY <1>2, <1>3, <1>4 DEF Open

(* The worker takes a frame: the JSON has not gone back, and a pending     *)
(* change is the latest.                                                   *)
LEMMA FrameStep ==
  ASSUME ListingInv, TypeOK, PushInv, Broadcast
  PROVE  PushInv' /\ conn' = conn
<1>1. /\ json \in Nat /\ snapshot \in Nat /\ change \in Nat /\ json <= snapshot
      /\ frame.listing \in Nat /\ frame.listing <= json
  BY DEF TypeOK, DataTypeOK, WorkerTypeOK, PushInv
<1>2. /\ UNCHANGED <<snapshot, change, conn>> /\ json' \in {json, snapshot}
      /\ frame' = [listing |-> json', change |-> IF pending THEN change ELSE 0]
  BY DEF Broadcast, EncodeIfDirty
<1>3. frame'.listing = json' /\ frame'.change \in {0, change}
  BY <1>2
<1>4. json' <= snapshot' /\ frame'.listing <= json' /\ frame'.change <= change' /\ json' \in Nat
      /\ frame.listing <= json'
  BY <1>1, <1>2, <1>3
<1>5. ASSUME NEW s \in Socks
      PROVE  /\ conn'[s].listing <= frame'.listing /\ conn'[s].change <= change'
             /\ frame'.change > 0 => conn'[s].change <= frame'.change
  <2>1. conn[s].listing \in Nat /\ conn[s].change \in Nat
    BY DEF TypeOK, ClientsTypeOK, Connection
  <2>2. conn[s].listing <= frame.listing /\ conn[s].change <= change
    BY DEF PushInv
  <2> QED
    BY <1>1, <1>2, <1>3, <1>4, <2>1, <2>2
<1> QED
  BY <1>2, <1>4, <1>5 DEF PushInv

(* A frame is sent: the client has what the frame has, and had no more.    *)
LEMMA SentStep ==
  ASSUME TypeOK, PushInv, Send
  PROVE  PushInv' /\ \A s \in Socks : GoesForward(s)
<1>1. /\ UNCHANGED <<json, snapshot, change, frame>>
      /\ conn' = [conn EXCEPT ![Head(todo)] = Received(conn[Head(todo)])]
  BY DEF Send, dataVars
<1>2. /\ frame.listing \in Nat /\ frame.change \in Nat /\ change \in Nat
      /\ frame.change <= change /\ conn \in [Socks -> Connection]
  BY DEF TypeOK, DataTypeOK, WorkerTypeOK, ClientsTypeOK, PushInv
<1>3. ASSUME NEW s \in Socks
      PROVE  /\ conn'[s].listing <= frame.listing /\ conn'[s].change <= change
             /\ frame.change > 0 => conn'[s].change <= frame.change
             /\ conn'[s].listing >= conn[s].listing /\ conn'[s].change >= conn[s].change
  <2>1. conn[s].listing \in Nat /\ conn[s].change \in Nat
    BY <1>2 DEF Connection
  <2>2. /\ conn[s].listing <= frame.listing /\ conn[s].change <= change
        /\ frame.change > 0 => conn[s].change <= frame.change
    BY DEF PushInv
  <2>3. conn'[s] = conn[s] \/ conn'[s] = Received(conn[s])
    BY <1>1, <1>2
  <2>4. \/ conn'[s] = conn[s]
        \/ /\ conn'[s].listing = frame.listing
           /\ conn'[s].change = IF frame.change > 0 THEN frame.change ELSE conn[s].change
    <3>1. conn[s] \in Connection
      BY <1>2
    <3> QED
      BY <2>3, <3>1 DEF Received, Connection
  <2> QED
    BY <1>2, <2>1, <2>2, <2>4
<1>4. PushInv'
  BY <1>1, <1>3 DEF PushInv
<1> QED
  BY <1>3, <1>4 DEF GoesForward

(* Every step keeps the order and takes nothing from an open connection.   *)
LEMMA PushStep ==
  ASSUME ListingInv, IInv, PushInv, [Next]_vars
  PROVE  PushInv' /\ \A s \in Socks : GoesForward(s)
<1>1. TypeOK /\ TypeOK'
  BY ClientsStep DEF IInv
<1>2. DataTypeOK'
  BY <1>1 DEF TypeOK
<1>3. \A s \in Socks : conn[s].listing \in Nat /\ conn[s].change \in Nat
  BY <1>1 DEF TypeOK, ClientsTypeOK, Connection
<1>4. json \in Nat /\ snapshot \in Nat /\ change \in Nat /\ json <= snapshot
  BY <1>1 DEF TypeOK, DataTypeOK, PushInv
<1>5. CASE BringUp \/ Publisher \/ WakeWorker \/ Http \/ GetArrives \/ TakeWake \/ PollIntervalOver
             \/ SendFails \/ EndBroadcast \/ ListClients \/ PollQuiet \/ PollGone \/ EndPoll \/ UNCHANGED vars
  <2>1. json <= json' /\ json' <= snapshot' /\ change <= change' /\ frame' = frame /\ conn' = conn
    BY <1>1, <1>5, DataStep
  <2>2. PushInv'
    BY <1>1, <1>2, <2>1, PushKept
  <2>3. \A s \in Socks : GoesForward(s)
    BY <1>3, <2>1 DEF GoesForward
  <2> QED
    BY <2>2, <2>3
<1>6. ASSUME NEW s \in Socks, Upgrade(s) \/ Vanish(s) \/ (Unregister /\ s = leaving)
      PROVE  PushInv' /\ \A r \in Socks : GoesForward(r)
  <2>1. /\ UNCHANGED <<json, snapshot, change, frame>>
        /\ ~(Open(s) /\ Open(s)') /\ conn'[s].listing = 0 /\ conn'[s].change = 0
        /\ \A r \in Socks : r # s => conn'[r] = conn[r]
    BY <1>1, <1>6, ContextStep
  <2>2. \A r \in Socks : \/ conn'[r].listing = conn[r].listing /\ conn'[r].change = conn[r].change
                         \/ conn'[r].listing = 0 /\ conn'[r].change = 0
    BY <2>1
  <2>3. json <= json' /\ json' <= snapshot' /\ change <= change' /\ frame' = frame
    BY <1>4, <2>1
  <2>4. PushInv'
    BY <1>1, <1>2, <2>2, <2>3, PushKept
  <2>5. ASSUME NEW r \in Socks PROVE GoesForward(r)
    <3>1. CASE r = s
      BY <2>1, <3>1 DEF GoesForward
    <3>2. CASE r # s
      BY <1>3, <2>1, <3>2 DEF GoesForward
    <3> QED
      BY <3>1, <3>2
  <2> QED
    BY <2>4, <2>5
<1>7. CASE Unregister
  <2>1. leaving \in Socks
    BY <1>1, <1>7 DEF Unregister, TypeOK, WorkerTypeOK
  <2> QED
    BY <1>6, <1>7, <2>1
<1>8. CASE Broadcast
  <2>1. PushInv' /\ conn' = conn
    BY <1>1, <1>8, FrameStep
  <2> QED
    BY <1>3, <2>1 DEF GoesForward
<1>9. CASE Send
  BY <1>1, <1>9, SentStep
<1> QED
  BY <1>5, <1>6, <1>7, <1>8, <1>9 DEF Next, Pages, Worker

(* At boot no client has anything.                                         *)
LEMMA PushInit == Init => PushInv
<1> SUFFICES ASSUME Init PROVE PushInv
  OBVIOUS
<1>1. json = 0 /\ snapshot = 0 /\ change = 0 /\ frame = [listing |-> 0, change |-> 0]
  BY DEF Init
<1>2. \A s \in Socks : conn[s].listing = 0 /\ conn[s].change = 0
  BY DEF Init, Fresh
<1> QED
  BY <1>1, <1>2 DEF PushInv

(* No push takes a client back to an older listing or an older change,     *)
(* whichever thread encoded last and however slowly the frames go out.     *)
THEOREM NeverGoesBack == SafeSpec => PushesGoForward
<1>1. Init => ListingInv /\ IInv /\ PushInv
  BY ListingInit, ClientsInit, PushInit
<1>2. ListingInv /\ IInv /\ PushInv /\ [Next]_vars => ListingInv' /\ IInv' /\ PushInv'
  BY ListingStep, ClientsStep, PushStep
<1>3. ListingInv /\ IInv /\ PushInv /\ [Next]_vars => [\A s \in Socks : GoesForward(s)]_vars
  BY PushStep
<1> QED
  BY <1>1, <1>2, <1>3, PTL DEF SafeSpec, PushesGoForward
=============================================================================
