--------------------------- MODULE DiscoveryProofs ---------------------------
(***************************************************************************)
(* Theorems about Discovery, for every set of cameras, interfaces,         *)
(* addresses and URLs: its types, that its waits are those of PacketWait   *)
(* and so end in time, and that a camera it reports as configured is.      *)
(***************************************************************************)
EXTENDS Discovery, SequenceTheorems, FiniteSetTheorems, TLAPS

(***************************************************************************)
(* The wait: however long a caller asks to wait, and whatever arrives, it  *)
(* is not held longer than WaitBounded says.                               *)
(***************************************************************************)

\* What failed calls may add to the wait.
Slack(e) == e * (2 * Wait + 1)

(***************************************************************************)
(* The inductive invariant.  The deadline moves only when a call fails,    *)
(* and then by less than two waits; select wakes at most one wait after    *)
(* the deadline, for it is started before it; and the clock is at most one *)
(* tick past that.                                                         *)
(***************************************************************************)
Deadline ==
    /\ started <= clock
    /\ clock <= wake + 1
    /\ wake <= timeout + wait_us
    /\ timeout <= Wait + Slack(errors)
WaitInv ==
    /\ WaitTypeOK
    /\ Waiting => Deadline
    /\ ~Waiting => clock = 0

\* The bounds grow by one wait and a late wake-up with every failure.
LEMMA SlackGrows ==
    /\ Slack(0) = 0
    /\ \A e \in Nat : Slack(e) \in Nat /\ Slack(e + 1) = Slack(e) + 2 * Wait + 1
  BY WaitAssumption DEF Slack

\* The initial states satisfy the invariant.
LEMMA WaitInitInv == WaitInit => WaitInv
  BY WaitAssumption, MaxErrorsAssumption
  DEF WaitInit, WaitInv, WaitTypeOK, Waiting, Deadline

\* A new search by select starts before the deadline.
LEMMA SelectInv == WaitInv /\ Waiting /\ SelectAgain => WaitInv'
  BY WaitAssumption
  DEF WaitInv, WaitTypeOK, Waiting, Deadline, SelectAgain, OnTime, timeout

\* No step of the wait leaves the invariant.
LEMMA WaitStepInv == WaitInv /\ [WaitNext]_waitVars => WaitInv'
<1> SUFFICES ASSUME WaitInv, [WaitNext]_waitVars PROVE WaitInv'
  OBVIOUS
<1> USE WaitAssumption, MaxErrorsAssumption
<1>1. CASE BeginWait
  BY <1>1, SlackGrows DEF BeginWait, WaitInv, WaitTypeOK, Waiting, Deadline, timeout
<1>2. CASE EndWait
  BY <1>2 DEF EndWait, WaitInv, WaitTypeOK, Waiting
<1>3. CASE Tick
  BY <1>3 DEF Tick, WaitInv, WaitTypeOK, Waiting, Deadline, timeout
<1>4. CASE ForeignPacket
  BY <1>4, SelectInv DEF ForeignPacket
<1>5. CASE SelectTimesOut
  BY <1>5, SelectInv DEF SelectTimesOut
<1>6. CASE TimesOut
  BY <1>6 DEF TimesOut, EndWait, WaitInv, WaitTypeOK, Waiting
<1>7. CASE WaitFails
  <2>1. timeout' = clock + wait_us /\ Waiting /\ Deadline
    BY <1>7 DEF WaitFails, CallFor, timeout, WaitInv
  <2>2. Slack(errors) \in Nat /\ Slack(errors') = Slack(errors) + 2 * Wait + 1
    BY <1>7, SlackGrows DEF WaitFails, WaitInv, WaitTypeOK
  <2>3. timeout' <= Wait + Slack(errors')
    <3> DEFINE S == Slack(errors)
    <3>1. /\ clock <= wake + 1 /\ wake <= timeout + wait_us /\ timeout <= Wait + S
          /\ Slack(errors') = S + 2 * Wait + 1 /\ S \in Nat
      BY <2>1, <2>2 DEF Deadline
    <3> HIDE DEF S
    <3>2. QED
      BY <2>1, <3>1 DEF WaitInv, WaitTypeOK, timeout
  <2>4. QED
    BY <1>7, <2>1, <2>3 DEF WaitFails, CallFor, WaitInv, WaitTypeOK, Waiting, Deadline
<1>8. CASE PacketInTime
  BY <1>8, SlackGrows
  DEF PacketInTime, TimeLeft, CallFor, WaitInv, WaitTypeOK, Waiting, Deadline, timeout
<1>9. CASE PacketTooLate
  BY <1>9 DEF PacketTooLate, EndWait, WaitInv, WaitTypeOK, Waiting
<1>10. CASE UNCHANGED waitVars
  BY <1>10 DEF waitVars, WaitInv, WaitTypeOK, Waiting, Deadline, timeout
<1>11. QED
  BY <1>1, <1>2, <1>3, <1>4, <1>5, <1>6, <1>7, <1>8, <1>9, <1>10 DEF WaitNext

\* The invariant gives the bound.
LEMMA WaitInvBounds == WaitInv => WaitBounded
<1> SUFFICES ASSUME WaitInv PROVE WaitBounded
  OBVIOUS
<1>1. /\ Slack(errors) \in Nat
      /\ (errors + 1) * (2 * Wait + 1) = Slack(errors) + 2 * Wait + 1
  BY SlackGrows DEF WaitInv, WaitTypeOK, Slack
<1>2. CASE Waiting
  <2> DEFINE S == Slack(errors)
  <2>1. S \in Nat /\ clock <= wake + 1 /\ wake <= timeout + wait_us /\ timeout <= Wait + S
    BY <1>1, <1>2 DEF WaitInv, Deadline
  <2>2. clock <= S + 2 * Wait + 1
    <3> HIDE DEF S
    <3>1. QED
      BY <2>1, WaitAssumption DEF WaitInv, WaitTypeOK, timeout
  <2>3. QED
    BY <1>1, <2>2 DEF WaitBounded
<1>3. CASE ~Waiting
  <2>1. clock = 0 /\ 0 <= Slack(errors) + 2 * Wait + 1
    BY <1>1, <1>3, WaitAssumption DEF WaitInv
  <2>2. QED
    BY <1>1, <2>1 DEF WaitBounded
<1>4. QED
  BY <1>2, <1>3

(***************************************************************************)
(* The waits of host_netutil.c end in time, for every time asked for and   *)
(* every number of failures.                                               *)
(***************************************************************************)
THEOREM WaitsAreBounded == WaitSpec => [](WaitTypeOK /\ WaitBounded)
<1>1. WaitInv => WaitTypeOK /\ WaitBounded
  BY WaitInvBounds DEF WaitInv
<1>2. QED
  BY <1>1, WaitInitInv, WaitStepInv, PTL DEF WaitSpec

-----------------------------------------------------------------------------
(* Discovery and configuration *)

\* Announcements and list entries carry the address of the camera's flash.
Announcement(entry) == entry \in AnEntry /\ entry.ip = FlashIp[entry.serial]

\* What the URL asks of the camera that is configured.
Asked == IF url.address = NoAddress THEN FlashIp[camera.serial] ELSE url.address
Chosen ==
    /\ camera \in AnEntry
    /\ Matching(url, camera.serial)
    /\ camera.ip = Asked

\* The order whose answer the host waits for is the last one in flight.
LastOrder(k) ==
    /\ pc = "configure"
    /\ k = Len(orders)
    /\ orders[k].serial = camera.serial
    /\ orders[k].ip = camera.ip

(***************************************************************************)
(* The inductive invariant.  Orders are carried out in the order they were *)
(* sent, so the answer to the last one tells that none is left, and that   *)
(* the camera has the address of that order.                               *)
(***************************************************************************)
EntriesInv ==
    /\ \A entry \in inbox : Announcement(entry)
    /\ \A k \in 1 .. Len(list) : Announcement(list[k])
OrdersInv ==
    /\ \A k \in 1 .. Len(orders) : orders[k].live => LastOrder(k)
    /\ pc \in {"found", "configure"} => Chosen
    /\ pc \in {"idle", "found"} => inbox = {}
    /\ pc = "configure" /\ inbox # {} =>
         orders = <<>> /\ ip[camera.serial] = camera.ip

IInv == TypeOK /\ WaitInv /\ EntriesInv /\ OrdersInv

USE ReachAssumption, FlashIpAssumption, AddressAssumption, UrlAssumption, WaitAssumption

-----------------------------------------------------------------------------
(* The waits *)

\* Every step is a step of the wait, or leaves it alone.
LEMMA StepWaits == [Next]_vars => [WaitNext]_waitVars
<1> SUFFICES ASSUME [Next]_vars PROVE [WaitNext]_waitVars
  OBVIOUS
<1>1. ASSUME NEW u \in Urls, FindByUrl(u) PROVE BeginWait \/ UNCHANGED waitVars
  BY <1>1 DEF FindByUrl
<1>2. ASSUME NEW u \in Urls, DiscoverFails(u) PROVE UNCHANGED waitVars
  BY <1>2 DEF DiscoverFails
<1>3. CASE HostStep
  BY <1>3
  DEF HostStep, WaitNext, WaitGoesOn, Announced, AnnouncedTooLate, ReceiveFails,
      SearchTimesOut, ConfigureFails, ConfigureUnconnected, Configure, Configured,
      ConfigureTimesOut, ConfigureReceiveFails
<1>4. CASE Disturbed
  BY <1>4 DEF Disturbed, WaitNext
<1>5. CASE CameraConfigures \/ LoseOrder
  BY <1>5 DEF CameraConfigures, LoseOrder
<1>6. CASE UNCHANGED vars
  BY <1>6 DEF vars
<1>7. QED
  BY <1>1, <1>2, <1>3, <1>4, <1>5, <1>6 DEF Next, WaitNext

\* The search is the specification of the wait, and more.
THEOREM SearchWaits == Spec => WaitSpec
<1>1. Init => WaitInit
  BY DEF Init
<1>2. QED
  BY <1>1, StepWaits, PTL DEF Spec, WaitSpec

\* No search or configuration holds its caller longer than WaitBounded says.
THEOREM SearchWaitsAreBounded == Spec => []WaitBounded
<1>1. WaitTypeOK /\ WaitBounded => WaitBounded
  OBVIOUS
<1>2. QED
  BY <1>1, SearchWaits, WaitsAreBounded, PTL

-----------------------------------------------------------------------------
(* The types, the entries and the orders *)

\* The initial states satisfy the invariant.
LEMMA InitInv == Init => IInv
<1> SUFFICES ASSUME Init PROVE IInv
  OBVIOUS
<1>1. WaitInv /\ ~Waiting
  BY WaitInitInv DEF Init, WaitInit, Waiting
<1>2. TypeOK
  <2>1. orders = <<>> /\ list = <<>> /\ pc = "idle" /\ ip = FlashIp
    BY DEF Init
  <2>2. WaitTypeOK
    BY <1>1 DEF WaitInv
  <2>3. broken \in BOOLEAN /\ inbox = {} /\ sockets = {} /\ camera = NoEntry /\ url \in Urls
    BY DEF Init
  <2>4. QED
    BY <1>1, <2>1, <2>2, <2>3 DEF TypeOK
<1>3. QED
  BY <1>1, <1>2 DEF Init, IInv, EntriesInv, OrdersInv

\* A new announcement makes the list longer by it, or leaves it alone.
LEMMA AddKeeps ==
    ASSUME IInv, NEW entry, Announcement(entry)
    PROVE  /\ Add(entry) \in Seq(AnEntry)
           /\ \A k \in 1 .. Len(Add(entry)) : Announcement(Add(entry)[k])
<1>1. list \in Seq(AnEntry) /\ entry \in AnEntry
  BY DEF IInv, TypeOK, Announcement
<1>2. \A k \in 1 .. Len(list) : Announcement(list[k])
  BY DEF IInv, EntriesInv
<1>3. CASE Add(entry) = list
  BY <1>1, <1>2, <1>3
<1>4. CASE Add(entry) = Append(list, entry)
  <2>1. \A k \in 1 .. Len(list) + 1 :
          Append(list, entry)[k] = IF k = Len(list) + 1 THEN entry ELSE list[k]
    BY <1>1
  <2>2. Append(list, entry) \in Seq(AnEntry) /\ Len(Append(list, entry)) = Len(list) + 1
    BY <1>1
  <2>3. \A k \in 1 .. Len(list) + 1 : Announcement(Append(list, entry)[k])
    BY <1>1, <1>2, <2>1
  <2>4. QED
    BY <1>4, <2>2, <2>3
<1>5. QED
  BY <1>3, <1>4 DEF Add

\* A camera taken from the list is one the URL names, with the address asked
\* for.
LEMMA DecideChooses ==
    ASSUME IInv, Decide
    PROVE  /\ camera' \in AnEntry \cup {NoEntry}
           /\ pc' = "found" => Chosen'
           /\ pc' \in {"idle", "found"}
<1>1. CASE UNCHANGED camera /\ pc' = "idle"
  BY <1>1 DEF IInv, TypeOK
<1>2. ASSUME NEW k \in Matches, Take(list[k])
      PROVE  /\ camera' \in AnEntry \cup {NoEntry}
             /\ pc' = "found" => Chosen'
             /\ pc' \in {"idle", "found"}
  <2>1. k \in 1 .. Len(list) /\ Matching(url, list[k].serial)
    BY DEF Matches, IInv, TypeOK
  <2>2. /\ list[k] \in AnEntry
        /\ list[k].ip = FlashIp[list[k].serial]
    BY <2>1 DEF IInv, EntriesInv, Announcement
  <2>3. url' = url /\ url \in Urls
    BY DEF Decide, IInv, TypeOK
  <2>4. CASE AddressOf(list[k]) = BadAddress
    BY <1>2, <2>2, <2>4 DEF Take, Stop
  <2>5. CASE AddressOf(list[k]) # BadAddress
    <3>1. camera' = [list[k] EXCEPT !.ip = AddressOf(list[k])]
      BY <1>2, <2>5 DEF Take
    <3>2. AddressOf(list[k]) \in Addresses
      BY <2>2, <2>3, <2>5 DEF AddressOf, AnEntry
    <3>3. /\ camera' \in AnEntry
          /\ camera'.serial = list[k].serial
          /\ camera'.ip = AddressOf(list[k])
      BY <2>2, <3>1, <3>2 DEF AnEntry
    <3>4. Chosen'
      BY <2>1, <2>2, <2>3, <3>3 DEF Chosen, Asked, AddressOf, Matching
    <3>5. pc' \in {"idle", "found"}
      BY <1>2, <2>5 DEF Take, Stop
    <3>6. QED
      BY <3>3, <3>4, <3>5
  <2>6. QED
    BY <2>4, <2>5
<1>3. QED
  BY <1>1, <1>2 DEF Decide, Stop

\* The end of a search.
LEMMA DecideKeeps ==
    ASSUME IInv, pc = "discover", Decide, EndWait, WaitInv'
    PROVE  IInv'
<1>1. /\ UNCHANGED <<ip, orders, broken, url>>
      /\ list' = <<>> /\ inbox' = {} /\ sockets' = {}
      /\ ~Waiting'
  BY DEF Decide, EndWait, Waiting
<1>2. TypeOK'
  BY <1>1, DecideChooses DEF IInv, TypeOK, WaitInv
<1>3. EntriesInv'
  BY <1>1 DEF EntriesInv
<1>4. OrdersInv'
  BY <1>1, DecideChooses DEF IInv, OrdersInv, LastOrder
<1>5. QED
  BY <1>2, <1>3, <1>4 DEF IInv

\* A function on an initial segment of the numbers is a sequence.
LEMMA FunctionIsSeq ==
    ASSUME NEW S, NEW n \in Nat, NEW f \in [1 .. n -> S]
    PROVE  f \in Seq(S) /\ Len(f) = n
<1>1. f \in UNION {[1 .. m -> S] : m \in Nat}
  OBVIOUS
<1>2. f \in Seq(S)
  BY <1>1, SeqDef, Zenon
<1>3. QED
  BY <1>2, LenProperties

\* An order whose socket is closed is an order.
LEMMA UnheardOrders == \A o \in AnOrder : Unheard(o) \in AnOrder /\ ~Unheard(o).live
  BY DEF AnOrder, Unheard

\* The socket of an order is closed.
LEMMA AbandonKeeps ==
    ASSUME IInv, pc = "configure", Abandon, EndWait, WaitInv',
           UNCHANGED <<ip, findVars>>, pc' = "idle"
    PROVE  IInv'
<1>1. orders \in Seq(AnOrder)
  BY DEF IInv, TypeOK
<1>2. /\ orders' \in Seq(AnOrder)
      /\ Len(orders') = Len(orders)
      /\ \A k \in 1 .. Len(orders') : ~orders'[k].live
  <2>1. orders' = [k \in 1 .. Len(orders) |-> Unheard(orders[k])]
    BY <1>1 DEF Abandon
  <2>2. \A k \in 1 .. Len(orders) : orders[k] \in AnOrder
    BY <1>1
  <2>3. Len(orders) \in Nat /\ orders' \in [1 .. Len(orders) -> AnOrder]
    BY <1>1, <2>1, <2>2, UnheardOrders
  <2>4. orders' \in Seq(AnOrder) /\ Len(orders') = Len(orders)
    BY <2>3, FunctionIsSeq
  <2>5. \A k \in 1 .. Len(orders) : ~orders'[k].live
    BY <2>1 DEF Unheard
  <2>6. QED
    BY <2>4, <2>5
<1>3. ~Waiting' /\ inbox' = {}
  BY DEF EndWait, Waiting, Abandon
<1>4. TypeOK'
  BY <1>2, <1>3 DEF IInv, TypeOK, WaitInv, findVars
<1>5. EntriesInv' /\ OrdersInv'
  BY <1>2, <1>3 DEF IInv, EntriesInv, OrdersInv, findVars
<1>6. QED
  BY <1>4, <1>5 DEF IInv

\* An order is put in flight.
LEMMA OrderKeeps ==
    ASSUME IInv, pc = "found", NEW live \in BOOLEAN,
           orders' = Append(orders, Order(live)), WaitInv',
           UNCHANGED <<ip, inbox, findVars>>,
           \/ live /\ pc' = "configure" /\ Waiting'
           \/ ~live /\ pc' = "idle" /\ ~Waiting'
    PROVE  IInv'
<1>1. orders \in Seq(AnOrder) /\ Chosen /\ inbox = {}
  BY DEF IInv, TypeOK, OrdersInv
<1>2. Order(live) \in AnOrder
  BY <1>1 DEF Order, Chosen, AnEntry, AnOrder
<1>3. /\ orders' \in Seq(AnOrder)
      /\ Len(orders') = Len(orders) + 1
      /\ \A k \in 1 .. Len(orders') :
            orders'[k] = IF k = Len(orders) + 1 THEN Order(live) ELSE orders[k]
  BY <1>1, <1>2
<1>4. \A k \in 1 .. Len(orders) : ~orders[k].live
  BY DEF IInv, OrdersInv, LastOrder
<1>5. TypeOK'
  BY <1>3 DEF IInv, TypeOK, WaitInv, findVars
<1>6. EntriesInv'
  BY <1>1 DEF IInv, EntriesInv, findVars
<1>7. Chosen'
  BY <1>1 DEF Chosen, Asked, Matching, findVars
<1>8. \A k \in 1 .. Len(orders') : orders'[k].live => LastOrder(k)'
  <2> SUFFICES ASSUME NEW k \in 1 .. Len(orders'), orders'[k].live PROVE LastOrder(k)'
    OBVIOUS
  <2>1. k = Len(orders) + 1 /\ orders'[k] = Order(live)
    <3>1. k # Len(orders) + 1 => k \in 1 .. Len(orders) /\ orders'[k] = orders[k]
      BY <1>1, <1>3
    <3>2. QED
      BY <1>3, <1>4, <3>1
  <2>2. live /\ pc' = "configure"
    BY <2>1 DEF Order
  <2>3. QED
    BY <1>3, <2>1, <2>2 DEF LastOrder, Order, findVars
<1>9. OrdersInv'
  BY <1>1, <1>7, <1>8 DEF OrdersInv
<1>10. QED
  BY <1>5, <1>6, <1>9 DEF IInv

\* A search begins; the announcements on their way are new.
LEMMA FindKeeps ==
    ASSUME IInv, WaitInv', NEW u \in Urls, FindByUrl(u)
    PROVE  IInv'
<1>1. /\ pc = "idle" /\ url' = u /\ list' = <<>>
      /\ UNCHANGED <<ip, orders, camera>>
  BY DEF FindByUrl
<1>2. \A k \in 1 .. Len(orders) : ~orders[k].live
  BY <1>1 DEF IInv, OrdersInv, LastOrder
<1>3. inbox = {} /\ ~Waiting
  BY <1>1 DEF IInv, OrdersInv, TypeOK
<1>4. CASE u.prefix = "bad"
  <2>1. pc' = "idle" /\ UNCHANGED <<waitVars, inbox, sockets, broken>>
    BY <1>4 DEF FindByUrl, Stop
  <2>2. ~Waiting'
    BY <1>3, <2>1 DEF Waiting, waitVars
  <2>3. TypeOK'
    BY <1>1, <2>1, <2>2 DEF IInv, TypeOK, WaitInv
  <2>4. EntriesInv' /\ OrdersInv'
    BY <1>1, <1>2, <1>3, <2>1 DEF EntriesInv, OrdersInv
  <2>5. QED
    BY <2>3, <2>4 DEF IInv
<1>5. CASE u.prefix # "bad"
  <2>1. PICK open \in SUBSET Selected(u) :
          \E sent \in {open} \cup {open \ {i} : i \in open} :
            /\ sockets' = open
            /\ broken' = (sent # open)
            /\ inbox' = {Entry(r[1], FlashIp[r[1]], r[2]) : r \in {r \in Reach : r[2] \in sent}}
    BY <1>5 DEF FindByUrl
  <2>2. pc' = "discover" /\ BeginWait
    BY <1>5 DEF FindByUrl
  <2>3. Waiting'
    BY <2>2 DEF BeginWait, Waiting
  <2>4. sockets' \subseteq Interfaces /\ broken' \in BOOLEAN
    BY <2>1 DEF Selected
  <2>5. \A entry \in inbox' : Announcement(entry)
    <3> SUFFICES ASSUME NEW entry \in inbox' PROVE Announcement(entry)
      OBVIOUS
    <3>1. PICK r \in Reach : entry = Entry(r[1], FlashIp[r[1]], r[2])
      BY <2>1
    <3>2. r[1] \in Cameras /\ r[2] \in Interfaces /\ FlashIp[r[1]] \in Addresses
      OBVIOUS
    <3>3. QED
      BY <3>1, <3>2 DEF Entry, Announcement, AnEntry
  <2>6. TypeOK'
    BY <1>1, <2>2, <2>3, <2>4, <2>5 DEF IInv, TypeOK, WaitInv, Announcement
  <2>7. EntriesInv' /\ OrdersInv'
    BY <1>1, <1>2, <2>2, <2>5 DEF EntriesInv, OrdersInv, Announcement
  <2>8. QED
    BY <2>6, <2>7 DEF IInv
<1>6. QED
  BY <1>4, <1>5

\* A camera carries out the oldest order.
LEMMA CameraKeeps ==
    ASSUME IInv, WaitInv', CameraConfigures
    PROVE  IInv'
<1> DEFINE order == Head(orders)
<1>1. orders \in Seq(AnOrder) /\ orders # <<>>
  BY DEF CameraConfigures, IInv, TypeOK
<1>2. /\ order = orders[1] /\ order \in AnOrder
      /\ orders' = Tail(orders) /\ orders' \in Seq(AnOrder)
      /\ Len(orders) \in Nat /\ Len(orders) >= 1
      /\ Len(orders') = Len(orders) - 1
      /\ \A k \in 1 .. Len(orders') : orders'[k] = orders[k + 1]
  BY <1>1 DEF CameraConfigures
<1>3. /\ order.serial \in Cameras /\ order.ip \in Addresses
      /\ ip' = [ip EXCEPT ![order.serial] = order.ip]
      /\ UNCHANGED <<waitVars, findVars, outcome, pc>>
  BY <1>2 DEF CameraConfigures, AnOrder
<1>4. ip' \in [Cameras -> Addresses]
  BY <1>3 DEF IInv, TypeOK
<1>5. ~Waiting' <=> ~Waiting
  BY <1>3 DEF waitVars, Waiting
<1>6. \A k \in 1 .. Len(orders') : orders'[k].live => LastOrder(k)'
  <2> SUFFICES ASSUME NEW k \in 1 .. Len(orders'), orders'[k].live PROVE LastOrder(k)'
    OBVIOUS
  <2>1. k + 1 \in 1 .. Len(orders) /\ orders'[k] = orders[k + 1]
    BY <1>2
  <2>2. LastOrder(k + 1)
    BY <2>1 DEF IInv, OrdersInv
  <2>3. /\ pc = "configure" /\ k + 1 = Len(orders)
        /\ orders'[k].serial = camera.serial /\ orders'[k].ip = camera.ip
    BY <2>1, <2>2 DEF LastOrder
  <2>4. UNCHANGED <<camera, pc>>
    BY <1>3 DEF findVars
  <2>5. k = Len(orders')
    <3>1. Len(orders) \in Nat /\ Len(orders') = Len(orders) - 1
      BY <1>2
    <3>2. QED
      BY <2>3, <3>1
  <2>6. QED
    BY <2>3, <2>4, <2>5 DEF LastOrder
<1>7. Chosen' <=> Chosen
  BY <1>3 DEF Chosen, Asked, Matching, findVars
<1>8. CASE ~order.live
  <2>1. inbox' = inbox
    BY <1>8 DEF CameraConfigures
  <2>2. TypeOK'
    BY <1>2, <1>3, <1>4, <1>5, <2>1 DEF IInv, TypeOK, WaitInv, findVars
  <2>3. EntriesInv'
    BY <1>3, <2>1 DEF IInv, EntriesInv, findVars
  <2>4. pc = "configure" => inbox = {}
    BY <1>1 DEF IInv, OrdersInv
  <2>5. OrdersInv'
    BY <1>3, <1>6, <1>7, <2>1, <2>4 DEF IInv, OrdersInv
  <2>6. QED
    BY <2>2, <2>3, <2>5 DEF IInv
<1>9. CASE order.live
  <2>1. LastOrder(1)
    BY <1>2, <1>9 DEF IInv, OrdersInv
  <2>2. /\ pc = "configure" /\ orders' = <<>>
        /\ order.serial = camera.serial /\ order.ip = camera.ip
    BY <1>2, <2>1 DEF LastOrder
  <2>3. Chosen /\ inbox = {}
    BY <1>1, <2>2 DEF IInv, OrdersInv
  <2>4. inbox' = {Entry(order.serial, FlashIp[order.serial], camera.interface)}
    BY <1>9, <2>3 DEF CameraConfigures
  <2>5. \A entry \in inbox' : Announcement(entry)
    BY <1>3, <2>3, <2>4 DEF Announcement, Entry, AnEntry, Chosen
  <2>6. ip'[camera'.serial] = camera'.ip
    BY <1>3, <2>2 DEF IInv, TypeOK, findVars
  <2>7. TypeOK'
    BY <1>2, <1>3, <1>4, <1>5, <2>5 DEF IInv, TypeOK, WaitInv, findVars, Announcement
  <2>8. EntriesInv'
    BY <1>3, <2>5 DEF IInv, EntriesInv, findVars, Announcement
  <2>9. OrdersInv'
    BY <1>3, <1>6, <1>7, <2>2, <2>3, <2>6 DEF OrdersInv
  <2>10. QED
    BY <2>7, <2>8, <2>9 DEF IInv
<1>10. QED
  BY <1>8, <1>9

\* Neither the network nor the passing of time disturbs the invariant.
LEMMA LossKeeps ==
    ASSUME IInv, WaitInv', LoseOrder
    PROVE  IInv'
<1>1. orders \in Seq(AnOrder) /\ orders # <<>>
  BY DEF LoseOrder, IInv, TypeOK
<1>2. /\ orders' \in Seq(AnOrder)
      /\ Len(orders) \in Nat /\ Len(orders') = Len(orders) - 1
      /\ \A k \in 1 .. Len(orders') : orders'[k] = orders[k + 1]
      /\ UNCHANGED <<waitVars, ip, inbox, findVars, outcome, pc>>
  BY <1>1 DEF LoseOrder
<1>3. TypeOK'
  BY <1>2 DEF IInv, TypeOK, WaitInv, findVars, Waiting, waitVars
<1>4. EntriesInv'
  BY <1>2 DEF IInv, EntriesInv, findVars
<1>5. ASSUME NEW k \in 1 .. Len(orders'), orders'[k].live PROVE LastOrder(k)'
  <2>1. k + 1 \in 1 .. Len(orders) /\ orders[k + 1].live
    BY <1>2, <1>5
  <2>2. LastOrder(k + 1)
    BY <2>1 DEF IInv, OrdersInv
  <2>3. QED
    BY <1>2, <2>2 DEF LastOrder, findVars
<1>6. Chosen' <=> Chosen
  BY <1>2 DEF Chosen, Asked, Matching, findVars
<1>7. pc = "configure" => inbox = {}
  BY <1>1 DEF IInv, OrdersInv
<1>8. OrdersInv'
  BY <1>2, <1>5, <1>6, <1>7 DEF IInv, OrdersInv
<1>9. QED
  BY <1>3, <1>4, <1>8 DEF IInv

\* A step of the wait alone disturbs nothing.
LEMMA StutterKeeps ==
    ASSUME IInv, WaitInv', Waiting' <=> Waiting, UNCHANGED <<netVars, findVars, pc>>
    PROVE  IInv'
<1>1. TypeOK' /\ EntriesInv'
  BY DEF IInv, TypeOK, EntriesInv, WaitInv, netVars, findVars
<1>2. OrdersInv'
  BY DEF IInv, OrdersInv, LastOrder, Chosen, Asked, Matching, netVars, findVars
<1>3. QED
  BY <1>1, <1>2 DEF IInv

\* A search is given up, or an announcement is put into the list.
LEMMA GiveUpKeeps ==
    ASSUME IInv, WaitInv', ~Waiting', pc' = "idle", inbox' = {}, list' = <<>>,
           url' \in Urls, sockets' \subseteq Interfaces, pc \in {"idle", "discover"},
           UNCHANGED <<ip, orders, broken, camera>>
    PROVE  IInv'
<1>1. TypeOK'
  BY DEF IInv, TypeOK, WaitInv
<1>2. EntriesInv' /\ OrdersInv'
  BY DEF IInv, EntriesInv, OrdersInv, LastOrder
<1>3. QED
  BY <1>1, <1>2 DEF IInv

\* An announcement is taken out of the socket.
LEMMA AnnouncedKeeps ==
    ASSUME IInv, WaitInv', Announced
    PROVE  IInv'
<1>1. PICK entry \in inbox :
        /\ inbox' = inbox \ {entry}
        /\ list' = IF entry.serial \in OldFirmware THEN list ELSE Add(entry)
  BY DEF Announced
<1>2. pc = "discover" /\ UNCHANGED <<ip, orders, sockets, broken, camera, url, outcome, pc, searches>>
  BY DEF Announced, Discovering
<1>3. Waiting'
  BY DEF Announced, PacketInTime, CallFor, Waiting
<1>4. Announcement(entry)
  BY <1>1 DEF IInv, EntriesInv
<1>5. list' \in Seq(AnEntry) /\ \A k \in 1 .. Len(list') : Announcement(list'[k])
  BY <1>1, <1>4, AddKeeps DEF IInv, TypeOK, EntriesInv
<1>6. TypeOK'
  BY <1>1, <1>2, <1>3, <1>5 DEF IInv, TypeOK, WaitInv
<1>7. EntriesInv'
  BY <1>1, <1>5 DEF IInv, EntriesInv, Announcement
<1>8. OrdersInv'
  BY <1>2 DEF IInv, OrdersInv, LastOrder
<1>9. QED
  BY <1>6, <1>7, <1>8 DEF IInv

\* Every step keeps the invariant: one step of the proof per action.
LEMMA NextInv == IInv /\ [Next]_vars => IInv'
<1> SUFFICES ASSUME IInv, [Next]_vars PROVE IInv'
  OBVIOUS
<1>0. WaitInv'
  BY StepWaits, WaitStepInv DEF IInv
<1>1. ASSUME NEW u \in Urls, FindByUrl(u) PROVE IInv'
  BY <1>0, <1>1, FindKeeps
<1>2. ASSUME NEW u \in Urls, DiscoverFails(u) PROVE IInv'
  <2>1. inbox = {} /\ ~Waiting
    BY <1>2 DEF DiscoverFails, IInv, OrdersInv, TypeOK
  <2>2. QED
    BY <1>0, <1>2, <2>1, GiveUpKeeps
    DEF DiscoverFails, Stop, netVars, waitVars, Waiting, IInv, TypeOK
<1>3. CASE WaitGoesOn \/ Disturbed
  <2>1. Waiting' <=> Waiting
    BY <1>3 DEF WaitGoesOn, Disturbed, Tick, SelectTimesOut, ForeignPacket, SelectAgain,
                WaitFails, CallFor, Waiting
  <2>2. QED
    BY <1>0, <1>3, <2>1, StutterKeeps DEF WaitGoesOn, Disturbed
<1>4. CASE Announced
  BY <1>0, <1>4, AnnouncedKeeps
<1>5. CASE AnnouncedTooLate \/ SearchTimesOut
  BY <1>0, <1>5, DecideKeeps
  DEF AnnouncedTooLate, SearchTimesOut, PacketTooLate, TimesOut, Discovering
<1>6. CASE ReceiveFails
  BY <1>0, <1>6, GiveUpKeeps
  DEF ReceiveFails, Discovering, Stop, EndWait, Waiting, IInv, TypeOK
<1>7. CASE ConfigureFails
  <2>1. /\ pc = "found" /\ ~Waiting /\ ~Waiting' /\ inbox = {}
        /\ pc' = "idle" /\ UNCHANGED <<netVars, findVars>>
    BY <1>7 DEF ConfigureFails, Stop, IInv, TypeOK, OrdersInv, Waiting, waitVars
  <2>2. TypeOK' /\ EntriesInv'
    BY <1>0, <2>1 DEF IInv, TypeOK, EntriesInv, WaitInv, netVars, findVars
  <2>3. OrdersInv'
    BY <2>1 DEF IInv, OrdersInv, LastOrder, netVars, findVars
  <2>4. QED
    BY <1>0, <2>2, <2>3 DEF IInv
<1>8. CASE ConfigureUnconnected
  <2>1. pc = "found" /\ pc' = "idle" /\ ~Waiting'
    BY <1>8 DEF ConfigureUnconnected, Stop, IInv, TypeOK, Waiting, waitVars
  <2>2. orders' = Append(orders, Order(FALSE)) /\ UNCHANGED <<ip, inbox, findVars>>
    BY <1>8 DEF ConfigureUnconnected
  <2>3. QED
    BY <1>0, <2>1, <2>2, OrderKeeps
<1>9. CASE Configure
  <2>1. pc = "found" /\ pc' = "configure" /\ Waiting'
    BY <1>9 DEF Configure, BeginWait, Waiting
  <2>2. orders' = Append(orders, Order(TRUE)) /\ UNCHANGED <<ip, inbox, findVars>>
    BY <1>9 DEF Configure
  <2>3. QED
    BY <1>0, <2>1, <2>2, OrderKeeps
<1>10. CASE Configured
  BY <1>0, <1>10, AbandonKeeps DEF Configured, Stop
<1>11. CASE ConfigureTimesOut
  BY <1>0, <1>11, AbandonKeeps DEF ConfigureTimesOut, Stop, TimesOut, PacketTooLate
<1>12. CASE ConfigureReceiveFails
  BY <1>0, <1>12, AbandonKeeps DEF ConfigureReceiveFails, Stop
<1>13. CASE CameraConfigures
  BY <1>0, <1>13, CameraKeeps
<1>14. CASE LoseOrder
  BY <1>0, <1>14, LossKeeps
<1>15. CASE UNCHANGED vars
  BY <1>0, <1>15, StutterKeeps DEF vars, waitVars, Waiting
<1>16. QED
  BY <1>1, <1>2, <1>3, <1>4, <1>5, <1>6, <1>7, <1>8, <1>9, <1>10, <1>11, <1>12, <1>13,
     <1>14, <1>15
  DEF Next, HostStep

-----------------------------------------------------------------------------
(* The theorems *)

(***************************************************************************)
(* The types of a search: its list and its orders, and that the host waits *)
(* exactly where it has something to wait for.                             *)
(***************************************************************************)
THEOREM SearchTyped == Spec => []TypeOK
<1>1. IInv => TypeOK
  BY DEF IInv
<1>2. QED
  BY <1>1, InitInv, NextInv, PTL DEF Spec

(***************************************************************************)
(* A camera reported as configured is one the URL names and has the        *)
(* address asked for, whatever orders of earlier searches come late.       *)
(***************************************************************************)
THEOREM ConfiguredCamerasAreAsAsked == Spec => ConfiguredAsAsked
<1> DEFINE Good ==
      pc = "configure" /\ outcome' = "configured" /\ pc' = "idle" =>
          /\ Matching(url, camera.serial)
          /\ ip[camera.serial] = IF url.address = NoAddress
                                 THEN FlashIp[camera.serial]
                                 ELSE url.address
<1>1. IInv /\ [Next]_vars => [Good]_vars
  <2> SUFFICES ASSUME IInv, [Next]_vars, pc = "configure", outcome' = "configured", pc' = "idle"
               PROVE  /\ Matching(url, camera.serial)
                      /\ ip[camera.serial] = Asked
    BY DEF Asked
  <2>1. inbox # {}
    BY DEF Next, HostStep, vars, FindByUrl, DiscoverFails, WaitGoesOn, Disturbed, Discovering,
           Announced, AnnouncedTooLate, ReceiveFails, SearchTimesOut, ConfigureFails,
           ConfigureUnconnected, Configure, Configured, ConfigureTimesOut, Stop,
           ConfigureReceiveFails, CameraConfigures, LoseOrder
  <2>2. QED
    BY <2>1 DEF IInv, OrdersInv, Chosen
<1>2. QED
  BY <1>1, InitInv, NextInv, PTL DEF Spec, ConfiguredAsAsked

-----------------------------------------------------------------------------
(* What a search finds *)

Reached(entry) == entry.interface \in sockets /\ <<entry.serial, entry.interface>> \in Reach
Listed(c) == \E k \in 1 .. Len(list) : list[k].serial = c

(***************************************************************************)
(* While the search goes on, every camera that the interfaces reach has    *)
(* its announcement still to be taken or is in the list, and the list has  *)
(* no other camera, and none twice.                                        *)
(***************************************************************************)
SearchInv ==
    Discovering =>
      /\ \A j, k \in 1 .. Len(list) : list[j].serial = list[k].serial => j = k
      /\ \A k \in 1 .. Len(list) : Reached(list[k]) /\ list[k].serial \notin OldFirmware
      /\ \A entry \in inbox : Reached(entry)
      /\ \A c \in Cameras \ OldFirmware, i \in sockets :
           <<c, i>> \in Reach => Entry(c, FlashIp[c], i) \in inbox \/ Listed(c)

\* A search begins with an empty list.
LEMMA FindSearches ==
    ASSUME NEW u \in Urls, FindByUrl(u)
    PROVE  SearchInv'
<1>1. Len(list') = 0
  BY DEF FindByUrl
<1>2. CASE u.prefix = "bad"
  BY <1>2 DEF FindByUrl, Stop, SearchInv, Discovering
<1>3. CASE u.prefix # "bad"
  <2>1. SUFFICES ASSUME ~broken'
                 PROVE  /\ \A entry \in inbox' : Reached(entry)'
                        /\ \A c \in Cameras \ OldFirmware, i \in sockets' :
                             <<c, i>> \in Reach => Entry(c, FlashIp[c], i) \in inbox'
    BY <1>1 DEF SearchInv, Discovering
  <2>2. inbox' = {Entry(r[1], FlashIp[r[1]], r[2]) : r \in {r \in Reach : r[2] \in sockets'}}
    BY <1>3, <2>1 DEF FindByUrl
  <2>3. ASSUME NEW entry \in inbox' PROVE Reached(entry)'
    <3>1. PICK r \in Reach : r[2] \in sockets' /\ entry = Entry(r[1], FlashIp[r[1]], r[2])
      BY <2>2
    <3>2. r = <<r[1], r[2]>>
      OBVIOUS
    <3>3. QED
      BY <3>1, <3>2 DEF Entry, Reached
  <2>4. ASSUME NEW c \in Cameras \ OldFirmware, NEW i \in sockets', <<c, i>> \in Reach
        PROVE  Entry(c, FlashIp[c], i) \in inbox'
    <3>1. <<c, i>>[1] = c /\ <<c, i>>[2] = i
      OBVIOUS
    <3>2. <<c, i>> \in {r \in Reach : r[2] \in sockets'}
      BY <2>4, <3>1
    <3>3. QED
      BY <2>2, <3>1, <3>2, Zenon
  <2>5. QED
    BY <2>3, <2>4
<1>4. QED
  BY <1>2, <1>3

\* An announcement that is taken out of the socket is in the list then.
LEMMA AnnouncedSearches ==
    ASSUME IInv, SearchInv, Announced
    PROVE  SearchInv'
<1>1. PICK entry \in inbox :
        /\ inbox' = inbox \ {entry}
        /\ list' = IF entry.serial \in OldFirmware THEN list ELSE Add(entry)
  BY DEF Announced
<1>2. Discovering /\ UNCHANGED <<sockets, broken, pc>>
  BY DEF Announced
<1>3. /\ \A j, k \in 1 .. Len(list) : list[j].serial = list[k].serial => j = k
      /\ \A k \in 1 .. Len(list) : Reached(list[k]) /\ list[k].serial \notin OldFirmware
      /\ \A e \in inbox : Reached(e)
      /\ \A c \in Cameras \ OldFirmware, i \in sockets :
           <<c, i>> \in Reach => Entry(c, FlashIp[c], i) \in inbox \/ Listed(c)
  BY <1>2 DEF SearchInv
<1>4. list \in Seq(AnEntry) /\ Len(list) \in Nat /\ DOMAIN list = 1 .. Len(list)
  BY DEF IInv, TypeOK
<1>5. \A e : Reached(e)' = Reached(e)
  BY <1>2 DEF Reached
<1>6. /\ \A j, k \in 1 .. Len(list') : list'[j].serial = list'[k].serial => j = k
      /\ \A k \in 1 .. Len(list') : Reached(list'[k]) /\ list'[k].serial \notin OldFirmware
      /\ \A c : Listed(c) => Listed(c)'
      /\ entry.serial \notin OldFirmware => Listed(entry.serial)'
  <2>1. CASE list' = list /\ (entry.serial \in OldFirmware \/ Listed(entry.serial))
    BY <1>3, <2>1 DEF Listed
  <2>2. CASE list' = Append(list, entry) /\ ~Listed(entry.serial) /\ entry.serial \notin OldFirmware
    <3>1. entry \in AnEntry
      BY DEF IInv, TypeOK
    <3>2. /\ Len(list') = Len(list) + 1
          /\ \A k \in 1 .. Len(list) : list'[k] = list[k]
          /\ list'[Len(list) + 1] = entry
      BY <1>4, <2>2, <3>1
    <3>3. \A k \in 1 .. Len(list') : k \in 1 .. Len(list) \/ k = Len(list) + 1
      BY <1>4, <3>2
    <3>4. \A j, k \in 1 .. Len(list') : list'[j].serial = list'[k].serial => j = k
      <4> SUFFICES ASSUME NEW j \in 1 .. Len(list'), NEW k \in 1 .. Len(list'),
                          list'[j].serial = list'[k].serial
                   PROVE  j = k
        OBVIOUS
      <4>1. \A n \in 1 .. Len(list) : list'[n].serial # entry.serial
        BY <2>2, <3>2, Zenon DEF Listed
      <4>2. CASE j \in 1 .. Len(list) /\ k \in 1 .. Len(list)
        BY <1>3, <3>2, <4>2, Zenon
      <4>3. CASE j \in 1 .. Len(list) /\ k = Len(list) + 1
        BY <3>2, <4>1, <4>3, Zenon
      <4>4. CASE j = Len(list) + 1 /\ k \in 1 .. Len(list)
        BY <3>2, <4>1, <4>4, Zenon
      <4>5. QED
        BY <3>3, <4>2, <4>3, <4>4, Zenon
    <3>5. \A k \in 1 .. Len(list') : Reached(list'[k]) /\ list'[k].serial \notin OldFirmware
      BY <1>3, <2>2, <3>2, <3>3, Zenon
    <3>6. \A k \in 1 .. Len(list) : k \in 1 .. Len(list')
      BY <1>4, <3>2
    <3>7. Len(list) + 1 \in 1 .. Len(list')
      BY <1>4, <3>2
    <3>8. (\A c : Listed(c) => Listed(c)') /\ Listed(entry.serial)'
      BY <3>2, <3>6, <3>7, Zenon DEF Listed
    <3>9. QED
      BY <3>4, <3>5, <3>8
  <2>3. QED
    BY <1>1, <1>4, <2>1, <2>2, Zenon DEF Add, Listed
<1>7. ASSUME NEW c \in Cameras \ OldFirmware, NEW i \in sockets', <<c, i>> \in Reach
      PROVE  Entry(c, FlashIp[c], i) \in inbox' \/ Listed(c)'
  <2>1. CASE Entry(c, FlashIp[c], i) = entry
    <3>1. entry.serial = c
      BY <2>1 DEF Entry
    <3>2. QED
      BY <1>6, <3>1
  <2>2. CASE Entry(c, FlashIp[c], i) # entry
    BY <1>1, <1>2, <1>3, <1>6, <1>7, <2>2
  <2>3. QED
    BY <2>1, <2>2
<1>8. QED
  BY <1>1, <1>3, <1>5, <1>6, <1>7, Zenon DEF SearchInv

\* Every step keeps what is said of a search.
LEMMA NextSearches == IInv /\ SearchInv /\ [Next]_vars => SearchInv'
<1> SUFFICES ASSUME IInv, SearchInv, [Next]_vars PROVE SearchInv'
  OBVIOUS
<1>1. CASE UNCHANGED <<pc, inbox, sockets, broken, list>>
  BY <1>1 DEF SearchInv, Discovering, Reached, Listed
<1>2. CASE pc' # "discover"
  BY <1>2 DEF SearchInv, Discovering
<1>3. ASSUME NEW u \in Urls, FindByUrl(u) PROVE SearchInv'
  BY <1>3, FindSearches
<1>4. CASE Announced
  BY <1>4, AnnouncedSearches
<1>5. CASE CameraConfigures
  <2>1. orders # <<>> /\ orders \in Seq(AnOrder)
    BY <1>5 DEF CameraConfigures, IInv, TypeOK
  <2>2. 1 \in 1 .. Len(orders) /\ Head(orders) = orders[1]
    BY <2>1
  <2>3. pc = "discover" => ~Head(orders).live
    BY <2>2 DEF IInv, OrdersInv, LastOrder
  <2>4. pc' = "discover" => UNCHANGED <<pc, inbox, sockets, broken, list>>
    BY <1>5, <2>3 DEF CameraConfigures, findVars
  <2>5. QED
    BY <1>1, <1>2, <2>4
<1>6. CASE \/ \E u \in Urls : DiscoverFails(u)
           \/ ReceiveFails \/ ConfigureFails \/ ConfigureUnconnected
           \/ Configure \/ Configured \/ ConfigureTimesOut \/ ConfigureReceiveFails
  BY <1>2, <1>6 DEF DiscoverFails, ReceiveFails, ConfigureFails, ConfigureUnconnected, Configure,
                    Configured, ConfigureTimesOut, ConfigureReceiveFails, Stop
<1>7. CASE AnnouncedTooLate \/ SearchTimesOut
  BY <1>2, <1>7, DecideChooses DEF AnnouncedTooLate, SearchTimesOut
<1>8. CASE WaitGoesOn \/ Disturbed \/ LoseOrder \/ UNCHANGED vars
  BY <1>1, <1>8 DEF WaitGoesOn, Disturbed, LoseOrder, netVars, findVars, vars
<1>9. QED
  BY <1>3, <1>4, <1>5, <1>6, <1>7, <1>8 DEF Next, HostStep

\* The cameras of the list that match are the candidates, one each.
LEMMA MatchesAreCandidates ==
    ASSUME IInv, SearchInv, Discovering, inbox = {}
    PROVE  /\ Matches \subseteq 1 .. Len(list)
           /\ Candidates = {list[k].serial : k \in Matches}
           /\ \A j, k \in Matches : list[j].serial = list[k].serial => j = k
<1>1. list \in Seq(AnEntry) /\ DOMAIN list = 1 .. Len(list)
  BY DEF IInv, TypeOK
<1>2. Matches \subseteq 1 .. Len(list)
  BY <1>1 DEF Matches
<1>3. ASSUME NEW k \in Matches PROVE list[k].serial \in Candidates
  <2>1. k \in 1 .. Len(list) /\ Matching(url, list[k].serial)
    BY <1>2, Zenon DEF Matches
  <2>2. list[k].serial \in Cameras
    <3>1. k \in 1 .. Len(list)
      BY <2>1
    <3>2. list[k] \in AnEntry
      BY <1>1, <3>1
    <3>3. QED
      BY <3>2 DEF AnEntry
  <2>3. Reached(list[k]) /\ list[k].serial \notin OldFirmware
    BY <2>1 DEF SearchInv
  <2>4. QED
    BY <2>1, <2>2, <2>3, Zenon DEF Candidates, Reached
<1>4. ASSUME NEW c \in Candidates PROVE \E k \in Matches : list[k].serial = c
  <2>1. /\ c \in Cameras \ OldFirmware /\ Matching(url, c)
        /\ \E i \in sockets : <<c, i>> \in Reach
    BY DEF Candidates
  <2>2. Listed(c)
    BY <2>1 DEF SearchInv
  <2>3. QED
    BY <1>1, <2>1, <2>2, Zenon DEF Listed, Matches
<1>5. \A j, k \in Matches : list[j].serial = list[k].serial => j = k
  <2>1. \A j, k \in 1 .. Len(list) : list[j].serial = list[k].serial => j = k
    BY DEF SearchInv
  <2>2. QED
    BY <1>2, <2>1, Zenon
<1>6. Candidates = {list[k].serial : k \in Matches}
  <2> HIDE DEF Candidates, Matches
  <2>1. ASSUME NEW c \in {list[k].serial : k \in Matches} PROVE c \in Candidates
    <3>1. PICK k \in Matches : c = list[k].serial
      BY <2>1
    <3>2. QED
      BY <1>3, <3>1
  <2>2. ASSUME NEW c \in Candidates PROVE c \in {list[k].serial : k \in Matches}
    <3>1. PICK k \in Matches : list[k].serial = c
      BY <1>4
    <3>2. QED
      BY <3>1
  <2>3. QED
    BY <2>1, <2>2
<1>7. QED
  BY <1>2, <1>5, <1>6, Zenon

\* Two matches make more than one candidate.
LEMMA SeveralCandidates ==
    ASSUME IInv, SearchInv, Discovering, inbox = {},
           NEW j \in Matches, NEW k \in Matches, j # k
    PROVE  Cardinality(Candidates) > 1
<1> DEFINE a == list[j].serial
           b == list[k].serial
           serial == [n \in Matches |-> list[n].serial]
<1>1. a # b /\ a \in Candidates /\ b \in Candidates
  BY MatchesAreCandidates
<1>2. IsFiniteSet(Matches)
  <2>1. Len(list) \in Int
    BY DEF IInv, TypeOK
  <2>2. IsFiniteSet(1 .. Len(list))
    BY <2>1, FS_Interval
  <2>3. QED
    BY <2>2, MatchesAreCandidates, FS_Subset
<1>3. serial \in Surjection(Matches, Candidates)
  <2>1. serial \in [Matches -> Candidates]
    BY MatchesAreCandidates
  <2>2. \A c \in Candidates : \E n \in Matches : serial[n] = c
    BY MatchesAreCandidates
  <2>3. QED
    BY <2>1, <2>2, Zenon DEF Surjection
<1>4. IsFiniteSet(Candidates)
  BY <1>2, <1>3, FS_Surjection
<1> HIDE DEF a, b
<1>5. IsFiniteSet({a}) /\ Cardinality({a}) = 1
  BY FS_Singleton
<1>6. Cardinality({a} \cup {b}) = 2
  <2>1. b \notin {a}
    BY <1>1
  <2>2. Cardinality({a} \cup {b}) = IF b \in {a} THEN Cardinality({a}) ELSE Cardinality({a}) + 1
    BY <1>5, FS_AddElement, Zenon
  <2>3. QED
    BY <1>5, <2>1, <2>2
<1>7. Cardinality({a} \cup {b}) <= Cardinality(Candidates)
  BY <1>1, <1>4, FS_Subset
<1>8. Cardinality(Candidates) \in Nat
  BY <1>4, FS_CardinalityType
<1>9. QED
  BY <1>6, <1>7, <1>8

\* The decision that ends a search follows the cameras that are candidates.
LEMMA DecideDecides ==
    ASSUME IInv, SearchInv, Discovering, inbox = {}, Decide
    PROVE  \/ Candidates = {} /\ outcome' = "noMatch"
           \/ Candidates # {} /\ url.address = BadAddress /\ outcome' = "badIp"
           \/ Cardinality(Candidates) > 1 /\ url.address # BadAddress /\ outcome' = "multiMatch"
           \/ Candidates = {camera'.serial} /\ pc' = "found"
<1>1. CASE Matches = {} /\ Stop("noMatch")
  BY <1>1, MatchesAreCandidates DEF Stop
<1>2. ASSUME NEW k \in Matches, Take(list[k])
      PROVE  \/ Candidates # {} /\ url.address = BadAddress /\ outcome' = "badIp"
             \/ Cardinality(Candidates) > 1 /\ url.address # BadAddress /\ outcome' = "multiMatch"
             \/ Candidates = {camera'.serial} /\ pc' = "found"
  <2>1. list[k].serial \in Candidates
    BY MatchesAreCandidates
  <2>2. list[k] \in AnEntry
    BY MatchesAreCandidates DEF IInv, TypeOK
  <2>3. AddressOf(list[k]) = BadAddress <=> url.address = BadAddress
    BY <2>2 DEF AddressOf, AnEntry
  <2>4. CASE AddressOf(list[k]) = BadAddress
    BY <1>2, <2>1, <2>3, <2>4 DEF Take, Stop
  <2>5. CASE AddressOf(list[k]) # BadAddress /\ \E i, j \in Matches : i # j
    <3>1. outcome' = "multiMatch"
      BY <1>2, <2>5 DEF Take, Stop
    <3>2. Cardinality(Candidates) > 1
      BY <2>5, SeveralCandidates
    <3>3. QED
      BY <2>3, <2>5, <3>1, <3>2
  <2>6. CASE AddressOf(list[k]) # BadAddress /\ ~\E i, j \in Matches : i # j
    <3>1. pc' = "found" /\ camera' = [list[k] EXCEPT !.ip = AddressOf(list[k])]
      BY <1>2, <2>6 DEF Take
    <3>2. camera'.serial = list[k].serial
      BY <2>2, <3>1 DEF AnEntry
    <3>3. Candidates = {list[k].serial}
      BY <2>6, MatchesAreCandidates
    <3>4. QED
      BY <3>1, <3>2, <3>3
  <2>7. QED
    BY <2>4, <2>5, <2>6
<1>3. QED
  BY <1>1, <1>2 DEF Decide

(***************************************************************************)
(* A search that missed no announcement ends as the cameras that the       *)
(* interfaces reach and the URL demand, for any number of them.            *)
(***************************************************************************)
THEOREM SearchesDecide == Spec => SearchDecides
<1> DEFINE Good ==
      Discovering /\ inbox = {} /\ pc' # "discover" =>
          \/ Candidates = {} /\ outcome' = "noMatch"
          \/ Candidates # {} /\ url.address = BadAddress /\ outcome' = "badIp"
          \/ Cardinality(Candidates) > 1 /\ url.address # BadAddress /\ outcome' = "multiMatch"
          \/ Candidates = {camera'.serial} /\ pc' = "found"
<1>1. IInv /\ SearchInv /\ [Next]_vars => [Good]_vars
  <2> SUFFICES ASSUME IInv, SearchInv, [Next]_vars, Discovering, inbox = {}, pc' # "discover"
               PROVE  Good
    OBVIOUS
  <2>1. Decide
    BY DEF Next, HostStep, vars, FindByUrl, DiscoverFails, WaitGoesOn, Disturbed, Discovering,
           Announced, AnnouncedTooLate, ReceiveFails, SearchTimesOut, ConfigureFails,
           ConfigureUnconnected, Configure, Configured, ConfigureTimesOut, Stop,
           ConfigureReceiveFails, CameraConfigures, LoseOrder
  <2>2. QED
    BY <2>1, DecideDecides
<1>2. Init => SearchInv
  BY DEF Init, SearchInv, Discovering
<1>3. QED
  BY <1>1, <1>2, InitInv, NextInv, NextSearches, PTL DEF Spec, SearchDecides
=============================================================================
