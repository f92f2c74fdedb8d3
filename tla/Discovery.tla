----------------------------- MODULE Discovery -----------------------------
(***************************************************************************)
(* How a program gets hold of a camera: wge100FindByUrl asks every camera  *)
(* to announce itself (wge100Discover) and takes the one the URL matches,  *)
(* then wge100Configure gives that camera its address (wge100lib.c), with  *)
(* the camera's two handlers (wge.fs).                                     *)
(*                                                                         *)
(* A camera stands for its serial number.  It answers a discover request   *)
(* on every interface that reaches it, with the address from its flash.    *)
(* An announcement that is lost or late is one the host never takes out of *)
(* "inbox".  A configure order may take effect after the host gave it up.  *)
(***************************************************************************)
EXTENDS PacketWait, FiniteSets, Sequences

CONSTANTS Cameras, Interfaces, Addresses,
          Reach,        \* the pairs <<camera, interface>> that are connected
          Name,         \* the name each camera was given
          FlashIp,      \* the address each camera has in its flash
          OldFirmware,  \* cameras whose announcement has no name and address
          Urls,
          NoAddress,    \* no @ in the URL
          BadAddress,   \* @ and something inet_aton refuses
          AllInterfaces,\* no # in the URL
          MaxSearches   \* bound: calls of wge100FindByUrl

ASSUME ReachAssumption == Reach \subseteq Cameras \X Interfaces
ASSUME FlashIpAssumption == FlashIp \in [Cameras -> Addresses]
ASSUME OldFirmwareAssumption == OldFirmware \subseteq Cameras
ASSUME AddressAssumption ==
    {NoAddress, BadAddress} \cap Addresses = {} /\ NoAddress # BadAddress
ASSUME UrlAssumption ==
    \A u \in Urls : /\ u.prefix \in {"name", "serial", "any", "bad"}
                    /\ u.address \in Addresses \cup {NoAddress, BadAddress}
                    /\ u.interface \in Interfaces \cup {AllInterfaces}

VARIABLES ip,       \* the address of each camera
          orders,   \* configure orders in flight; live: their socket is open
          inbox,    \* announcements the sockets have or will have
          sockets,  \* interfaces with a socket
          broken,   \* one of these sockets is closed already
          list,     \* camList
          camera,   \* the caller's struct: what is found
          url, outcome, pc,
          searches  \* searches begun (history)

netVars == <<ip, orders, inbox>>
findVars == <<sockets, broken, list, camera, url, searches>>
vars == <<waitVars, netVars, findVars, outcome, pc>>

\* An entry of the list, an order, and the struct before anything is found.
Entry(c, a, i) == [serial |-> c, ip |-> a, interface |-> i]
AnEntry == [serial : Cameras, ip : Addresses, interface : Interfaces]
AnOrder == [serial : Cameras, ip : Addresses, live : BOOLEAN]
NoEntry == [serial |-> NoAddress, ip |-> NoAddress, interface |-> AllInterfaces]

Init ==
    /\ WaitInit
    /\ ip = FlashIp
    /\ orders = <<>>
    /\ inbox = {}
    /\ sockets = {}
    /\ broken = FALSE
    /\ list = <<>>
    /\ camera = NoEntry
    /\ url \in Urls
    /\ outcome = "none"
    /\ pc = "idle"
    /\ searches = 0

-----------------------------------------------------------------------------
(* wge100FindByUrl and wge100Discover *)

Selected(u) == IF u.interface = AllInterfaces THEN Interfaces ELSE {u.interface}

Matching(u, c) ==
    \/ u.prefix = "name" /\ u.id = Name[c]
    \/ u.prefix = "serial" /\ u.id = c
    \/ u.prefix = "any"

Stop(result) ==
    /\ pc' = "idle"
    /\ outcome' = result

(***************************************************************************)
(* Parses the URL and sends a discover request on every interface.  An     *)
(* interface on which no socket can be made is left out.  wge100SendUDP    *)
(* closes the socket on which it could not send; wge100DiscoverSend        *)
(* returns it all the same, and select refuses it from then on.            *)
(***************************************************************************)
FindByUrl(u) ==
    /\ pc = "idle"
    /\ searches < MaxSearches
    /\ searches' = searches + 1
    /\ url' = u
    /\ list' = <<>>
    /\ \/ u.prefix = "bad"
          /\ Stop("malformed")
          /\ UNCHANGED <<waitVars, inbox, sockets, broken>>
       \/ u.prefix # "bad"
          /\ \E open \in SUBSET Selected(u) :
               \E sent \in {open} \cup {open \ {i} : i \in open} :
                 /\ sockets' = open
                 /\ broken' = (sent # open)
                 /\ inbox' = {Entry(r[1], FlashIp[r[1]], r[2]) : r \in {r \in Reach : r[2] \in sent}}
          /\ BeginWait
          /\ pc' = "discover"
          /\ outcome' = "none"
    /\ UNCHANGED <<ip, orders, camera>>

\* getifaddrs or an allocation fails.
DiscoverFails(u) ==
    /\ pc = "idle"
    /\ searches < MaxSearches
    /\ u.prefix # "bad"
    /\ searches' = searches + 1
    /\ url' = u
    /\ list' = <<>>
    /\ Stop("discoverFailed")
    /\ UNCHANGED <<waitVars, netVars, sockets, broken, camera>>

\* wge100CamListAdd, and a fault: it does not look for the serial number.
AddAlways(entry) == Append(list, entry)
Add(entry) ==
    IF \E k \in DOMAIN list : list[k].serial = entry.serial
    THEN list
    ELSE Append(list, entry)

\* The address to use for a match, and a fault: the one in the URL is not.
AddressAnnounced(entry) == entry.ip
AddressOf(entry) == IF url.address = NoAddress THEN entry.ip ELSE url.address

Matches == {k \in DOMAIN list : Matching(url, list[k].serial)}

(***************************************************************************)
(* The search through the list.  The first match is copied to the caller   *)
(* before a second one, or a bad address, makes the call fail.             *)
(***************************************************************************)
Take(first) ==
    IF AddressOf(first) = BadAddress
    THEN Stop("badIp") /\ camera' = first
    ELSE /\ camera' = [first EXCEPT !.ip = AddressOf(first)]
         /\ IF \E j, k \in Matches : j # k
            THEN Stop("multiMatch")
            ELSE pc' = "found" /\ UNCHANGED outcome

Decide ==
    /\ sockets' = {}
    /\ inbox' = {}
    /\ \/ Matches = {} /\ Stop("noMatch") /\ UNCHANGED camera
       \/ \E k \in Matches : (\A j \in Matches : k <= j) /\ Take(list[k])
    /\ list' = <<>>
    /\ UNCHANGED <<ip, orders, broken, url, searches>>

Discovering == pc = "discover" /\ ~broken

Announced ==
    /\ Discovering
    /\ PacketInTime
    /\ \E entry \in inbox :
         /\ inbox' = inbox \ {entry}
         /\ list' = IF entry.serial \in OldFirmware THEN list ELSE Add(entry)
    /\ UNCHANGED <<ip, orders, sockets, broken, camera, url, outcome, pc, searches>>

AnnouncedTooLate ==
    /\ Discovering
    /\ inbox # {}
    /\ PacketTooLate
    /\ Decide

ReceiveFails ==
    /\ Discovering
    /\ inbox # {}
    /\ TimeLeft > 0
    /\ EndWait
    /\ Stop("discoverFailed")
    /\ sockets' = {}
    /\ inbox' = {}
    /\ list' = <<>>
    /\ UNCHANGED <<ip, orders, broken, camera, url, searches>>

SearchTimesOut ==
    /\ Discovering
    /\ TimesOut
    /\ Decide

-----------------------------------------------------------------------------
(* wge100Configure *)

\* Nothing is sent: no socket, or sendto fails.
ConfigureFails ==
    /\ pc = "found"
    /\ Stop("configureFailed")
    /\ UNCHANGED <<waitVars, netVars, findVars>>

Order(live) == [serial |-> camera.serial, ip |-> camera.ip, live |-> live]

\* The order is out, then the socket cannot be connected.
ConfigureUnconnected ==
    /\ pc = "found"
    /\ orders' = Append(orders, Order(FALSE))
    /\ Stop("configureFailed")
    /\ UNCHANGED <<waitVars, ip, inbox, findVars>>

Configure ==
    /\ pc = "found"
    /\ orders' = Append(orders, Order(TRUE))
    /\ BeginWait
    /\ pc' = "configure"
    /\ UNCHANGED <<ip, inbox, findVars, outcome>>

\* The socket is closed: answers to orders still in flight are lost.
Unheard(order) == [serial |-> order.serial, ip |-> order.ip, live |-> FALSE]
Abandon ==
    /\ orders' = [k \in DOMAIN orders |-> Unheard(orders[k])]
    /\ inbox' = {}

Configured ==
    /\ pc = "configure"
    /\ TimeLeft > 0
    /\ \E entry \in inbox : entry.serial = camera.serial
    /\ EndWait
    /\ Stop("configured")
    /\ Abandon
    /\ UNCHANGED <<ip, findVars>>

ConfigureTimesOut ==
    /\ pc = "configure"
    /\ TimesOut \/ (inbox # {} /\ PacketTooLate)
    /\ Stop("timeout")
    /\ Abandon
    /\ UNCHANGED <<ip, findVars>>

ConfigureReceiveFails ==
    /\ pc = "configure"
    /\ inbox # {}
    /\ TimeLeft > 0
    /\ EndWait
    /\ Stop("configureFailed")
    /\ Abandon
    /\ UNCHANGED <<ip, findVars>>

-----------------------------------------------------------------------------
(* The camera and the network *)

\* handle-configure, in the camera whose serial number the order names.
CameraConfigures ==
    /\ orders # <<>>
    /\ orders' = Tail(orders)
    /\ LET order == Head(orders) IN
       /\ ip' = [ip EXCEPT ![order.serial] = order.ip]
       /\ inbox' = IF order.live
                   THEN inbox \cup {Entry(order.serial, FlashIp[order.serial], camera.interface)}
                   ELSE inbox
    /\ UNCHANGED <<waitVars, findVars, outcome, pc>>

LoseOrder ==
    /\ orders # <<>>
    /\ orders' = Tail(orders)
    /\ UNCHANGED <<waitVars, ip, inbox, findVars, outcome, pc>>

WaitGoesOn ==
    /\ Discovering \/ pc = "configure"
    /\ Tick \/ SelectTimesOut
    /\ UNCHANGED <<netVars, findVars, outcome, pc>>

Disturbed ==
    /\ Discovering \/ pc = "configure"
    /\ ForeignPacket \/ WaitFails
    /\ UNCHANGED <<netVars, findVars, outcome, pc>>

HostStep ==
    \/ WaitGoesOn
    \/ Announced
    \/ AnnouncedTooLate
    \/ ReceiveFails
    \/ SearchTimesOut
    \/ ConfigureFails
    \/ ConfigureUnconnected
    \/ Configure
    \/ Configured
    \/ ConfigureTimesOut
    \/ ConfigureReceiveFails

Next ==
    \/ \E u \in Urls : FindByUrl(u) \/ DiscoverFails(u)
    \/ HostStep
    \/ Disturbed
    \/ CameraConfigures
    \/ LoseOrder

\* The calling thread runs and time passes.
Spec == Init /\ [][Next]_vars /\ WF_vars(HostStep)

-----------------------------------------------------------------------------
TypeOK ==
    /\ WaitTypeOK
    /\ ip \in [Cameras -> Addresses]
    /\ orders \in Seq(AnOrder)
    /\ inbox \subseteq AnEntry
    /\ sockets \subseteq Interfaces
    /\ broken \in BOOLEAN
    /\ list \in Seq(AnEntry)
    /\ camera \in AnEntry \cup {NoEntry}
    /\ url \in Urls
    /\ pc \in {"idle", "discover", "found", "configure"}
    /\ Waiting <=> pc \in {"discover", "configure"}

(***************************************************************************)
(* When no announcement was missed, the search ends as the cameras that    *)
(* the interfaces reach and the URL demand: it finds the one that matches, *)
(* however many interfaces reach it, and fails when there is none or more. *)
(***************************************************************************)
Candidates == {c \in Cameras \ OldFirmware : Matching(url, c)
                                   /\ \E i \in sockets : <<c, i>> \in Reach}
SearchDecides ==
    [][ Discovering /\ inbox = {} /\ pc' # "discover" =>
          \/ Candidates = {} /\ outcome' = "noMatch"
          \/ Candidates # {} /\ url.address = BadAddress /\ outcome' = "badIp"
          \/ Cardinality(Candidates) > 1 /\ url.address # BadAddress /\ outcome' = "multiMatch"
          \/ Candidates = {camera'.serial} /\ pc' = "found" ]_vars

(***************************************************************************)
(* When the call succeeds, the one camera it leaves configured has the     *)
(* address the URL asks for, or the one of its flash, and it is one the    *)
(* URL names, whatever orders of earlier searches are still on their way.  *)
(***************************************************************************)
ConfiguredAsAsked ==
    [][ pc = "configure" /\ outcome' = "configured" /\ pc' = "idle" =>
          /\ Matching(url, camera.serial)
          /\ ip[camera.serial] = IF url.address = NoAddress
                                 THEN FlashIp[camera.serial]
                                 ELSE url.address ]_vars

\* Every search ends, unless a socket was closed under it: select refuses
\* that socket at once and forever, and nothing leaves the loop.
SearchEnds == (pc # "idle") ~> (pc = "idle" \/ broken)
=============================================================================
