---------------------------- MODULE SensorStart ----------------------------
(***************************************************************************)
(* What OtListener::init() does before the capture thread is started: it     *)
(* asks for the interface to listen on (NetworkTools::getDeviceInfo), works   *)
(* out its segment, and the constructor of Sniffer opens the interface and    *)
(* sets the filter; each failure exits the process.  The interfaces of the     *)
(* host may change between any two of these steps.  OtListener has all of it   *)
(* as AddAdapter and StartFails.                                              *)
(***************************************************************************)
EXTENDS Naturals, Sequences, FiniteSetsExt, Functions

CONSTANTS
  Hosts,       \* interfaces a host may have: sequences of [name, flags, mac, entries]
  OddNames,    \* names with characters that cleanQString() replaces or drops
  Junk,        \* the addresses that memory nobody has set may hold
  MaxChanges   \* changes of the interfaces

\* An IPv4 address is a sequence of four bytes, any other address the empty one.
NoAddress == <<>>
Addresses == [1..4 -> 0..255]

\* A mask has leading ones.
MaskBytes == {0, 128, 192, 224, 240, 248, 252, 254, 255}
Masks == {m \in [1..4 -> MaskBytes] : \A k \in 2..4 : m[k] # 0 => m[k - 1] = 255}

Entries == [ip : Addresses, mask : Masks] \cup [ip : {NoAddress}, mask : {NoAddress}]

Interfaces == [name : STRING \ {""}, flags : SUBSET STRING, mac : STRING, entries : Seq(Entries)]

\* Every interface has a name, and cleaning keeps an empty one.
ASSUME StartAssumption ==
  /\ MaxChanges \in Nat
  /\ "" \notin OddNames
  /\ Junk \subseteq Addresses /\ Junk # {}
  /\ Hosts \subseteq Seq(Interfaces)

VARIABLES
  host,        \* the interfaces at present
  changes,     \* how often they have changed
  pc,          \* the step that comes next; "capturing", or "exit"
  client,      \* _ot_client: iface, ifaceIp, ifaceMac; and the mask
  netSegment,  \* the address that is announced, with "/24"
  segmentIps,  \* segmentIpList, by its first and last address
  seen,        \* history: the interfaces as getDeviceInfo() saw them
  asked        \* history: the interfaces as get_ipmask() saw them

vars == <<host, changes, pc, client, netSegment, segmentIps, seen, asked>>

NoMac == "00:00:00:00:00:00"
LocalHost == <<127, 0, 0, 1>>
AnyAddress == <<0, 0, 0, 0>>
NoSegment == [first |-> NoAddress, last |-> NoAddress]
NoClient == [iface |-> "", ip |-> NoAddress, mac |-> "", mask |-> NoAddress]

\* The name as it goes into _ot_client.
CleanName(name) == IF name \in OddNames THEN "cleaned" ELSE name
Cleaned(c) == [c EXCEPT !.iface = CleanName(@)]

-----------------------------------------------------------------------------
(* Interfaces and addresses.                                                 *)

\* The conditions of getDeviceInfo() on an interface; a name with "VM" has the flag.
Suitable(i) ==
  /\ {"IsValid", "IsUp", "IsRunning"} \subseteq i.flags
  /\ {"IsLoopBack", "IsPointToPoint", "VM"} \cap i.flags = {}
  /\ i.mac # NoMac

SuitableEntry(e) == e.ip \notin {LocalHost, AnyAddress, NoAddress}

\* The entries of an interface that will do, and the interfaces that have one, by
\* their places in the order of the loops.
Fitting(i) == {e \in DOMAIN i.entries : Suitable(i) /\ SuitableEntry(i.entries[e])}
Offers(interfaces) == {k \in DOMAIN interfaces : Fitting(interfaces[k]) # {}}

\* What is kept of an entry of an interface.
Info(i, e) == [iface |-> i.name, ip |-> i.entries[e].ip, mac |-> i.mac, mask |-> i.entries[e].mask]

\* Wrong: goes on after the first one.
LastDevice(interfaces) ==
  IF Offers(interfaces) = {} THEN NoClient
  ELSE LET i == interfaces[Max(Offers(interfaces))] IN Info(i, Max(Fitting(i)))

\* getDeviceInfo(): the first entry of the first interface that will do.
Device(interfaces) ==
  IF Offers(interfaces) = {} THEN NoClient
  ELSE LET i == interfaces[Min(Offers(interfaces))] IN Info(i, Min(Fitting(i)))

\* A byte, and an address, under a mask of leading ones.
Masked(byte, mask) == byte - (byte % (256 - mask))
Network(ip, mask) == [k \in 1..4 |-> Masked(ip[k], mask[k])]

\* Wrong: adds what is not masked to the address itself.
BroadcastOfAddress(ip, mask) == [k \in 1..4 |-> ip[k] + 255 - mask[k]]
Broadcast(ip, mask) == [k \in 1..4 |-> Network(ip, mask)[k] + 255 - mask[k]]

SegmentMask == <<255, 255, 255, 0>>

\* The bounds of the loop that fills segmentIpList: an address after the other.
Segment(ip) == [first |-> Network(ip, SegmentMask), last |-> Broadcast(ip, SegmentMask)]

-----------------------------------------------------------------------------
Init ==
  /\ host \in Hosts
  /\ changes = 0
  /\ pc = "device"
  /\ client = NoClient
  /\ netSegment = NoAddress
  /\ segmentIps = NoSegment
  /\ seen = <<>>
  /\ asked = <<>>

At(place, next) ==
  /\ pc = place
  /\ pc' = next
  /\ UNCHANGED <<host, changes>>

\* getDeviceInfo() and cleanQString().
GetDeviceInfo ==
  /\ At("device", "segment")
  /\ client' = Cleaned(Device(host))
  /\ seen' = host
  /\ UNCHANGED <<netSegment, segmentIps, asked>>

\* geNetSegment() and the list of the constructor of Sniffer.  Undefined: without an
\* address both work on memory that nobody has set, and init() logs the result.
GetSegment ==
  /\ At("segment", "open")
  /\ IF client.ip = NoAddress
     THEN \E a, b \in Junk : netSegment' = a /\ segmentIps' = Segment(b)
     ELSE /\ netSegment' = Network(client.ip, client.mask)
          /\ segmentIps' = Segment(client.ip)
  /\ UNCHANGED <<client, seen, asked>>

Named(name) == {i \in Range(host) : i.name = name}

\* pcap_open_live() needs an interface of that name that is up ...
Open ==
  /\ At("open", "configure")
  /\ \E i \in Named(client.iface) : "IsUp" \in i.flags
  /\ UNCHANGED <<client, netSegment, segmentIps, seen, asked>>

\* ... and the permission to capture.
OpenFails ==
  /\ At("open", "exit")
  /\ UNCHANGED <<client, netSegment, segmentIps, seen, asked>>

\* pcap_setnonblock(), pcap_set_datalink(): for an Ethernet interface.
Configure ==
  /\ \/ At("configure", "mask")
     \/ At("configure", "exit")
  /\ UNCHANGED <<client, netSegment, segmentIps, seen, asked>>

HasMask(i) == \E e \in Range(i.entries) : e.ip # NoAddress /\ e.mask # <<0, 0, 0, 0>>

\* Wrong: goes on without a mask.
MaskOfAny ==
  /\ At("mask", "filter")
  /\ asked' = host
  /\ UNCHANGED <<client, netSegment, segmentIps, seen>>

\* get_ipmask(): the mask the interface has now, which may not be the client's ...
Mask ==
  /\ At("mask", "filter")
  /\ \E i \in Named(client.iface) : HasMask(i)
  /\ asked' = host
  /\ UNCHANGED <<client, netSegment, segmentIps, seen>>

\* ... or none, also because socket() failed.
NoMask ==
  /\ At("mask", "exit")
  /\ asked' = host
  /\ UNCHANGED <<client, netSegment, segmentIps, seen>>

\* pcap_compile(), pcap_setfilter(); then the thread is started.
SetFilter ==
  /\ \/ At("filter", "capturing")
     \/ At("filter", "exit")
  /\ UNCHANGED <<client, netSegment, segmentIps, seen, asked>>

\* An interface comes or goes, or changes its address.
HostChanges ==
  /\ pc \notin {"capturing", "exit"}
  /\ changes < MaxChanges
  /\ changes' = changes + 1
  /\ host' \in Hosts
  /\ UNCHANGED <<pc, client, netSegment, segmentIps, seen, asked>>

Step == GetDeviceInfo \/ GetSegment \/ Open \/ OpenFails \/ Configure \/ Mask \/ NoMask \/ SetFilter
Ended == pc \in {"capturing", "exit"} /\ UNCHANGED vars

Next == Step \/ HostChanges \/ Ended

Spec == Init /\ [][Next]_vars

-----------------------------------------------------------------------------
(* Properties.                                                               *)

\* The type invariant: places, addresses and the list are in their range
\* (otlistener.cpp:14-27, sniffer.cpp:7-26).
TypeOK ==
  /\ pc \in {"device", "segment", "open", "configure", "mask", "filter", "capturing", "exit"}
  /\ changes \in 0..MaxChanges
  /\ \A a \in {client.ip, client.mask, netSegment, segmentIps.first, segmentIps.last} :
       a = NoAddress \/ a \in [1..4 -> 0..255]

\* However the interfaces change meanwhile, the name, the address and the mask that
\* are announced belong together: they are those of one entry of one interface that
\* was up, running and no loopback when it was chosen, and no suitable one came
\* before it (networktools.h:200-227).
ChosenTogether ==
  client.ip # NoAddress =>
    \E i \in DOMAIN seen : \E e \in DOMAIN seen[i].entries :
      /\ client = [iface |-> CleanName(seen[i].name), ip |-> seen[i].entries[e].ip,
                   mac |-> seen[i].mac, mask |-> seen[i].entries[e].mask]
      /\ "IsRunning" \in seen[i].flags /\ "IsLoopBack" \notin seen[i].flags
      /\ "VM" \notin seen[i].flags
      /\ \A j \in 1..(i - 1) : Suitable(seen[j]) =>
           \A f \in Range(seen[j].entries) : f.ip \in {LocalHost, AnyAddress, NoAddress}

\* The list of addresses is the /24 network of the sensor, whatever its mask: the
\* loop runs over one last byte from 0 to 255 (sniffer.cpp:7-26).
ListsOwnNetwork ==
  segmentIps # NoSegment /\ client.ip # NoAddress =>
    /\ SubSeq(segmentIps.first, 1, 3) = SubSeq(client.ip, 1, 3)
    /\ SubSeq(segmentIps.last, 1, 3) = SubSeq(client.ip, 1, 3)
    /\ segmentIps.first[4] = 0 /\ segmentIps.last[4] = 255

\* The network that is announced with "/24" is the one that is listed for a mask of
\* 24 bits.  For a longer mask it is an address within the list, for a shorter one it
\* may be another network (otlistener.cpp:26, sniffer.cpp:9).
AnnouncedIsListed ==
  segmentIps # NoSegment /\ client.ip # NoAddress =>
    /\ client.mask = SegmentMask => netSegment = segmentIps.first
    /\ client.mask[3] = 255 => SubSeq(netSegment, 1, 3) = SubSeq(segmentIps.first, 1, 3)

\* What is announced, and listed, is of one interface; a host without a suitable one
\* announces what memory holds, but never captures (otlistener.cpp:20-41).
Announcement == ChosenTogether /\ ListsOwnNetwork /\ AnnouncedIsListed

\* Nothing is captured that was not announced for an interface: a sensor that captures
\* was given the address of an interface when it looked for one, and an interface of
\* the same name had an address when the filter was set.  In between, and
\* after, it may have been without, or have another one (sniffer.cpp:66-101).
CapturesWithAddress ==
  pc = "capturing" =>
    /\ \E i \in Range(seen) : \E e \in Range(i.entries) :
         /\ client.iface = CleanName(i.name) /\ client.ip = e.ip
         /\ e.ip \notin {NoAddress, LocalHost, AnyAddress}
    /\ \E i \in Range(asked) : i.name = client.iface /\ \E e \in Range(i.entries) : e.ip # NoAddress
=============================================================================
