--------------------------- MODULE SensorStartProofs ---------------------------
(***************************************************************************)
(* Proofs about SensorStart, for all hosts and however often their          *)
(* interfaces change.                                                       *)
(***************************************************************************)
EXTENDS SensorStart, WellFoundedInduction, SequenceTheorems, TLAPS

-----------------------------------------------------------------------------
(* The device.                                                               *)

\* The first of some places in a sequence is one of them, and none comes before it.
LEMMA FirstPlace ==
  ASSUME NEW T, T \subseteq Nat, T # {}
  PROVE  Min(T) \in T /\ \A y \in T : Min(T) <= y
<1>1. PICK x \in T : \A y \in T : ~ (<<y, x>> \in OpToRel(<, Nat))
  BY NatLessThanWellFounded, WFMin
<1>2. \A y \in T : ~ (y < x)
  BY <1>1 DEF OpToRel
<1>3. \E z \in T : \A y \in T : z <= y
  BY <1>2
<1> QED
  BY <1>3 DEF Min

\* What getDeviceInfo() finds: nothing, or the first entry that will do of the first
\* interface that has one.
LEMMA DeviceFound ==
  ASSUME NEW h \in Seq(Interfaces)
  PROVE  \/ Device(h) = NoClient
         \/ \E i \in 1..Len(h) : \E e \in DOMAIN h[i].entries :
              /\ Device(h) = Info(h[i], e)
              /\ e \in Fitting(h[i])
              /\ \A j \in 1..(i - 1) : Fitting(h[j]) = {}
<1> SUFFICES ASSUME Offers(h) # {}
             PROVE  \E i \in 1..Len(h) : \E e \in DOMAIN h[i].entries :
                      /\ Device(h) = Info(h[i], e)
                      /\ e \in Fitting(h[i])
                      /\ \A j \in 1..(i - 1) : Fitting(h[j]) = {}
  BY DEF Device
<1> DEFINE i == Min(Offers(h))
           e == Min(Fitting(h[i]))
<1>1. DOMAIN h = 1..Len(h) /\ Len(h) \in Nat
  BY LenProperties
<1>2. i \in Offers(h) /\ \A j \in Offers(h) : i <= j
  <2>1. Offers(h) \subseteq Nat
    BY <1>1 DEF Offers
  <2> QED BY <2>1, FirstPlace
<1>3. i \in 1..Len(h) /\ Fitting(h[i]) # {}
  BY <1>1, <1>2 DEF Offers
<1>4. h[i].entries \in Seq(Entries)
  <2>1. h[i] \in Interfaces
    BY <1>3, ElementOfSeq
  <2> QED BY <2>1 DEF Interfaces
<1>5. Fitting(h[i]) \subseteq DOMAIN h[i].entries /\ DOMAIN h[i].entries \subseteq Nat
  BY <1>4, LenProperties DEF Fitting
<1>6. e \in Fitting(h[i])
  BY <1>3, <1>5, FirstPlace
<1>7. Device(h) = Info(h[i], e)
  BY DEF Device
<1>8. ASSUME NEW j \in 1..(i - 1)
      PROVE  Fitting(h[j]) = {}
  <2>1. j \in DOMAIN h /\ ~ (i <= j)
    BY <1>1, <1>3
  <2> QED BY <1>2, <2>1 DEF Offers
<1> QED BY <1>3, <1>5, <1>6, <1>7, <1>8

\* What is kept of it.
LEMMA InfoType ==
  ASSUME NEW i \in Interfaces, NEW e \in DOMAIN i.entries, e \in Fitting(i)
  PROVE  /\ i.entries[e].ip \in Addresses /\ i.entries[e].mask \in Masks
         /\ i.entries[e].ip # NoAddress
<1>1. i.entries \in Seq(Entries)
  BY DEF Interfaces
<1>2. i.entries[e] \in Entries
  BY <1>1, ElementOfSeq, LenProperties
<1>3. i.entries[e].ip # NoAddress
  BY DEF Fitting, SuitableEntry
<1> QED BY <1>2, <1>3 DEF Entries

-----------------------------------------------------------------------------
(* Addresses.                                                                *)

\* What a byte of a mask leaves of a byte.
LEMMA MaskedByte ==
  ASSUME NEW a \in 0..255, NEW m \in MaskBytes
  PROVE  /\ Masked(a, m) \in 0..255
         /\ m = 255 => Masked(a, m) = a
         /\ m = 0 => Masked(a, m) = 0
<1>1. m = 0 \/ m = 128 \/ m = 192 \/ m = 224 \/ m = 240 \/ m = 248 \/ m = 252 \/ m = 254 \/ m = 255
  BY DEF MaskBytes
<1>2. CASE m = 0
  <2>1. a % 256 = a
    OBVIOUS
  <2> QED BY <1>2, <2>1 DEF Masked
<1>3. CASE m = 255
  <2>1. a % 1 = 0
    OBVIOUS
  <2> QED BY <1>3, <2>1 DEF Masked
<1>4. ASSUME NEW b \in {2, 4, 8, 16, 32, 64, 128}
      PROVE  a % b \in 0..a
  OBVIOUS
<1>5. CASE m \notin {0, 255}
  <2>1. 256 - m \in {2, 4, 8, 16, 32, 64, 128}
    BY <1>1, <1>5
  <2>2. a % (256 - m) \in 0..a
    BY <2>1, <1>4
  <2> QED BY <1>1, <1>5, <2>2, SMTT(30) DEF Masked
<1> QED BY <1>2, <1>3, <1>5

\* A mask is an address, and so is a network.
LEMMA NetworkType ==
  ASSUME NEW ip \in Addresses, NEW mask \in Masks
  PROVE  /\ mask \in Addresses /\ Network(ip, mask) \in Addresses
         /\ \A k \in 1..4 : /\ mask[k] = 255 => Network(ip, mask)[k] = ip[k]
                            /\ mask[k] = 0 => Network(ip, mask)[k] = 0
<1>1. mask \in [1..4 -> MaskBytes]
  BY DEF Masks
<1>2. MaskBytes \subseteq 0..255
  BY DEF MaskBytes
<1>3. mask \in Addresses
  BY <1>1, <1>2 DEF Addresses
<1>4. \A k \in 1..4 : ip[k] \in 0..255 /\ mask[k] \in MaskBytes
  BY <1>1, SMTT(30) DEF Addresses
<1>5. \A k \in 1..4 : /\ Masked(ip[k], mask[k]) \in 0..255
                      /\ mask[k] = 255 => Masked(ip[k], mask[k]) = ip[k]
                      /\ mask[k] = 0 => Masked(ip[k], mask[k]) = 0
  BY <1>4, MaskedByte, ZenonT(40)
<1> QED BY <1>3, <1>5, ZenonT(40) DEF Network, Addresses

\* The list of the constructor of Sniffer runs over the last byte.
LEMMA SegmentBounds ==
  ASSUME NEW ip \in Addresses
  PROVE  /\ Segment(ip).first = Network(ip, SegmentMask)
         /\ Segment(ip).first \in Addresses /\ Segment(ip).last \in Addresses
         /\ \A k \in 1..3 : Segment(ip).first[k] = ip[k] /\ Segment(ip).last[k] = ip[k]
         /\ Segment(ip).first[4] = 0 /\ Segment(ip).last[4] = 255
<1>1. /\ SegmentMask \in Masks
      /\ SegmentMask[1] = 255 /\ SegmentMask[2] = 255 /\ SegmentMask[3] = 255 /\ SegmentMask[4] = 0
  BY DEF SegmentMask, Masks, MaskBytes
<1>2. PICK n \in Addresses : n = Network(ip, SegmentMask)
  BY <1>1, NetworkType
<1>3. (\A k \in 1..3 : n[k] = ip[k]) /\ n[4] = 0
  BY <1>1, <1>2, NetworkType
<1>4. Broadcast(ip, SegmentMask) = [k \in 1..4 |-> n[k] + 255 - SegmentMask[k]]
  BY <1>2 DEF Broadcast
<1>5. \A k \in 1..4 : n[k] \in 0..255
  BY DEF Addresses
<1>6. /\ \A k \in 1..3 : Broadcast(ip, SegmentMask)[k] = ip[k]
      /\ Broadcast(ip, SegmentMask)[4] = 255
  BY <1>1, <1>3, <1>4, <1>5, SMTT(30)
<1>7. Broadcast(ip, SegmentMask) \in Addresses
  <2>1. \A k \in 1..4 : k \in 1..3 \/ k = 4
    OBVIOUS
  <2>2. \A k \in 1..4 : SegmentMask[k] = 255 \/ (SegmentMask[k] = 0 /\ n[k] = 0)
    BY ONLY <1>1, <1>3, <2>1
  <2>3. \A k \in 1..4 : n[k] + 255 - SegmentMask[k] \in 0..255
    BY ONLY <1>5, <2>2
  <2> DEFINE e(k) == n[k] + 255 - SegmentMask[k]
  <2>4. \A k \in 1..4 : e(k) \in 0..255
    BY <2>3
  <2>5. Broadcast(ip, SegmentMask) = [k \in 1..4 |-> e(k)]
    BY <1>4
  <2> HIDE DEF e
  <2> QED BY ONLY <2>4, <2>5, SMTT(30) DEF Addresses
<1>8. Segment(ip).first = n /\ Segment(ip).last = Broadcast(ip, SegmentMask)
  BY <1>2 DEF Segment
<1> QED BY <1>2, <1>3, <1>6, <1>7, <1>8

-----------------------------------------------------------------------------
(* The inductive invariant: what is known at each step is what the steps before it   *)
(* made of the interfaces that getDeviceInfo() saw.                                   *)

Places == {"device", "segment", "open", "configure", "mask", "filter", "capturing", "exit"}

HostInv == host \in Hosts /\ changes \in 0..MaxChanges /\ pc \in Places

ClientInv ==
  /\ pc = "device" => client = NoClient
  /\ pc # "device" => seen \in Hosts /\ client = Cleaned(Device(seen))

SegmentInv ==
  /\ pc \in {"device", "segment"} => netSegment = NoAddress /\ segmentIps = NoSegment
  /\ pc \notin {"device", "segment"} =>
       IF client.ip = NoAddress
       THEN netSegment \in Junk /\ \E a \in Junk : segmentIps = Segment(a)
       ELSE netSegment = Network(client.ip, client.mask) /\ segmentIps = Segment(client.ip)

OpenInv ==
  /\ pc \in {"configure", "mask", "filter", "capturing"} => client.ip # NoAddress
  /\ pc \in {"filter", "capturing"} =>
       \E i \in Range(asked) : i.name = client.iface /\ \E e \in Range(i.entries) : e.ip # NoAddress

StartInv == HostInv /\ ClientInv /\ SegmentInv /\ OpenInv

\* Nobody has no name and no address.
LEMMA NobodyFields ==
  NoClient.iface = "" /\ NoClient.ip = NoAddress /\ NoClient.mask = NoAddress
BY DEF NoClient

\* Cleaning changes the name only, and keeps an empty one.
LEMMA CleanedClient ==
  /\ Cleaned(NoClient) = NoClient
  /\ \A i, e : Cleaned(Info(i, e)) = [iface |-> CleanName(i.name), ip |-> i.entries[e].ip,
                                     mac |-> i.mac, mask |-> i.entries[e].mask]
<1>1. CleanName("") = ""
  BY StartAssumption DEF CleanName
<1>2. Cleaned(NoClient) = NoClient
  <2>1. ASSUME NEW n, NEW a, NEW m
        PROVE  [[iface |-> n, ip |-> a, mac |-> m, mask |-> a] EXCEPT !.iface = n]
                 = [iface |-> n, ip |-> a, mac |-> m, mask |-> a]
    OBVIOUS
  <2>2. [NoClient EXCEPT !.iface = ""] = NoClient
    BY <2>1 DEF NoClient
  <2> QED BY <1>1, <2>2, NobodyFields DEF Cleaned
<1>3. \A i, e : Cleaned(Info(i, e)) = [iface |-> CleanName(i.name), ip |-> i.entries[e].ip,
                                      mac |-> i.mac, mask |-> i.entries[e].mask]
  BY DEF Cleaned, Info
<1> QED BY <1>2, <1>3

\* The client that getDeviceInfo() leaves: nobody, or an entry of one interface, and
\* then no interface before it has one that will do.
LEMMA ClientFound ==
  ASSUME StartInv
  PROVE  \/ client = NoClient
         \/ /\ pc # "device" /\ seen \in Seq(Interfaces)
            /\ \E i \in 1..Len(seen) : \E e \in DOMAIN seen[i].entries :
                 /\ client = Cleaned(Info(seen[i], e))
                 /\ seen[i] \in Interfaces /\ e \in Fitting(seen[i])
                 /\ \A j \in 1..(i - 1) : Fitting(seen[j]) = {}
<1>1. CASE pc = "device"
  BY <1>1 DEF StartInv, ClientInv
<1>2. CASE pc # "device"
  <2>1. seen \in Seq(Interfaces) /\ client = Cleaned(Device(seen))
    BY <1>2, StartAssumption DEF StartInv, ClientInv
  <2>2. CASE Device(seen) = NoClient
    BY <2>1, <2>2, CleanedClient
  <2>3. CASE Device(seen) # NoClient
    <3>1. PICK i \in 1..Len(seen) : \E e \in DOMAIN seen[i].entries :
                 /\ Device(seen) = Info(seen[i], e)
                 /\ e \in Fitting(seen[i])
                 /\ \A j \in 1..(i - 1) : Fitting(seen[j]) = {}
      BY <2>1, <2>3, DeviceFound
    <3>2. seen[i] \in Interfaces
      BY <2>1, ElementOfSeq
    <3> QED BY <1>2, <2>1, <3>1, <3>2
  <2> QED BY <2>2, <2>3
<1> QED BY <1>1, <1>2

\* What a client is.
LEMMA ClientType ==
  ASSUME StartInv
  PROVE  \/ client = NoClient
         \/ client.ip \in Addresses /\ client.mask \in Masks /\ client.ip # NoAddress
<1> SUFFICES ASSUME client # NoClient
             PROVE  client.ip \in Addresses /\ client.mask \in Masks /\ client.ip # NoAddress
  OBVIOUS
<1>1. PICK i \in 1..Len(seen) : \E e \in DOMAIN seen[i].entries :
        client = Cleaned(Info(seen[i], e)) /\ seen[i] \in Interfaces /\ e \in Fitting(seen[i])
  BY ClientFound
<1>2. PICK e \in DOMAIN seen[i].entries :
        client = Cleaned(Info(seen[i], e)) /\ seen[i] \in Interfaces /\ e \in Fitting(seen[i])
  BY <1>1
<1>3. client.ip = seen[i].entries[e].ip /\ client.mask = seen[i].entries[e].mask
  BY <1>2, CleanedClient
<1> QED BY <1>2, <1>3, InfoType

\* Every step keeps the invariant.
LEMMA NextStartInv == StartInv /\ [Next]_vars => StartInv'
<1> SUFFICES ASSUME StartInv, [Next]_vars PROVE StartInv'
  OBVIOUS
<1> USE DEF StartInv, HostInv, Places, At
<1>1. CASE GetDeviceInfo
  BY <1>1 DEF GetDeviceInfo, ClientInv, SegmentInv, OpenInv
<1>2. CASE GetSegment
  BY <1>2 DEF GetSegment, ClientInv, SegmentInv, OpenInv
<1>3. CASE Open
  <2>1. client.ip # NoAddress
    <3>1. PICK i \in Range(host) : i.name = client.iface
      BY <1>3 DEF Open, Named
    <3>2. host \in Seq(Interfaces)
      BY StartAssumption
    <3>3. i \in Interfaces
      <4>1. PICK k \in DOMAIN host : i = host[k]
        BY <3>1 DEF Range
      <4> QED BY <3>2, <4>1, ElementOfSeq, LenProperties
    <3>4. client.iface # ""
      BY <3>1, <3>3 DEF Interfaces
    <3>5. client # NoClient
      BY <3>4, NobodyFields
    <3> QED BY <3>5, ClientType
  <2> QED BY <1>3, <2>1 DEF Open, ClientInv, SegmentInv, OpenInv
<1>4. CASE OpenFails \/ Configure \/ NoMask \/ SetFilter
  BY <1>4 DEF OpenFails, Configure, NoMask, SetFilter, ClientInv, SegmentInv, OpenInv
<1>5. CASE Mask
  <2>1. PICK i \in Named(client.iface) : HasMask(i)
    BY <1>5 DEF Mask
  <2>2. i \in Range(host) /\ i.name = client.iface /\ \E e \in Range(i.entries) : e.ip # NoAddress
    BY <2>1 DEF Named, HasMask
  <2>3. asked' = host /\ client' = client /\ pc = "mask" /\ pc' = "filter"
    BY <1>5 DEF Mask
  <2>4. \E j \in Range(asked') : j.name = client'.iface /\ \E e \in Range(j.entries) : e.ip # NoAddress
    BY <2>2, <2>3
  <2>5. OpenInv'
    BY <2>3, <2>4 DEF OpenInv
  <2> QED BY <1>5, <2>5 DEF Mask, ClientInv, SegmentInv
<1>6. CASE HostChanges
  <2>1. changes' \in 0..MaxChanges
    <3>1. MaxChanges \in Nat /\ changes \in 0..MaxChanges /\ changes < MaxChanges /\ changes' = changes + 1
      BY <1>6, StartAssumption DEF HostChanges
    <3> QED BY <3>1
  <2> QED BY <1>6, <2>1 DEF HostChanges, ClientInv, SegmentInv, OpenInv
<1>7. CASE Ended \/ UNCHANGED vars
  BY <1>7 DEF Ended, vars, ClientInv, SegmentInv, OpenInv
<1> QED BY <1>1, <1>2, <1>3, <1>4, <1>5, <1>6, <1>7 DEF Next, Step

\* Every reachable state satisfies the invariant.
THEOREM StartInvariance == Spec => []StartInv
<1>1. Init => StartInv
  <2> SUFFICES ASSUME Init PROVE StartInv
    OBVIOUS
  <2>1. HostInv
    <3>1. MaxChanges \in Nat
      BY StartAssumption
    <3>2. 0 \in 0..MaxChanges
      BY <3>1
    <3> QED BY <3>2 DEF Init, HostInv, Places
  <2>2. ClientInv /\ SegmentInv /\ OpenInv
    BY SMTT(30) DEF Init, ClientInv, SegmentInv, OpenInv
  <2> QED BY <2>1, <2>2 DEF StartInv
<1> QED BY <1>1, NextStartInv, PTL DEF Spec

-----------------------------------------------------------------------------
(* The properties.                                                           *)

\* Places and addresses are in their range.
LEMMA StartTypes == StartInv => TypeOK
<1> SUFFICES ASSUME StartInv PROVE TypeOK
  OBVIOUS
<1>1. pc \in Places /\ changes \in 0..MaxChanges
  BY DEF StartInv, HostInv
<1>2. \A a \in {client.ip, client.mask} : a = NoAddress \/ a \in Addresses
  BY ClientType, NetworkType, NobodyFields
<1>3. \A a \in {netSegment, segmentIps.first, segmentIps.last} : a = NoAddress \/ a \in Addresses
  <2>1. CASE segmentIps = NoSegment /\ netSegment = NoAddress
    BY <2>1 DEF NoSegment
  <2>2. CASE client.ip # NoAddress /\ netSegment = Network(client.ip, client.mask) /\ segmentIps = Segment(client.ip)
    <3>1. client.ip \in Addresses /\ client.mask \in Masks
      BY <2>2, ClientType, NobodyFields
    <3> QED BY <2>2, <3>1, NetworkType, SegmentBounds
  <2>3. CASE netSegment \in Junk /\ \E a \in Junk : segmentIps = Segment(a)
    <3>1. netSegment \in Addresses
      BY <2>3, StartAssumption
    <3>2. PICK a \in Addresses : segmentIps = Segment(a)
      BY <2>3, StartAssumption
    <3> QED BY <3>1, <3>2, SegmentBounds
  <2> QED BY <2>1, <2>2, <2>3 DEF StartInv, SegmentInv
<1>4. \A a \in {client.ip, client.mask, netSegment, segmentIps.first, segmentIps.last} :
        a = NoAddress \/ a \in Addresses
  BY <1>2, <1>3
<1> QED BY <1>1, <1>4 DEF TypeOK, Places, Addresses

\* The first three bytes of addresses that agree in them.
LEMMA FirstThree ==
  ASSUME NEW a \in Addresses, NEW b \in Addresses, \A k \in 1..3 : a[k] = b[k]
  PROVE  SubSeq(a, 1, 3) = SubSeq(b, 1, 3)
<1>1. /\ a \in Seq(0..255) /\ Len(a) = 4
      /\ b \in Seq(0..255) /\ Len(b) = 4
  <2>1. a \in [1..4 -> 0..255] /\ b \in [1..4 -> 0..255]
    BY DEF Addresses
  <2>2. a \in Seq(0..255) /\ b \in Seq(0..255)
    <3>1. \A n \in Nat : \A f : f \in [1..n -> 0..255] => f \in Seq(0..255)
      BY IsASeq
    <3>2. 4 \in Nat
      OBVIOUS
    <3> QED BY <2>1, <3>1, <3>2, ZenonT(40)
  <2> QED BY <2>1, <2>2, LenProperties
<1>2. \A k \in 1..3 : a[k] \in 0..255 /\ b[k] \in 0..255
  BY DEF Addresses
<1>3. /\ SubSeq(a, 1, 3) \in Seq(0..255) /\ Len(SubSeq(a, 1, 3)) = 3
      /\ \A k \in 1..3 : SubSeq(a, 1, 3)[k] = a[k]
  BY <1>1, <1>2, SubSeqProperties
<1>4. /\ SubSeq(b, 1, 3) \in Seq(0..255) /\ Len(SubSeq(b, 1, 3)) = 3
      /\ \A k \in 1..3 : SubSeq(b, 1, 3)[k] = b[k]
  BY <1>1, <1>2, SubSeqProperties
<1> QED BY <1>3, <1>4, SeqEqual

\* The name, the address and the mask are those of one suitable entry.
LEMMA ClientTogether == StartInv => ChosenTogether
<1> SUFFICES ASSUME StartInv, client # NoClient
             PROVE  \E i \in DOMAIN seen : \E e \in DOMAIN seen[i].entries :
      /\ client = [iface |-> CleanName(seen[i].name), ip |-> seen[i].entries[e].ip,
                   mac |-> seen[i].mac, mask |-> seen[i].entries[e].mask]
      /\ "IsRunning" \in seen[i].flags /\ "IsLoopBack" \notin seen[i].flags
      /\ "VM" \notin seen[i].flags
      /\ \A j \in 1..(i - 1) : Suitable(seen[j]) =>
           \A f \in Range(seen[j].entries) : f.ip \in {LocalHost, AnyAddress, NoAddress}
  BY NobodyFields DEF ChosenTogether
<1>1. seen \in Seq(Interfaces)
  BY ClientFound
<1>2. PICK i \in 1..Len(seen) : \E e \in DOMAIN seen[i].entries :
        /\ client = Cleaned(Info(seen[i], e))
        /\ e \in Fitting(seen[i])
        /\ \A j \in 1..(i - 1) : Fitting(seen[j]) = {}
  BY ClientFound
<1>3. PICK e \in DOMAIN seen[i].entries :
        /\ client = Cleaned(Info(seen[i], e))
        /\ e \in Fitting(seen[i])
        /\ \A j \in 1..(i - 1) : Fitting(seen[j]) = {}
  BY <1>2
<1>4. i \in DOMAIN seen
  BY <1>1, LenProperties
<1>5. client = [iface |-> CleanName(seen[i].name), ip |-> seen[i].entries[e].ip,
                mac |-> seen[i].mac, mask |-> seen[i].entries[e].mask]
  BY <1>3, CleanedClient
<1>6. /\ "IsRunning" \in seen[i].flags /\ "IsLoopBack" \notin seen[i].flags
      /\ "VM" \notin seen[i].flags
  BY <1>3 DEF Fitting, Suitable
<1>7. ASSUME NEW j \in 1..(i - 1), Suitable(seen[j]), NEW f \in Range(seen[j].entries)
      PROVE  f.ip \in {LocalHost, AnyAddress, NoAddress}
  <2>1. PICK k \in DOMAIN seen[j].entries : f = seen[j].entries[k]
    BY DEF Range
  <2>2. k \notin Fitting(seen[j])
    BY <1>3
  <2> QED BY <1>7, <2>1, <2>2 DEF Fitting, SuitableEntry
<1> QED BY <1>4, <1>5, <1>6, <1>7

\* The list is the network of the client, and what is announced lies in it.
LEMMA OwnSegment == StartInv => ListsOwnNetwork /\ AnnouncedIsListed
<1> SUFFICES ASSUME StartInv, segmentIps # NoSegment, client.ip # NoAddress
             PROVE  /\ SubSeq(segmentIps.first, 1, 3) = SubSeq(client.ip, 1, 3)
                    /\ SubSeq(segmentIps.last, 1, 3) = SubSeq(client.ip, 1, 3)
                    /\ segmentIps.first[4] = 0 /\ segmentIps.last[4] = 255
                    /\ client.mask = SegmentMask => netSegment = segmentIps.first
                    /\ client.mask[3] = 255 => SubSeq(netSegment, 1, 3) = SubSeq(segmentIps.first, 1, 3)
  BY DEF ListsOwnNetwork, AnnouncedIsListed
<1>1. netSegment = Network(client.ip, client.mask) /\ segmentIps = Segment(client.ip) /\ client.ip # NoAddress
  BY DEF StartInv, SegmentInv
<1>2. client.ip \in Addresses /\ client.mask \in Masks
  BY <1>1, ClientType, NobodyFields
<1>3. /\ segmentIps.first = Network(client.ip, SegmentMask)
      /\ segmentIps.first \in Addresses /\ segmentIps.last \in Addresses
      /\ \A k \in 1..3 : segmentIps.first[k] = client.ip[k] /\ segmentIps.last[k] = client.ip[k]
      /\ segmentIps.first[4] = 0 /\ segmentIps.last[4] = 255
  BY <1>1, <1>2, SegmentBounds
<1>4. /\ SubSeq(segmentIps.first, 1, 3) = SubSeq(client.ip, 1, 3)
      /\ SubSeq(segmentIps.last, 1, 3) = SubSeq(client.ip, 1, 3)
  BY <1>2, <1>3, FirstThree
<1>5. ASSUME client.mask[3] = 255
      PROVE  SubSeq(netSegment, 1, 3) = SubSeq(client.ip, 1, 3)
  <2>1. \A k \in 2..4 : client.mask[k] # 0 => client.mask[k - 1] = 255
    BY <1>2 DEF Masks
  <2>2. client.mask[2] = 255
    BY <1>5, <2>1
  <2>3. client.mask[1] = 255
    BY <2>1, <2>2
  <2>4. netSegment \in Addresses /\ \A k \in 1..4 : client.mask[k] = 255 => netSegment[k] = client.ip[k]
    BY <1>1, <1>2, NetworkType
  <2>5. \A k \in 1..3 : netSegment[k] = client.ip[k]
    BY <1>5, <2>2, <2>3, <2>4
  <2> QED BY <1>2, <2>4, <2>5, FirstThree
<1> QED BY <1>1, <1>3, <1>4, <1>5

\* However the interfaces change while the sensor starts, every variable stays in its
\* range (otlistener.cpp:14-27, sniffer.cpp:7-26).
THEOREM StartTypeCorrect == Spec => []TypeOK
BY StartInvariance, StartTypes, PTL

\* What is announced is one suitable entry of one interface, and the list is its own
\* network (networktools.h:196-229, otlistener.cpp:20-41, sniffer.cpp:7-26).
THEOREM AnnouncementHolds == Spec => []Announcement
<1>1. StartInv => Announcement
  BY ClientTogether, OwnSegment DEF Announcement
<1> QED BY <1>1, StartInvariance, PTL

\* A sensor that captures was given an address of the interface it looked for, and an
\* interface of that name had an address again when its mask was asked for: without
\* one, pcap_open_live() gets an empty name, or get_ipmask() returns 0, and the process
\* exits (sniffer.cpp:66-101).
THEOREM NoCaptureWithoutAddress == Spec => []CapturesWithAddress
<1>1. StartInv => CapturesWithAddress
  <2> SUFFICES ASSUME StartInv, pc = "capturing"
               PROVE  CapturesWithAddress
    BY DEF CapturesWithAddress
  <2>1. client # NoClient
    BY NobodyFields DEF StartInv, OpenInv
  <2>2. PICK i \in 1..Len(seen) : \E e \in DOMAIN seen[i].entries :
          client = Cleaned(Info(seen[i], e)) /\ seen[i] \in Interfaces /\ e \in Fitting(seen[i])
    BY <2>1, ClientFound
  <2>3. PICK e \in DOMAIN seen[i].entries :
          client = Cleaned(Info(seen[i], e)) /\ seen[i] \in Interfaces /\ e \in Fitting(seen[i])
    BY <2>2
  <2>4. seen[i] \in Range(seen) /\ seen[i].entries[e] \in Range(seen[i].entries)
    <3>1. seen \in Seq(Interfaces)
      BY <2>1, ClientFound
    <3>2. i \in DOMAIN seen
      BY <3>1, LenProperties
    <3> QED BY <2>3, <3>2 DEF Range
  <2>5. client.iface = CleanName(seen[i].name) /\ client.ip = seen[i].entries[e].ip
    BY <2>3, CleanedClient
  <2>6. seen[i].entries[e].ip \notin {NoAddress, LocalHost, AnyAddress}
    BY <2>3 DEF Fitting, SuitableEntry
  <2>7. \E j \in Range(asked) : j.name = client.iface /\ \E f \in Range(j.entries) : f.ip # NoAddress
    BY DEF StartInv, OpenInv
  <2> QED BY <2>4, <2>5, <2>6, <2>7 DEF CapturesWithAddress
<1> QED BY <1>1, StartInvariance, PTL
=============================================================================
