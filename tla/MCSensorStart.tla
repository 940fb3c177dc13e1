--------------------------- MODULE MCSensorStart ---------------------------
(***************************************************************************)
(* Values of the constants of SensorStart for TLC.                         *)
(***************************************************************************)
EXTENDS SensorStart

Up == {"IsValid", "IsUp", "IsRunning"}
Interface(name, flags, mac, entries) == [name |-> name, flags |-> flags, mac |-> mac, entries |-> entries]
Entry(ip, mask) == [ip |-> ip, mask |-> mask]
Mask24 == <<255, 255, 255, 0>>

V6 == Entry(NoAddress, NoAddress)
Own == {Entry(<<10, 1, 200, 130>>, mask) :
          mask \in {Mask24, <<255, 255, 0, 0>>, <<255, 255, 255, 192>>, <<255, 255, 240, 0>>, <<0, 0, 0, 0>>}}

Loopback == Interface("lo", Up \cup {"IsLoopBack"}, NoMac, <<Entry(LocalHost, <<255, 0, 0, 0>>)>>)
Bridge == Interface("VMnet", Up \cup {"VM"}, "m3", <<Entry(<<172, 16, 0, 1>>, Mask24)>>)
Unplugged == Interface("eth1", {"IsValid", "IsUp"}, "m1", <<Entry(<<10, 9, 9, 9>>, Mask24)>>)
OnlyV6 == Interface("eth2", Up, "m2", <<V6, Entry(AnyAddress, AnyAddress)>>)
Tunnel == Interface("tun0", Up \cup {"IsPointToPoint"}, "", <<Entry(<<10, 8, 0, 2>>, Mask24)>>)
Wired(e) == Interface("eth0", Up, "m0", <<V6, e, Entry(<<10, 1, 201, 1>>, Mask24)>>)
Odd == Interface("odd", Up, "m4", <<Entry(<<192, 168, 0, 255>>, Mask24)>>)

SomeJunk == {<<0, 0, 0, 0>>, <<10, 1, 200, 130>>}

\* A host's interfaces have different names.
Others == {Loopback, Bridge, Unplugged, OnlyV6, Tunnel, Odd}
SomeHosts ==
  {<<>>} \cup {<<i>> : i \in Others} \cup {<<Wired(e)>> : e \in Own}
  \cup {<<i, Wired(e)>> : i \in Others, e \in Own}
  \cup {<<Loopback, Wired(e), Odd>> : e \in Own}
=============================================================================
