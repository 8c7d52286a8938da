------------------------------- MODULE MCTopo -------------------------------
(***************************************************************************)
(* Topo for TLC: a regular two-node server; a board without NUMA, with two *)
(* sockets on one memory array and nested bridges; a server with a second  *)
(* PCI domain, wide device numbers and two-byte SMBIOS handles; a machine  *)
(* without SMBIOS tables that has two bridges on bus 0 and devices behind  *)
(* both; and one with more sockets on a node than SocketMax, 2 here.       *)
(***************************************************************************)
EXTENDS Topo, TLC

Cpu(n, s, c) == [node |-> n, socket |-> s, core |-> c]
Pci(dom, b, s, f, cl, sec) ==
  [domain |-> dom, bus |-> b, slot |-> s, func |-> f, class |-> cl, secondary |-> sec,
   disks |-> IF cl = "storage" THEN {1, 2} ELSE {}]

Array(h, n)    == [type |-> 16, handle |-> h, whole |-> TRUE, system |-> TRUE, devices |-> n]
Device(h, a)   == [type |-> 17, handle |-> h, whole |-> TRUE, array |-> a]
Map(h, d, s, e) == [type |-> 20, handle |-> h, whole |-> TRUE, device |-> d, start |-> s, end |-> e]
Cut            == [type |-> 4, handle |-> 9, whole |-> FALSE]

Server ==
  [numa |-> TRUE,
   cpu  |-> (0 :> Cpu(0, 0, 0)) @@ (1 :> Cpu(1, 1, 0)) @@ (2 :> Cpu(0, 0, 0)) @@ (3 :> Cpu(1, 1, 1)),
   dmi  |-> <<Array(1, 1), Array(2, 1), Device(3, 1), Device(4, 2),
              Map(5, 3, 0, 256), Map(6, 4, 600, 1500)>>,
   pci  |-> ("host" :> Pci(0, 0, 0, 0, "host", 0)) @@ ("br" :> Pci(0, 0, 1, 0, "bridge_pci", 2))
            @@ ("nic0" :> Pci(0, 2, 0, 0, "network", 0)) @@ ("nic1" :> Pci(0, 2, 0, 1, "network", 0)),
   net  |-> {[name |-> "eth0", first |-> "nic0"], [name |-> "eth1", first |-> "nic0"]}]

Board ==
  [numa |-> FALSE,
   cpu  |-> (0 :> Cpu(0, 0, 0)) @@ (1 :> Cpu(0, 1, 0)) @@ (2 :> Cpu(0, 0, 0)),
   dmi  |-> <<Array(1, 2), Device(3, 1), Device(4, 1), Map(5, 3, 0, 256), Cut, Map(6, 4, 600, 1500)>>,
   pci  |-> ("br0" :> Pci(0, 0, 1, 0, "bridge_pci", 1)) @@ ("br1" :> Pci(0, 1, 2, 0, "bridge_pci", 2))
            @@ ("gpu" :> Pci(0, 2, 3, 0, "display", 0)) @@ ("sas" :> Pci(0, 1, 9, 0, "storage", 0)),
   net  |-> {}]

Wide ==
  [numa |-> TRUE,
   cpu  |-> (0 :> Cpu(0, 0, 0)) @@ (1 :> Cpu(2, 1, 0)),
   dmi  |-> <<Array(1, 1), Device(300, 1), Map(5, 300, 0, 2048)>>,
   pci  |-> ("br" :> Pci(0, 0, 1, 0, "bridge_pci", 3)) @@ ("a" :> Pci(0, 3, 1, 0, "network", 0))
            @@ ("b" :> Pci(0, 3, 9, 4, "other", 0)) @@ ("c" :> Pci(1, 0, 0, 0, "other", 0)),
   net  |-> {[name |-> "eth0", first |-> "a"]}]

Twins ==
  [numa |-> TRUE,
   cpu  |-> (0 :> Cpu(0, 0, 0)),
   dmi  |-> <<>>,
   pci  |-> ("br0" :> Pci(0, 0, 1, 0, "bridge_pci", 1)) @@ ("br1" :> Pci(0, 0, 2, 0, "bridge_pci", 2))
            @@ ("nic0" :> Pci(0, 1, 3, 0, "network", 0)) @@ ("nic1" :> Pci(0, 2, 3, 0, "network", 0))
            @@ ("usb" :> Pci(0, 0, 3, 0, "other", 0)),
   net  |-> {[name |-> "eth0", first |-> "nic0"]}]

Crowded ==
  [numa |-> TRUE,
   cpu  |-> (0 :> Cpu(0, 0, 0)) @@ (1 :> Cpu(0, 1, 0)) @@ (2 :> Cpu(0, 2, 0)) @@ (3 :> Cpu(0, 1, 1)),
   dmi  |-> <<Array(1, 1), Device(3, 1), Map(5, 3, 0, 256)>>,
   pci  |-> ("host" :> Pci(0, 0, 0, 0, "host", 0)),
   net  |-> {}]

MCMachines == {Server, Board, Wide, Twins, Crowded}
=============================================================================
