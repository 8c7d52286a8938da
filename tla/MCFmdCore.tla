----------------------------- MODULE MCFmdCore ------------------------------
(***************************************************************************)
(* FmdCore for TLC.  The classes stand for lines of fms_conf/escdir and    *)
(* the agents for the plugins shipped in fms_conf/plugins, with small      *)
(* thresholds and windows.  The qpi class has an engine here, so that its  *)
(* handler is reached; the shipped cpumem.esc only lists it as a report.   *)
(***************************************************************************)
EXTENDS FmdCore

CONSTANTS cpu0, sda, sdaa, cpumem, disk, trace,
          Raised   \* which templates the sources of a run report

MCDev    == {cpu0, sda, sdaa}
MCBegins == {<<d, d>> : d \in MCDev} \cup {<<sdaa, sda>>}
MCId     == {1, 2}
MCAgent  == {cpumem, disk, trace}

MCClass == {"cpu.cache", "cpu.mempage", "cpu.qpi", "cpu.mem", "disk.over-temperature",
            "disk.badblocks", "disk.unhealthy", "trace.mc", "fan.slow", "list.cpu"}
MCEreport    == MCClass \ {"list.cpu"}
MCFaultClass == {"disk.over-temperature", "disk.badblocks", "trace.mc"}
MCSerdClass  == {"cpu.cache", "cpu.mempage", "cpu.qpi"}

MCN == [c \in MCClass |-> CASE c = "cpu.cache" -> 2
                            [] c = "cpu.mempage" -> 2
                            [] c = "cpu.qpi" -> 1
                            [] OTHER -> 0]
MCT == [c \in MCClass |-> IF c \in MCSerdClass THEN 1 ELSE 0]

MCHandler == [c \in MCClass |-> CASE c = "cpu.cache" -> "cache"
                                  [] c = "cpu.mempage" -> "mempage"
                                  [] c = "cpu.qpi" -> "qpi"
                                  [] c = "disk.over-temperature" -> "temp"
                                  [] c = "disk.unhealthy" -> "space"
                                  [] c = "trace.mc" -> "trace"
                                  [] c = "disk.badblocks" -> "badblocks"
                                  [] OTHER -> "unhandled"]
MCSub == [c \in MCClass |-> CASE c \in {"cpu.cache", "cpu.mempage", "cpu.qpi", "cpu.mem"} -> cpumem
                              [] c \in {"disk.over-temperature", "disk.badblocks", "disk.unhealthy"} -> disk
                              [] c = "trace.mc" -> trace
                              [] OTHER -> NONE]

R(d, i, c) == [dev |-> d, id |-> i, cls |-> c]
AllTemplates == {R(cpu0, 1, "cpu.cache"), R(cpu0, 2, "cpu.qpi"), R(cpu0, 2, "cpu.mem"),
                 R(cpu0, 2, "cpu.mempage"), R(cpu0, 1, "trace.mc"),
                 R(sda, 1, "disk.over-temperature"), R(sdaa, 1, "disk.over-temperature"),
                 R(sda, 2, "disk.badblocks"), R(sda, 2, "disk.unhealthy"),
                 R(sda, 1, "fan.slow"), R(cpu0, 1, "list.cpu")}
MCTemplate == {t \in AllTemplates : <<t.dev, t.cls>> \in Raised}

\* The CPU: faults that climb from repair to isolation, a memory page and a
\* class that is only logged.
CpuRaised == {<<cpu0, "cpu.cache">>, <<cpu0, "cpu.qpi">>,
              <<cpu0, "cpu.mempage">>, <<cpu0, "cpu.mem">>}
\* Three devices, one's name a prefix of another's, two agents, a class nobody
\* subscribes to, and one that is no ereport.
MixRaised == {<<cpu0, "trace.mc">>, <<sda, "disk.over-temperature">>,
              <<sdaa, "disk.over-temperature">>, <<sda, "fan.slow">>, <<cpu0, "list.cpu">>}
=============================================================================
