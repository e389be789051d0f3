------------------------------- MODULE Devices -------------------------------
(***************************************************************************)
(* The device nodes of an adapter and the threads that use them: probe and *)
(* scan (scan.rs), the network device a probe borrows (net/), an           *)
(* application's frontend, the demux tap and its DVR (dmx/, dvr/), the TS  *)
(* pair of a CI adapter (ca/ts.rs) and the modulator (modulator/dd/).      *)
(*                                                                         *)
(* Every system call is a step.  What the kernel and the hardware do is    *)
(* external: an open is refused when the node is gone, when it is held for *)
(* writing and exclusive, and for any other reason; any ioctl may fail;    *)
(* nodes come and go.                                                      *)
(***************************************************************************)
EXTENDS Integers, Sequences, FiniteSets, SequencesExt

CONSTANTS
    Clients,        \* threads, of one process or of several
    Devices,        \* <<adapter, device>> pairs
    Nodes,          \* <<device, kind>>: the nodes the hardware has
    Pluggable,      \* the nodes of them that come and go
    NoNetSupport,   \* devices whose driver does not survive NET_ADD_IF
    Vendor,         \* node |-> what sysfs says of its vendor
    Tbs,            \* VENDOR_TBS
    Pids,           \* PIDs an application asks a tap for
    Plans,          \* channel plans: sequences of sets of flags
    Buffer,         \* what the application writes: buffer |-> sequence
    MaxInterfaces,  \* interfaces a network device has room for
    None

ASSUME DevicesAssumption ==
    /\ Pluggable \subseteq Nodes
    /\ MaxInterfaces \in Nat \ {0}
    /\ \A m, n \in Nodes : m[2] = "mod" /\ n[2] = "mod" => m = n  \* stream is of one
    /\ None \notin BOOLEAN /\ None \notin {"open", "info"} /\ None # Tbs

(* What is written can be told apart by its place; a region may come with any
   flags, those that frame a plan included.                                *)
ASSUME ModAssumption ==
    /\ Buffer \in Seq(Seq(Nat \X Nat))
    /\ \A b \in DOMAIN Buffer : \A k \in DOMAIN Buffer[b] : Buffer[b][k] = <<b, k>>
    /\ Plans \subseteq Seq(SUBSET STRING)

VARIABLES
    nodes,       \* the nodes under /dev/dvb
    opened,      \* open descriptors: [by, node, mode]
    interfaces,  \* network interfaces: [device, number, by]
    stuck,       \* observer: interfaces whose NET_REMOVE_IF failed
    job,         \* client |-> what it is doing
    stream,      \* what the open modulator took, in order
    done         \* observer: the buffers write_all answered Ok for

vars == <<nodes, opened, interfaces, stuck, job, stream, done>>
modulator == <<stream, done>>

-----------------------------------------------------------------------------
(* The kernel.                                                             *)

(* The nodes with one writer at a time.                                    *)
Exclusive == {"frontend", "ci", "sec", "mod"}

Writers(node) == {f \in opened : f.node = node /\ f.mode # "r"}

Allowed(node, mode) ==
    /\ node \in nodes
    /\ mode # "r" /\ node[2] \in Exclusive => Writers(node) = {}

Descriptor(c, node, mode) == [by |-> c, node |-> node, mode |-> mode]
Held(c) == {f \in opened : f.by = c}

(* A job goes on with one more descriptor, with fewer, or with those it has. *)
Opens(c, node, mode, next) ==
    /\ Allowed(node, mode)
    /\ opened' = opened \cup {Descriptor(c, node, mode)}
    /\ job' = [job EXCEPT ![c] = next]
Closes(c, kinds, next) ==
    /\ opened' = {f \in opened : ~(f.by = c /\ f.node[2] \in kinds)}
    /\ job' = [job EXCEPT ![c] = next]
Goes(c, next) ==
    /\ job' = [job EXCEPT ![c] = next]
    /\ UNCHANGED opened

Idle == [does |-> "idle"]
Doing(c, what) == job[c].does = what

Init ==
    /\ nodes = Nodes
    /\ opened = {} /\ interfaces = {} /\ stuck = {}
    /\ job = [c \in Clients |-> Idle]
    /\ stream = <<>> /\ done = {}

Plug(node) ==
    /\ nodes' = IF node \in nodes THEN nodes \ {node} ELSE nodes \cup {node}
    /\ UNCHANGED <<opened, interfaces, stuck, job, modulator>>

-----------------------------------------------------------------------------
(* scan and probe.  The directory is read once; what it named may be gone   *)
(* when its turn comes.                                                    *)
ScanUnchanged == UNCHANGED <<nodes, modulator>>
NetUnchanged == UNCHANGED <<interfaces, stuck>>

Scanning(left, reports) == [does |-> "scan", left |-> left, reports |-> reports]
Entries == {d \in Devices : <<d, "frontend">> \in nodes}

Scan(c) ==
    /\ Doing(c, "idle")
    /\ Goes(c, Scanning(Entries, {}))
    /\ ScanUnchanged /\ NetUnchanged

ScanReturns(c) ==
    /\ Doing(c, "scan") /\ job[c].left = {}
    /\ Goes(c, Idle)
    /\ ScanUnchanged /\ NetUnchanged

(* A frontend without demux and dvr is skipped, the others are probed.     *)
NextEntry(c) ==
    /\ Doing(c, "scan")
    /\ \E d \in job[c].left :
         LET rest == job[c].left \ {d}
             usable == {<<d, "demux">>, <<d, "dvr">>} \subseteq nodes
         IN  Goes(c, IF usable
                     THEN [does |-> "open_rw", device |-> d, left |-> rest,
                           reports |-> job[c].reports]
                     ELSE Scanning(rest, job[c].reports))
    /\ ScanUnchanged /\ NetUnchanged

(* What a probe answered.                                                  *)
Report(d, busy, info, mac, error) ==
    [device |-> d, busy |-> busy, info |-> info, mac |-> mac, error |-> error]
Reported(c, report) == Scanning(job[c].left, job[c].reports \cup {report})
Proceeds(c, what, busy) ==
    [does |-> what, device |-> job[c].device, left |-> job[c].left,
     reports |-> job[c].reports, busy |-> busy]
Node(c, kind) == <<job[c].device, kind>>

(* A probe that has an interface. *)
Holds(c, what, number, mac) ==
    [does |-> what, device |-> job[c].device, left |-> job[c].left,
     reports |-> job[c].reports, busy |-> job[c].busy, number |-> number, mac |-> mac]

(* Seeded fault: a frontend that could not be opened at all is called busy. *)
SeededProbeOpen(c) ==
    /\ \/ /\ Doing(c, "open_rw")
          /\ \/ Opens(c, Node(c, "frontend"), "rw", Proceeds(c, "info", FALSE))
             \/ Goes(c, Proceeds(c, "open_ro", TRUE))
       \/ /\ Doing(c, "open_ro")
          /\ \/ Opens(c, Node(c, "frontend"), "r", Proceeds(c, "info", TRUE))
             \/ Goes(c, Reported(c, Report(job[c].device, TRUE, FALSE, FALSE, "open")))
    /\ ScanUnchanged /\ NetUnchanged

(* Read-write, and read-only when that fails for whatever reason.          *)
ProbeOpen(c) ==
    /\ \/ /\ Doing(c, "open_rw")
          /\ \/ Opens(c, Node(c, "frontend"), "rw", Proceeds(c, "info", FALSE))
             \/ Goes(c, Proceeds(c, "open_ro", TRUE))
       \/ /\ Doing(c, "open_ro")
          /\ \/ Opens(c, Node(c, "frontend"), "r", Proceeds(c, "info", TRUE))
             \/ Goes(c, Reported(c, Report(job[c].device, None, FALSE, FALSE, "open")))
    /\ ScanUnchanged /\ NetUnchanged

(* Seeded fault: the frontend stays open while the network device is asked. *)
SeededProbeInfo(c) ==
    /\ Doing(c, "info")
    /\ LET d == job[c].device
           failed == Report(d, job[c].busy, FALSE, FALSE, "info")
       IN  \/ Closes(c, {"frontend"}, Reported(c, failed))
           \/ Goes(c, Proceeds(c, "net", job[c].busy))
    /\ ScanUnchanged /\ NetUnchanged

(* The frontend is let go of as soon as its info is read, and the network
   device is asked only where the driver survives it.                      *)
ProbeInfo(c) ==
    /\ Doing(c, "info")
    /\ LET d == job[c].device
           busy == job[c].busy
           failed == Report(d, busy, FALSE, FALSE, "info")
           noMac == Report(d, busy, TRUE, FALSE, None)
       IN  \/ Closes(c, {"frontend"}, Reported(c, failed))
           \/ Closes(c, {"frontend"}, IF d \in NoNetSupport THEN Reported(c, noMac)
                                      ELSE Proceeds(c, "net", busy))
    /\ ScanUnchanged /\ NetUnchanged

MacReport(c, mac) == Report(job[c].device, job[c].busy, TRUE, mac, None)

NetOpen(c) ==
    /\ Doing(c, "net")
    /\ \/ Opens(c, Node(c, "net"), "rw", Proceeds(c, "add_if", job[c].busy))
       \/ Goes(c, Reported(c, MacReport(c, FALSE)))
    /\ ScanUnchanged /\ NetUnchanged

Numbers(d) == {i.number : i \in {i \in interfaces : i.device = d}}
Free(d) == (0 .. MaxInterfaces - 1) \ Numbers(d)

AddIf(c) ==
    /\ Doing(c, "add_if")
    /\ LET d == job[c].device
       IN  \/ \E n \in Free(d) :
                /\ \A m \in Free(d) : n <= m
                /\ interfaces' = interfaces \cup {[device |-> d, number |-> n, by |-> c]}
                /\ Goes(c, Holds(c, "mac", n, FALSE))
           \/ /\ Closes(c, {"net"}, Reported(c, MacReport(c, FALSE)))
              /\ UNCHANGED interfaces
    /\ ScanUnchanged /\ UNCHANGED stuck

(* The address is read; the empty one, and any error, is no address.       *)
ReadMac(c) ==
    /\ Doing(c, "mac")
    /\ \E mac \in BOOLEAN : Goes(c, Holds(c, "remove", job[c].number, mac))
    /\ ScanUnchanged /\ NetUnchanged

(* The interface is dropped before the device it came from; that the ioctl
   may fail is ignored.                                                    *)
Own(c) == {i \in interfaces : i.device = job[c].device /\ i.number = job[c].number}
RemoveIf(c) ==
    /\ Doing(c, "remove")
    /\ \/ interfaces' = interfaces \ Own(c) /\ UNCHANGED stuck
       \/ stuck' = stuck \cup Own(c) /\ UNCHANGED interfaces
    /\ Closes(c, {"net"}, Reported(c, MacReport(c, job[c].mac)))
    /\ ScanUnchanged

-----------------------------------------------------------------------------
(* FeDevice and DvrDevice, DmxDevice: open, use, drop.                     *)
Others == UNCHANGED <<nodes, interfaces, stuck, modulator>>

(* The device is dropped when its info cannot be read.                     *)
OpenFrontend(c) ==
    /\ \/ /\ Doing(c, "idle")
          /\ \E d \in Devices, mode \in {"r", "rw"} :
               Opens(c, <<d, "frontend">>, mode, [does |-> "fe_info"])
       \/ /\ Doing(c, "fe_info")
          /\ \/ Goes(c, [does |-> "frontend"])
             \/ Closes(c, {"frontend"}, Idle)
    /\ Others

Filter(pid, runs) == [pid |-> pid, runs |-> runs]
Tapped(d, filter) == [does |-> "tap", device |-> d, filter |-> filter]

OpenDemux(c) ==
    /\ Doing(c, "idle")
    /\ \E d \in Devices, pid \in Pids :
         Opens(c, <<d, "demux">>, "rw", [does |-> "set_tap", device |-> d, pid |-> pid])
    /\ Others

(* A PID out of range never reaches the driver; open_ts_tap drops the demux
   when the filter is not set.                                             *)
SetTap(c) ==
    /\ Doing(c, "set_tap")
    /\ \/ job[c].pid <= 8192 /\ Goes(c, Tapped(job[c].device, Filter(job[c].pid, TRUE)))
       \/ Closes(c, {"demux"}, Idle)
    /\ Others

StartStop(c) ==
    /\ Doing(c, "tap")
    /\ \E runs \in BOOLEAN : Goes(c, [job[c] EXCEPT !.filter.runs = runs])
    /\ Others

OpenDvr(c) ==
    /\ Doing(c, "tap")
    /\ Opens(c, Node(c, "dvr"), "r", job[c])
    /\ Others

Drop(c) ==
    /\ job[c].does \in {"frontend", "tap", "ts_open"}
    /\ Closes(c, {"frontend", "demux", "dvr", "ci", "sec"}, Idle)
    /\ Others

-----------------------------------------------------------------------------
(* CiTsDevice: the ci node, or the sec node when there is no ci node.      *)
Pairing(what, d, kind) == [does |-> what, device |-> d, kind |-> kind]

OpenPair(c) ==
    /\ Doing(c, "idle")
    /\ \E d \in Devices : Goes(c, Pairing("fd_in", d, "ci"))
    /\ Others

Ends == {"ci", "sec"}
Missing(c) == job[c].kind = "ci" /\ Node(c, "ci") \notin nodes

FdIn(c) ==
    /\ Doing(c, "fd_in")
    /\ LET d == job[c].device
           kind == job[c].kind
       IN  \/ Opens(c, <<d, kind>>, "w", Pairing("fd_out", d, kind))
           \/ Goes(c, IF Missing(c) THEN Pairing("fd_in", d, "sec") ELSE Idle)
    /\ Others

(* Seeded fault: each end is looked for on its own. *)
SeededFdOut(c) ==
    /\ Doing(c, "fd_out")
    /\ LET d == job[c].device
           kind == job[c].kind
       IN  \/ Opens(c, <<d, kind>>, "r", Pairing("pci_ids", d, kind))
           \/ IF Missing(c) THEN Goes(c, Pairing("fd_out", d, "sec"))
              ELSE Closes(c, Ends, Idle)
    /\ Others

(* The node may have gone since: the pair is opened anew on the other.     *)
FdOut(c) ==
    /\ Doing(c, "fd_out")
    /\ LET d == job[c].device
           kind == job[c].kind
       IN  \/ Opens(c, <<d, kind>>, "r", Pairing("pci_ids", d, kind))
           \/ Closes(c, Ends, IF Missing(c) THEN Pairing("fd_in", d, "sec") ELSE Idle)
    /\ Others

PciIds(c) ==
    /\ Doing(c, "pci_ids")
    /\ LET node == Node(c, job[c].kind)
           vendor == IF node \in nodes THEN Vendor[node] ELSE None
       IN  Goes(c, [does |-> "ts_open", node |-> node, vendor |-> vendor, told |-> {}])
    /\ Others

(* Other adapters are not told; a failed ioctl leaves the adapter as it was. *)
SetInputBitrate(c) ==
    /\ Doing(c, "ts_open") /\ job[c].vendor = Tbs
    /\ LET in == {f \in Held(c) : f.mode = "w"}
       IN  Goes(c, [job[c] EXCEPT !.told = {f.node : f \in in}])
    /\ Others

-----------------------------------------------------------------------------
(* ModDevice: configured through a read-only handle, fed through a
   write-only one.                                                         *)
ModUnchanged == UNCHANGED <<nodes, interfaces, stuck>>

(* What a card was set up with, and the regions it was asked for.          *)
Configured(plan, regions) == [does |-> "config", plan |-> plan, asked |-> regions]

OpenMod(c) ==
    /\ Doing(c, "idle")
    /\ \E d \in Devices :
         \/ Opens(c, <<d, "mod">>, "r", Configured(<<>>, <<>>))
         \/ Opens(c, <<d, "mod">>, "w", [does |-> "feed", next |-> 1])
    /\ Others

(* Seeded fault: the last of the four places, not of the regions. *)
SeededFramedAt(n, i) == {"valid"} \cup (IF i = 1 THEN {"first"} ELSE {})
                                  \cup (IF i = 4 THEN {"last"} ELSE {})

(* setup_channels_cmd: one to four regions, the flags that frame them.     *)
FramedAt(n, i) == {"valid"} \cup (IF i = 1 THEN {"first"} ELSE {})
                            \cup (IF i = n THEN {"last"} ELSE {})
SetupChannels(regions) ==
    IF Len(regions) \in 1 .. 4
    THEN [i \in DOMAIN regions |-> regions[i] \cup FramedAt(Len(regions), i)]
    ELSE None

(* mci: the card takes the command, or the ioctl fails or answers a status. *)
Configure(c) ==
    /\ Doing(c, "config")
    /\ \E regions \in Plans :
         /\ SetupChannels(regions) # None
         /\ Goes(c, Configured(SetupChannels(regions), regions))
    /\ ModUnchanged /\ UNCHANGED modulator

CloseMod(c) ==
    /\ job[c].does \in {"config", "feed"}
    /\ Closes(c, {"mod"}, Idle)
    /\ IF Doing(c, "feed") THEN stream' = <<>> /\ done' = {} ELSE UNCHANGED modulator
    /\ ModUnchanged

Write(c) ==
    /\ Doing(c, "feed") /\ job[c].next \in DOMAIN Buffer
    /\ Goes(c, [does |-> "write", buffer |-> job[c].next, rest |-> Buffer[job[c].next]])
    /\ ModUnchanged /\ UNCHANGED modulator

Feeding(c) == [does |-> "feed", next |-> job[c].buffer + 1]

(* Seeded fault: every write starts at the beginning of the buffer. *)
SeededAccept(c, n) ==
    /\ stream' = stream \o SubSeq(Buffer[job[c].buffer], 1, n)
    /\ Goes(c, [job[c] EXCEPT !.rest = SubSeq(@, n + 1, Len(@))])
    /\ UNCHANGED done

(* One call of write: it takes some of the rest, or nothing, which is an
   error like any other; an interrupted and a full one change nothing.     *)
Accept(c, n) ==
    /\ stream' = stream \o SubSeq(job[c].rest, 1, n)
    /\ Goes(c, [job[c] EXCEPT !.rest = SubSeq(@, n + 1, Len(@))])
    /\ UNCHANGED done
Fail(c) == Goes(c, Feeding(c)) /\ UNCHANGED <<stream, done>>
Written(c) ==
    /\ job[c].rest = <<>>
    /\ done' = done \cup {job[c].buffer}
    /\ Goes(c, Feeding(c)) /\ UNCHANGED stream

WriteAll(c) ==
    /\ Doing(c, "write")
    /\ \/ \E n \in 1 .. Len(job[c].rest) : Accept(c, n)
       \/ job[c].rest # <<>> /\ Fail(c)
       \/ Written(c)
    /\ ModUnchanged

-----------------------------------------------------------------------------
Client(c) ==
    \/ Scan(c) \/ ScanReturns(c) \/ NextEntry(c) \/ ProbeOpen(c) \/ ProbeInfo(c)
    \/ NetOpen(c) \/ AddIf(c) \/ ReadMac(c) \/ RemoveIf(c)
    \/ OpenFrontend(c) \/ OpenDemux(c) \/ SetTap(c) \/ StartStop(c) \/ OpenDvr(c) \/ Drop(c)
    \/ OpenPair(c) \/ FdIn(c) \/ FdOut(c) \/ PciIds(c) \/ SetInputBitrate(c)
    \/ OpenMod(c) \/ Configure(c) \/ CloseMod(c) \/ Write(c) \/ WriteAll(c)

Next ==
    \/ \E c \in Clients : Client(c)
    \/ \E node \in Pluggable : Plug(node)

Spec == Init /\ [][Next]_vars

-----------------------------------------------------------------------------
(* Whatever fails on the way, a thread that probes holds the frontend while it
   reads the info and at no other time, holds the network device while it has
   an interface, and leaves neither a descriptor nor an interface behind; two
   scans at once do not take each other's interface.  Only an interface whose
   NET_REMOVE_IF failed stays (probe, read_mac, NetInterface::drop).       *)
Needs(c) ==
    LET what == job[c].does
    IN  IF what = "info" THEN {Node(c, "frontend")}
        ELSE IF what \in {"add_if", "mac", "remove"} THEN {Node(c, "net")}
        ELSE {}
Probing == {"idle", "scan", "open_rw", "open_ro", "info", "net", "add_if", "mac", "remove"}
Borrowed == UNION {Own(c) : c \in {c \in Clients : job[c].does \in {"mac", "remove"}}}

NothingLeft ==
    /\ \A c \in Clients :
          job[c].does \in Probing => {f.node : f \in Held(c)} = Needs(c)
    /\ interfaces = Borrowed \cup stuck
    /\ \A c \in Clients : job[c].does \in {"mac", "remove"} => \A i \in Own(c) : i.by = c

(* A report tells how far the probe got: the frontend is busy or not once it
   was opened, and only then; there is an info or an error and never both; a
   MAC address comes with an info and from a driver that survives being asked;
   and a frontend is reported once (FeProbe, probe).                       *)
ReportTells ==
    \A c \in Clients : Doing(c, "scan") =>
        \A r \in job[c].reports :
            /\ r.busy = None <=> r.error = "open"
            /\ r.info <=> r.error = None
            /\ r.mac => r.info /\ r.device \notin NoNetSupport
            /\ r.device \notin job[c].left
            /\ \A q \in job[c].reports : q.device = r.device => q = r

(* Both ends of an open pair are the same node, and a bitrate has only ever
   reached nodes of the vendor whose property it is, though the ci node may
   come and go between any two steps (CiTsDevice::open, set_input_bitrate). *)
PairMatches ==
    /\ \A c \in Clients : Doing(c, "ts_open") =>
          {[node |-> f.node, mode |-> f.mode] : f \in Held(c)}
              = {[node |-> job[c].node, mode |-> "w"], [node |-> job[c].node, mode |-> "r"]}
    /\ \A c \in Clients : Doing(c, "ts_open") => \A node \in job[c].told : Vendor[node] = Tbs

(* What the modulator took is the buffers in order, none torn into another:
   each from its beginning and without a gap, and a buffer write_all answered
   Ok for whole and once (write_all).                                      *)
Taken(b) == {i \in DOMAIN stream : stream[i][1] = b}
TakenWhole(b) ==
    \E from \in 0 .. Len(stream) :
        /\ Taken(b) = from + 1 .. from + Len(Buffer[b])
        /\ \A k \in DOMAIN Buffer[b] : stream[from + k] = Buffer[b][k]

StreamWhole ==
    /\ \A i \in DOMAIN stream :
          LET b == stream[i][1]
              k == stream[i][2]
          IN  /\ k > 1 => i > 1 /\ stream[i - 1] = << b, k - 1 >>
              /\ k = 1 => \A j \in 1 .. i - 1 : stream[j][1] < b
    /\ \A b \in done : TakenWhole(b)

(* The plan a card holds has a region for each one asked for, every one of them
   counts, the first opens it and the last closes it; a region keeps the flags
   it came with, so that no other region opens or closes the plan unless the
   caller marked it so: the flags are a public field and are only added to
   (setup_channels_cmd, mci).                                              *)
PlanFramed ==
    \A c \in Clients : Doing(c, "config") =>
        LET plan == job[c].plan
            asked == job[c].asked
        IN  /\ Len(plan) = Len(asked)
            /\ \A i \in DOMAIN plan :
                  /\ asked[i] \cup {"valid"} \subseteq plan[i]
                  /\ "first" \in plan[i] <=> i = 1 \/ "first" \in asked[i]
                  /\ "last" \in plan[i] <=> i = Len(plan) \/ "last" \in asked[i]

(* A modulator gets the plan and the stream it is meant to get.            *)
ModulatorServed == StreamWhole /\ PlanFramed
=============================================================================
