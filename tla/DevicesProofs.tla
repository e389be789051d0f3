---------------------------- MODULE DevicesProofs ----------------------------
(***************************************************************************)
(* Proofs that probes leave nothing behind and tell how far they got, that *)
(* a TS pair is of one node, and that a modulator gets its plan framed and *)
(* its stream whole, for any number of threads and devices.                *)
(*                                                                         *)
(* A thread's part of the invariant, Fine, speaks of what it is doing and  *)
(* of its own descriptors only, so a step of one thread cannot disturb     *)
(* that of another; what a step does to its own is shown action by action. *)
(* The interfaces are shared: an interface that has not been given up is   *)
(* the one its thread has in hand, and no two have the same number. So is  *)
(* the modulator's stream; but one thread at a time has the node open for  *)
(* writing, and the stream is described by how far that one has got.       *)
(***************************************************************************)
EXTENDS Devices, TLAPS

Asking == {"open_ro", "info", "net", "add_if", "mac", "remove"}
Probes == {"open_rw"} \cup Asking
Borrows == {"mac", "remove"}

NeedsOf(j) ==
    IF j.does = "info" THEN {<<j.device, "frontend">>}
    ELSE IF j.does \in {"add_if", "mac", "remove"} THEN {<<j.device, "net">>}
    ELSE {}

(* The kinds of nodes a thread may have open. *)
KindsOf(what) ==
    IF what \in {"info", "fe_info", "frontend"} THEN {"frontend"}
    ELSE IF what \in {"add_if", "mac", "remove"} THEN {"net"}
    ELSE IF what = "set_tap" THEN {"demux"}
    ELSE IF what = "tap" THEN {"demux", "dvr"}
    ELSE IF what \in {"fd_out", "pci_ids", "ts_open"} THEN {"ci", "sec"}
    ELSE IF what \in {"config", "feed", "write"} THEN {"mod"}
    ELSE {}

ProbeHolds(j, held) == j.does \in Probing => {f.node : f \in held} = NeedsOf(j)
KindsHeld(j, held) == \A f \in held : f.node[2] \in KindsOf(j.does)

End(node, mode) == [node |-> node, mode |-> mode]
EndsOf(held) == {End(f.node, f.mode) : f \in held}

PairHolds(j, held) ==
    /\ j.does \in {"fd_in", "fd_out", "pci_ids"} => j.kind \in {"ci", "sec"}
    /\ j.does = "fd_out" => EndsOf(held) = {End(<<j.device, j.kind>>, "w")}
    /\ j.does = "pci_ids" => EndsOf(held) = {End(<<j.device, j.kind>>, "w"),
                                             End(<<j.device, j.kind>>, "r")}
    /\ j.does = "ts_open" =>
          /\ EndsOf(held) = {End(j.node, "w"), End(j.node, "r")}
          /\ j.vendor = Tbs => Vendor[j.node] = Tbs
          /\ \A node \in j.told : Vendor[node] = Tbs

Tells(r, reports, left) ==
    /\ r.busy = None <=> r.error = "open"
    /\ r.info <=> r.error = None
    /\ r.mac => r.info /\ r.device \notin NoNetSupport
    /\ r.device \notin left
    /\ \A q \in reports : q.device = r.device => q = r

ReportsHold(j) ==
    /\ j.does \in {"scan"} \cup Probes => \A r \in j.reports : Tells(r, j.reports, j.left)
    /\ j.does \in Probes => /\ j.device \notin j.left
                            /\ \A r \in j.reports : r.device # j.device
    /\ j.does \in Asking => j.busy \in BOOLEAN
    /\ j.does \in {"net", "add_if"} \cup Borrows => j.device \notin NoNetSupport
    /\ j.does = "remove" => j.mac \in BOOLEAN

Fine(j, held) == /\ ProbeHolds(j, held) /\ KindsHeld(j, held)
                 /\ PairHolds(j, held) /\ ReportsHold(j)

AllFine == /\ DOMAIN job = Clients
           /\ \A c \in Clients : Fine(job[c], Held(c))

Interface(c) == [device |-> job[c].device, number |-> job[c].number, by |-> c]

InterfacesHold ==
    /\ stuck \subseteq interfaces
    /\ \A i, k \in interfaces : i.device = k.device /\ i.number = k.number => i = k
    /\ \A c \in Clients : job[c].does \in Borrows => Interface(c) \in interfaces \ stuck
    /\ \A i \in interfaces \ stuck : /\ i.by \in Clients
                                     /\ job[i.by].does \in Borrows
                                     /\ i = Interface(i.by)

Inv == AllFine /\ InterfacesHold

-----------------------------------------------------------------------------
(* What a step of a thread leaves to show.                                 *)
LEMMA GoesFine ==
    ASSUME AllFine, NEW c \in Clients, NEW next, Goes(c, next), Fine(next, Held(c))
    PROVE  AllFine'
<1>1. DOMAIN job' = Clients
  BY DEF AllFine, Goes
<1>2. ASSUME NEW d \in Clients PROVE Fine(job'[d], Held(d)')
  <2>1. Held(d)' = Held(d)
    BY DEF Goes, Held
  <2>2. job'[d] = IF d = c THEN next ELSE job[d]
    BY DEF AllFine, Goes
  <2> QED BY <2>1, <2>2 DEF AllFine
<1> QED BY <1>1, <1>2 DEF AllFine

LEMMA OpensFine ==
    ASSUME AllFine, NEW c \in Clients, NEW node, NEW mode, NEW next,
           Opens(c, node, mode, next),
           Fine(next, Held(c) \cup {Descriptor(c, node, mode)})
    PROVE  AllFine'
<1>1. DOMAIN job' = Clients
  BY DEF AllFine, Opens
<1>2. ASSUME NEW d \in Clients PROVE Fine(job'[d], Held(d)')
  <2>1. Held(d)' = IF d = c THEN Held(c) \cup {Descriptor(c, node, mode)} ELSE Held(d)
    BY DEF Opens, Held, Descriptor
  <2>2. job'[d] = IF d = c THEN next ELSE job[d]
    BY DEF AllFine, Opens
  <2> QED BY <2>1, <2>2 DEF AllFine
<1> QED BY <1>1, <1>2 DEF AllFine

LEMMA ClosesFine ==
    ASSUME AllFine, NEW c \in Clients, NEW kinds, NEW next,
           Closes(c, kinds, next), KindsOf(job[c].does) \subseteq kinds, Fine(next, {})
    PROVE  AllFine'
<1>1. DOMAIN job' = Clients
  BY DEF AllFine, Closes
<1>2. ASSUME NEW d \in Clients PROVE Fine(job'[d], Held(d)')
  <2>1. Held(d)' = IF d = c THEN {} ELSE Held(d)
    <3>1. CASE d = c
      <4>1. \A f \in Held(c) : f.node[2] \in kinds
        BY DEF AllFine, Fine, KindsHeld
      <4> QED BY <3>1, <4>1 DEF Closes, Held
    <3>2. CASE d # c
      BY <3>2 DEF Closes, Held
    <3> QED BY <3>1, <3>2
  <2>2. job'[d] = IF d = c THEN next ELSE job[d]
    BY DEF AllFine, Closes
  <2> QED BY <2>1, <2>2 DEF AllFine
<1> QED BY <1>1, <1>2 DEF AllFine

LEMMA InterfacesKept ==
    ASSUME AllFine, InterfacesHold, NEW c \in Clients, NEW next,
           job' = [job EXCEPT ![c] = next], UNCHANGED <<interfaces, stuck>>,
           job[c].does \notin Borrows, next.does \notin Borrows
    PROVE  InterfacesHold'
<1>1. \A d \in Clients : job'[d] = IF d = c THEN next ELSE job[d]
  BY DEF AllFine
<1>2. \A d \in Clients : job'[d].does \in Borrows =>
          job[d].does \in Borrows /\ Interface(d)' = Interface(d)
  BY <1>1 DEF Interface
<1>3. \A d \in Clients : job[d].does \in Borrows =>
          job'[d].does \in Borrows /\ Interface(d)' = Interface(d)
  BY <1>1 DEF Interface
<1> QED BY <1>2, <1>3 DEF InterfacesHold

(* The three kinds of steps, where no interface is borrowed or given back. *)
Apart(c, next) == /\ UNCHANGED <<interfaces, stuck>>
                  /\ job[c].does \notin Borrows /\ next.does \notin Borrows

LEMMA GoesKeeps ==
    ASSUME Inv, NEW c \in Clients, NEW next, Goes(c, next), Apart(c, next),
           Fine(next, Held(c))
    PROVE  Inv'
BY GoesFine, InterfacesKept DEF Inv, Goes, Apart

LEMMA OpensKeeps ==
    ASSUME Inv, NEW c \in Clients, NEW node, NEW mode, NEW next,
           Opens(c, node, mode, next), Apart(c, next),
           Fine(next, Held(c) \cup {Descriptor(c, node, mode)})
    PROVE  Inv'
BY OpensFine, InterfacesKept DEF Inv, Opens, Apart

LEMMA ClosesKeeps ==
    ASSUME Inv, NEW c \in Clients, NEW kinds, NEW next,
           Closes(c, kinds, next), Apart(c, next),
           KindsOf(job[c].does) \subseteq kinds, Fine(next, {})
    PROVE  Inv'
BY ClosesFine, InterfacesKept DEF Inv, Closes, Apart

-----------------------------------------------------------------------------
(* Jobs of a scan and of a probe that are Fine.                            *)
LEMMA NothingHeld ==
    ASSUME NEW j, NEW held, Fine(j, held), KindsOf(j.does) = {}
    PROVE  held = {}
BY DEF Fine, KindsHeld

LEMMA IdleFine == Fine(Idle, {})
BY DEF Fine, ProbeHolds, KindsHeld, PairHolds, ReportsHold, Idle, NeedsOf, Probes, Asking,
       Borrows

LEMMA ScanningFine ==
    ASSUME NEW left, NEW reports, \A r \in reports : Tells(r, reports, left)
    PROVE  Fine(Scanning(left, reports), {})
BY DEF Fine, ProbeHolds, KindsHeld, PairHolds, ReportsHold, Scanning, NeedsOf, Probes,
       Asking, Borrows

LEMMA ReportedFine ==
    ASSUME NEW c \in Clients, NEW held, Fine(job[c], held), job[c].does \in Probes,
           NEW r, r.device = job[c].device, r.busy = None <=> r.error = "open",
           r.info <=> r.error = None, r.mac => r.info /\ r.device \notin NoNetSupport
    PROVE  Fine(Reported(c, r), {})
<1> DEFINE reports == job[c].reports \cup {r}
<1>1. /\ \A q \in job[c].reports : Tells(q, job[c].reports, job[c].left)
      /\ \A q \in job[c].reports : q.device # job[c].device
      /\ job[c].device \notin job[c].left
  BY DEF Fine, ReportsHold
<1>2. \A q \in reports : Tells(q, reports, job[c].left)
  BY <1>1 DEF Tells
<1> QED BY <1>2, ScanningFine DEF Reported

(* A probe goes on with the descriptors its next step needs.               *)
LEMMA ProbingFine ==
    ASSUME NEW j, NEW held, NEW next, NEW nextHeld, Fine(j, held), j.does \in Probes,
           next.does \in Asking, next.device = j.device, next.left = j.left,
           next.reports = j.reports, next.busy \in BOOLEAN,
           next.does \in {"net", "add_if"} \cup Borrows => j.device \notin NoNetSupport,
           next.does = "remove" => next.mac \in BOOLEAN,
           {f.node : f \in nextHeld} = NeedsOf(next)
    PROVE  Fine(next, nextHeld)
<1>1. ProbeHolds(next, nextHeld)
  BY DEF ProbeHolds
<1>2. KindsHeld(next, nextHeld)
  <2>1. \A f \in nextHeld : f.node \in NeedsOf(next)
    OBVIOUS
  <2> QED BY <2>1 DEF KindsHeld, NeedsOf, KindsOf, Asking
<1>3. PairHolds(next, nextHeld)
  BY DEF PairHolds, Asking
<1>4. ReportsHold(next)
  BY DEF Fine, ReportsHold, Probes, Asking, Borrows
<1> QED BY <1>1, <1>2, <1>3, <1>4 DEF Fine

LEMMA ProceedsFine ==
    ASSUME NEW c \in Clients, NEW held, Fine(job[c], held), job[c].does \in Probes,
           NEW what \in {"open_ro", "info", "net", "add_if"}, NEW busy \in BOOLEAN,
           what \in {"net", "add_if"} => job[c].device \notin NoNetSupport,
           NEW nextHeld, {f.node : f \in nextHeld} = NeedsOf(Proceeds(c, what, busy))
    PROVE  Fine(Proceeds(c, what, busy), nextHeld)
<1> DEFINE next == Proceeds(c, what, busy)
<1>1. /\ next.does = what /\ next.device = job[c].device /\ next.left = job[c].left
      /\ next.reports = job[c].reports /\ next.busy = busy
  BY DEF Proceeds
<1> HIDE DEF next
<1>2. next.does \in Asking /\ next.does \notin Borrows
  BY <1>1 DEF Asking, Borrows
<1> QED BY <1>1, <1>2, ProbingFine DEF next, Borrows

LEMMA HoldsFine ==
    ASSUME NEW c \in Clients, NEW held, Fine(job[c], held), job[c].does \in {"add_if", "mac"},
           NEW what \in Borrows, NEW number, NEW mac \in BOOLEAN,
           {f.node : f \in held} = {Node(c, "net")}
    PROVE  Fine(Holds(c, what, number, mac), held)
<1> DEFINE next == Holds(c, what, number, mac)
<1>1. /\ next.does = what /\ next.device = job[c].device /\ next.left = job[c].left
      /\ next.reports = job[c].reports /\ next.busy = job[c].busy /\ next.mac = mac
  BY DEF Holds
<1>2. job[c].busy \in BOOLEAN /\ job[c].device \notin NoNetSupport
  BY DEF Fine, ReportsHold, Asking, Borrows
<1> HIDE DEF next
<1>3. next.does \in Asking /\ NeedsOf(next) = {Node(c, "net")} /\ job[c].does \in Probes
  BY <1>1 DEF Asking, Borrows, NeedsOf, Node, Probes
<1> QED BY <1>1, <1>2, <1>3, ProbingFine DEF next

-----------------------------------------------------------------------------
(* The steps of a scan and of its probes.                                  *)
LEMMA ScanKeeps == ASSUME Inv, NEW c \in Clients, Scan(c) PROVE Inv'
<1> DEFINE next == Scanning(Entries, {})
<1>1. Fine(job[c], Held(c)) /\ job[c].does = "idle" /\ Goes(c, next)
  BY DEF Inv, AllFine, Scan, Doing
<1>2. Fine(next, Held(c))
  BY <1>1, NothingHeld, ScanningFine DEF KindsOf
<1>3. Apart(c, next)
  BY <1>1 DEF Apart, Scan, NetUnchanged, Scanning, Borrows
<1> QED BY <1>1, <1>2, <1>3, GoesKeeps

LEMMA ScanReturnsKeeps == ASSUME Inv, NEW c \in Clients, ScanReturns(c) PROVE Inv'
<1>1. Fine(job[c], Held(c)) /\ job[c].does = "scan" /\ Goes(c, Idle)
  BY DEF Inv, AllFine, ScanReturns, Doing
<1>2. Fine(Idle, Held(c))
  BY <1>1, NothingHeld, IdleFine DEF KindsOf
<1>3. Apart(c, Idle)
  BY <1>1 DEF Apart, ScanReturns, NetUnchanged, Idle, Borrows
<1> QED BY <1>1, <1>2, <1>3, GoesKeeps

LEMMA NextEntryKeeps == ASSUME Inv, NEW c \in Clients, NextEntry(c) PROVE Inv'
<1>1. Fine(job[c], Held(c)) /\ job[c].does = "scan"
  BY DEF Inv, AllFine, NextEntry, Doing
<1>2. Held(c) = {} /\ \A r \in job[c].reports : Tells(r, job[c].reports, job[c].left)
  BY <1>1, NothingHeld DEF Fine, ReportsHold, KindsOf
<1>3. PICK d \in job[c].left :
        \/ Goes(c, Scanning(job[c].left \ {d}, job[c].reports))
        \/ Goes(c, [does |-> "open_rw", device |-> d, left |-> job[c].left \ {d},
                    reports |-> job[c].reports])
  BY DEF NextEntry
<1>4. \A r \in job[c].reports : Tells(r, job[c].reports, job[c].left \ {d})
                                /\ r.device # d
  BY <1>2 DEF Tells
<1>5. CASE Goes(c, Scanning(job[c].left \ {d}, job[c].reports))
  <2> DEFINE next == Scanning(job[c].left \ {d}, job[c].reports)
  <2>1. Fine(next, Held(c))
    BY <1>2, <1>4, ScanningFine
  <2>2. Apart(c, next)
    BY <1>1 DEF Apart, NextEntry, NetUnchanged, Scanning, Borrows
  <2> QED BY <1>5, <2>1, <2>2, GoesKeeps
<1>6. CASE Goes(c, [does |-> "open_rw", device |-> d, left |-> job[c].left \ {d},
                    reports |-> job[c].reports])
  <2> DEFINE next == [does |-> "open_rw", device |-> d, left |-> job[c].left \ {d},
                      reports |-> job[c].reports]
  <2>1. Fine(next, Held(c))
    BY <1>2, <1>4 DEF Fine, ProbeHolds, KindsHeld, PairHolds, ReportsHold, NeedsOf, Probes,
                      Asking, Borrows
  <2>2. Apart(c, next)
    BY <1>1 DEF Apart, NextEntry, NetUnchanged, Borrows
  <2> QED BY <1>6, <2>1, <2>2, GoesKeeps
<1> QED BY <1>3, <1>5, <1>6

LEMMA ProbeOpenKeeps == ASSUME Inv, NEW c \in Clients, ProbeOpen(c) PROVE Inv'
<1> DEFINE info(busy) == Proceeds(c, "info", busy)
           again == Proceeds(c, "open_ro", TRUE)
           failed == Report(job[c].device, None, FALSE, FALSE, "open")
           node == Node(c, "frontend")
<1>1. Fine(job[c], Held(c)) /\ job[c].does \in {"open_rw", "open_ro"}
  BY DEF Inv, AllFine, ProbeOpen, Doing
<1>2. Held(c) = {}
  BY <1>1, NothingHeld DEF KindsOf
<1>3. Fine(again, Held(c))
  <2>1. {f.node : f \in Held(c)} = NeedsOf(again)
    BY <1>2 DEF NeedsOf, Proceeds
  <2> QED BY <1>1, <2>1, ProceedsFine DEF Probes, Asking
<1>4. ASSUME NEW busy \in BOOLEAN, NEW mode
      PROVE  Fine(info(busy), Held(c) \cup {Descriptor(c, node, mode)})
  <2>1. {f.node : f \in Held(c) \cup {Descriptor(c, node, mode)}} = NeedsOf(info(busy))
    BY <1>2 DEF NeedsOf, Proceeds, Descriptor, Node
  <2> QED BY <1>1, <2>1, ProceedsFine DEF Probes, Asking
<1>5. Fine(Reported(c, failed), Held(c))
  BY <1>1, <1>2, ReportedFine, DevicesAssumption DEF Report, Probes, Asking
<1>6. /\ Apart(c, again) /\ Apart(c, Reported(c, failed))
      /\ \A busy \in BOOLEAN : Apart(c, info(busy))
  BY <1>1 DEF Apart, ProbeOpen, NetUnchanged, Proceeds, Reported, Scanning, Borrows
<1> QED BY <1>3, <1>4, <1>5, <1>6, GoesKeeps, OpensKeeps DEF ProbeOpen

LEMMA ProbeInfoKeeps == ASSUME Inv, NEW c \in Clients, ProbeInfo(c) PROVE Inv'
<1> DEFINE d == job[c].device
           busy == job[c].busy
           failed == Reported(c, Report(d, busy, FALSE, FALSE, "info"))
           noMac == Reported(c, Report(d, busy, TRUE, FALSE, None))
           asks == Proceeds(c, "net", busy)
<1>1. /\ Fine(job[c], Held(c)) /\ job[c].does = "info" /\ busy \in BOOLEAN
      /\ KindsOf(job[c].does) \subseteq {"frontend"}
  BY DEF Inv, AllFine, ProbeInfo, Doing, Fine, ReportsHold, Asking, KindsOf
<1>2. Fine(failed, {}) /\ Fine(noMac, {})
  BY <1>1, ReportedFine, DevicesAssumption DEF Report, Probes, Asking
<1>3. d \notin NoNetSupport => Fine(asks, {})
  <2>1. {f.node : f \in {}} = NeedsOf(asks)
    BY DEF NeedsOf, Proceeds
  <2> QED BY <1>1, <2>1, ProceedsFine DEF Probes, Asking
<1>4. Apart(c, failed) /\ Apart(c, noMac) /\ Apart(c, asks)
  BY <1>1 DEF Apart, ProbeInfo, NetUnchanged, Proceeds, Reported, Scanning, Borrows
<1>5. \/ Closes(c, {"frontend"}, failed)
      \/ Closes(c, {"frontend"}, noMac)
      \/ d \notin NoNetSupport /\ Closes(c, {"frontend"}, asks)
  BY DEF ProbeInfo
<1> QED BY <1>1, <1>2, <1>3, <1>4, <1>5, ClosesKeeps

LEMMA NetOpenKeeps == ASSUME Inv, NEW c \in Clients, NetOpen(c) PROVE Inv'
<1> DEFINE next == Proceeds(c, "add_if", job[c].busy)
           given == Reported(c, MacReport(c, FALSE))
           opens == Descriptor(c, Node(c, "net"), "rw")
<1>1. Fine(job[c], Held(c)) /\ job[c].does = "net"
  BY DEF Inv, AllFine, NetOpen, Doing
<1>2. Held(c) = {}
  BY <1>1, NothingHeld DEF KindsOf
<1>3. job[c].busy \in BOOLEAN /\ job[c].device \notin NoNetSupport
  BY <1>1 DEF Fine, ReportsHold, Asking
<1>4. Fine(next, Held(c) \cup {opens})
  <2>1. {f.node : f \in Held(c) \cup {opens}} = NeedsOf(next)
    BY <1>2 DEF NeedsOf, Proceeds, Descriptor, Node
  <2> QED BY <1>1, <1>3, <2>1, ProceedsFine DEF Probes, Asking
<1>5. Fine(given, Held(c))
  BY <1>1, <1>2, <1>3, ReportedFine, DevicesAssumption DEF Report, MacReport, Probes, Asking
<1>6. Apart(c, next) /\ Apart(c, given)
  BY <1>1 DEF Apart, NetOpen, NetUnchanged, Proceeds, Reported, Scanning, Borrows
<1> QED BY <1>4, <1>5, <1>6, GoesKeeps, OpensKeeps DEF NetOpen

(* The interface a thread that borrows one has in hand, and no other.      *)
LEMMA OwnInterface ==
    ASSUME InterfacesHold, NEW c \in Clients, job[c].does \in Borrows
    PROVE  Own(c) = {Interface(c)}
<1>1. Interface(c) \in Own(c)
  BY DEF InterfacesHold, Own, Interface
<1>2. ASSUME NEW i \in Own(c) PROVE i = Interface(c)
  BY <1>1 DEF InterfacesHold, Own
<1> QED BY <1>1, <1>2

LEMMA AddIfKeeps == ASSUME Inv, NEW c \in Clients, AddIf(c) PROVE Inv'
<1> DEFINE d == job[c].device
           given == Reported(c, MacReport(c, FALSE))
<1>1. Fine(job[c], Held(c)) /\ job[c].does = "add_if" /\ UNCHANGED stuck
  BY DEF Inv, AllFine, AddIf, Doing
<1>2. /\ job[c].busy \in BOOLEAN /\ job[c].device \notin NoNetSupport
      /\ {f.node : f \in Held(c)} = {Node(c, "net")}
  BY <1>1 DEF Fine, ReportsHold, ProbeHolds, Asking, NeedsOf, Node, Probing
<1>3. ASSUME NEW n \in Free(d), Goes(c, Holds(c, "mac", n, FALSE)),
             interfaces' = interfaces \cup {[device |-> d, number |-> n, by |-> c]}
      PROVE  Inv'
  <2> DEFINE next == Holds(c, "mac", n, FALSE)
             new == [device |-> d, number |-> n, by |-> c]
  <2>1. Fine(next, Held(c))
    BY <1>1, <1>2, HoldsFine DEF Borrows
  <2>2. AllFine'
    BY <1>3, <2>1, GoesFine DEF Inv
  <2>3. next.does \in Borrows /\ next.device = d /\ next.number = n
    BY DEF Holds, Borrows
  <2>4. \A e \in Clients : job'[e] = IF e = c THEN next ELSE job[e]
    BY <1>3 DEF Inv, AllFine, Goes
  <2>5. /\ Interface(c)' = new
        /\ \A e \in Clients \ {c} : Interface(e)' = Interface(e) /\ job'[e] = job[e]
    BY <2>3, <2>4 DEF Interface
  <2>6. \A i \in interfaces : i.device # d \/ i.number # n
    BY DEF Free, Numbers
  <2>7. new \notin interfaces
    BY <2>6
  <2>8. job[c].does \notin Borrows
    BY <1>1 DEF Borrows
  <2>9. stuck' \subseteq interfaces' /\ interfaces' \ stuck' = (interfaces \ stuck) \cup {new}
    BY <1>1, <1>3, <2>7 DEF Inv, InterfacesHold
  <2>10. \A i, k \in interfaces' : i.device = k.device /\ i.number = k.number => i = k
    BY <1>3, <2>6 DEF Inv, InterfacesHold
  <2>11. \A e \in Clients : job'[e].does \in Borrows => Interface(e)' \in interfaces' \ stuck'
    BY <2>5, <2>9 DEF Inv, InterfacesHold
  <2>12. ASSUME NEW i \in interfaces' \ stuck'
         PROVE  i.by \in Clients /\ job'[i.by].does \in Borrows /\ i = Interface(i.by)'
    <3>1. CASE i = new
      BY <3>1, <2>3, <2>4, <2>5
    <3>2. CASE i \in interfaces \ stuck
      <4>1. i.by \in Clients /\ job[i.by].does \in Borrows /\ i = Interface(i.by)
        BY <3>2 DEF Inv, InterfacesHold
      <4> QED BY <4>1, <2>5, <2>8
    <3> QED BY <2>9, <3>1, <3>2
  <2>13. InterfacesHold'
    BY <2>9, <2>10, <2>11, <2>12 DEF InterfacesHold
  <2> QED BY <2>2, <2>13 DEF Inv
<1>4. ASSUME Closes(c, {"net"}, given), UNCHANGED interfaces
      PROVE  Inv'
  <2>1. Fine(given, {})
    BY <1>1, <1>2, ReportedFine, DevicesAssumption DEF Report, MacReport, Probes, Asking
  <2>2. Apart(c, given)
    BY <1>1, <1>4 DEF Apart, Reported, Scanning, Borrows
  <2>3. KindsOf(job[c].does) \subseteq {"net"}
    BY <1>1 DEF KindsOf
  <2> QED BY <1>4, <2>1, <2>2, <2>3, ClosesKeeps
<1> QED BY <1>3, <1>4 DEF AddIf

LEMMA ReadMacKeeps == ASSUME Inv, NEW c \in Clients, ReadMac(c) PROVE Inv'
<1>1. /\ Fine(job[c], Held(c)) /\ job[c].does = "mac"
      /\ UNCHANGED <<interfaces, stuck>>
  BY DEF Inv, AllFine, ReadMac, Doing, NetUnchanged
<1>2. {f.node : f \in Held(c)} = {Node(c, "net")}
  BY <1>1 DEF Fine, ProbeHolds, NeedsOf, Node, Probing
<1>3. PICK mac \in BOOLEAN : Goes(c, Holds(c, "remove", job[c].number, mac))
  BY DEF ReadMac
<1> DEFINE next == Holds(c, "remove", job[c].number, mac)
<1>4. Fine(next, Held(c))
  BY <1>1, <1>2, HoldsFine DEF Borrows
<1>5. AllFine'
  BY <1>3, <1>4, GoesFine DEF Inv
<1>6. \A e \in Clients : job'[e] = IF e = c THEN next ELSE job[e]
  BY <1>3 DEF Inv, AllFine, Goes
<1>7. next.does \in Borrows /\ next.device = job[c].device /\ next.number = job[c].number
  BY DEF Holds, Borrows
<1>8. \A e \in Clients : /\ Interface(e)' = Interface(e)
                         /\ job'[e].does \in Borrows <=> job[e].does \in Borrows
  BY <1>1, <1>6, <1>7 DEF Interface, Borrows
<1>9. InterfacesHold'
  BY <1>1, <1>8 DEF Inv, InterfacesHold
<1> QED BY <1>5, <1>9 DEF Inv

LEMMA RemoveIfKeeps == ASSUME Inv, NEW c \in Clients, RemoveIf(c) PROVE Inv'
<1> DEFINE next == Reported(c, MacReport(c, job[c].mac))
           mine == Interface(c)
<1>1. /\ Fine(job[c], Held(c)) /\ job[c].does = "remove"
      /\ Closes(c, {"net"}, next)
  BY DEF Inv, AllFine, RemoveIf, Doing
<1>2. /\ job[c].busy \in BOOLEAN /\ job[c].mac \in BOOLEAN
      /\ job[c].device \notin NoNetSupport
  BY <1>1 DEF Fine, ReportsHold, Asking, Borrows
<1>3. Fine(next, {})
  BY <1>1, <1>2, ReportedFine, DevicesAssumption DEF Report, MacReport, Probes, Asking
<1>4. AllFine'
  BY <1>1, <1>3, ClosesFine DEF Inv, KindsOf
<1>5. Own(c) = {mine} /\ mine \in interfaces \ stuck
  BY <1>1, OwnInterface DEF Inv, InterfacesHold, Borrows
<1>6. next.does \notin Borrows
  BY DEF Reported, Scanning, Borrows
<1>7. \A e \in Clients : job'[e] = IF e = c THEN next ELSE job[e]
  BY <1>1 DEF Inv, AllFine, Closes
<1>8. \A e \in Clients \ {c} : Interface(e)' = Interface(e) /\ Interface(e) # mine
  BY <1>7 DEF Interface
<1>9. /\ stuck' \subseteq interfaces' /\ interfaces' \subseteq interfaces
      /\ interfaces' \ stuck' = (interfaces \ stuck) \ {mine}
  BY <1>5 DEF Inv, InterfacesHold, RemoveIf
<1>10. \A e \in Clients : job'[e].does \in Borrows => Interface(e)' \in interfaces' \ stuck'
  BY <1>6, <1>7, <1>8, <1>9 DEF Inv, InterfacesHold
<1>11. ASSUME NEW i \in interfaces' \ stuck'
       PROVE  i.by \in Clients /\ job'[i.by].does \in Borrows /\ i = Interface(i.by)'
  <2>1. /\ i # mine /\ i.by \in Clients /\ job[i.by].does \in Borrows
        /\ i = Interface(i.by)
    BY <1>9 DEF Inv, InterfacesHold
  <2>2. i.by # c
    BY <2>1
  <2> QED BY <2>1, <2>2, <1>7, <1>8
<1>12. InterfacesHold'
  BY <1>9, <1>10, <1>11 DEF Inv, InterfacesHold
<1> QED BY <1>4, <1>12 DEF Inv

-----------------------------------------------------------------------------
(* The steps of frontends, taps and modulators.                            *)
Plain == {"fe_info", "frontend", "set_tap", "tap", "config", "feed", "write"}

LEMMA PlainFine ==
    ASSUME NEW j, NEW held, j.does \in Plain, KindsHeld(j, held)
    PROVE  Fine(j, held)
BY DEF Plain, Fine, ProbeHolds, Probing, PairHolds, ReportsHold, Probes, Asking, Borrows

(* A thread that goes on in a job of the same kinds of nodes.              *)
LEMMA PlainGoesOn ==
    ASSUME NEW j, NEW held, NEW next, Fine(j, held), next.does \in Plain,
           KindsOf(j.does) \subseteq KindsOf(next.does)
    PROVE  Fine(next, held)
BY PlainFine DEF Fine, KindsHeld

LEMMA OpenFrontendKeeps == ASSUME Inv, NEW c \in Clients, OpenFrontend(c) PROVE Inv'
<1> DEFINE asks == [does |-> "fe_info"]
           has == [does |-> "frontend"]
<1>1. Fine(job[c], Held(c)) /\ UNCHANGED <<interfaces, stuck>>
  BY DEF Inv, AllFine, OpenFrontend, Others
<1>2. ASSUME NEW d \in Devices, NEW mode, job[c].does = "idle",
             Opens(c, <<d, "frontend">>, mode, asks)
      PROVE  Inv'
  <2>1. Held(c) = {}
    BY <1>1, <1>2, NothingHeld DEF KindsOf
  <2>2. Fine(asks, Held(c) \cup {Descriptor(c, <<d, "frontend">>, mode)})
    BY <2>1, PlainFine DEF Plain, KindsHeld, KindsOf, Descriptor
  <2> QED BY <1>1, <1>2, <2>2, OpensKeeps DEF Apart, Borrows
<1>3. CASE job[c].does = "fe_info" /\ Goes(c, has)
  BY <1>1, <1>3, PlainGoesOn, GoesKeeps DEF Plain, KindsOf, Apart, Borrows
<1>4. CASE job[c].does = "fe_info" /\ Closes(c, {"frontend"}, Idle)
  BY <1>1, <1>4, IdleFine, ClosesKeeps DEF KindsOf, Apart, Borrows, Idle
<1> QED BY <1>2, <1>3, <1>4 DEF OpenFrontend, Doing

LEMMA TapKeeps ==
    ASSUME Inv, NEW c \in Clients,
           OpenDemux(c) \/ SetTap(c) \/ StartStop(c) \/ OpenDvr(c)
    PROVE  Inv'
<1>1. Fine(job[c], Held(c)) /\ UNCHANGED <<interfaces, stuck>>
  BY DEF Inv, AllFine, OpenDemux, SetTap, StartStop, OpenDvr, Others
<1>2. CASE OpenDemux(c)
  <2>1. PICK d \in Devices, pid \in Pids :
            Opens(c, <<d, "demux">>, "rw", [does |-> "set_tap", device |-> d, pid |-> pid])
    BY <1>2 DEF OpenDemux
  <2> DEFINE next == [does |-> "set_tap", device |-> d, pid |-> pid]
  <2>2. job[c].does = "idle" /\ Held(c) = {}
    BY <1>1, <1>2, NothingHeld DEF OpenDemux, Doing, KindsOf
  <2>3. Fine(next, Held(c) \cup {Descriptor(c, <<d, "demux">>, "rw")})
    BY <2>2, PlainFine DEF Plain, KindsHeld, KindsOf, Descriptor
  <2> QED BY <1>1, <2>1, <2>2, <2>3, OpensKeeps DEF Apart, Borrows
<1>3. CASE SetTap(c)
  <2> DEFINE next == Tapped(job[c].device, Filter(job[c].pid, TRUE))
  <2>1. job[c].does = "set_tap" /\ next.does = "tap"
    BY <1>3 DEF SetTap, Doing, Tapped
  <2>2. CASE Goes(c, next)
    BY <1>1, <2>1, <2>2, PlainGoesOn, GoesKeeps DEF Plain, KindsOf, Apart, Borrows
  <2>3. CASE Closes(c, {"demux"}, Idle)
    BY <1>1, <2>1, <2>3, IdleFine, ClosesKeeps DEF KindsOf, Apart, Borrows, Idle
  <2>4. Goes(c, next) \/ Closes(c, {"demux"}, Idle)
    BY <1>3 DEF SetTap, Goes, Closes, Tapped, Filter, Idle
  <2> QED BY <2>2, <2>3, <2>4
<1>4. CASE StartStop(c)
  <2>1. PICK runs \in BOOLEAN : Goes(c, [job[c] EXCEPT !.filter.runs = runs])
    BY <1>4 DEF StartStop
  <2> DEFINE next == [job[c] EXCEPT !.filter.runs = runs]
  <2>2. job[c].does = "tap" /\ next.does = "tap"
    BY <1>4 DEF StartStop, Doing
  <2> QED BY <1>1, <2>1, <2>2, PlainGoesOn, GoesKeeps DEF Plain, Apart, Borrows
<1>5. CASE OpenDvr(c)
  <2>1. job[c].does = "tap" /\ Opens(c, Node(c, "dvr"), "r", job[c])
    BY <1>5 DEF OpenDvr, Doing
  <2>2. Fine(job[c], Held(c) \cup {Descriptor(c, Node(c, "dvr"), "r")})
    BY <1>1, <2>1, PlainFine DEF Fine, Plain, KindsHeld, KindsOf, Descriptor, Node
  <2> QED BY <1>1, <2>1, <2>2, OpensKeeps DEF Apart, Borrows
<1> QED BY <1>2, <1>3, <1>4, <1>5

LEMMA DropKeeps == ASSUME Inv, NEW c \in Clients, Drop(c) PROVE Inv'
<1>1. /\ UNCHANGED <<interfaces, stuck>>
      /\ job[c].does \in {"frontend", "tap", "ts_open"}
      /\ Closes(c, {"frontend", "demux", "dvr", "ci", "sec"}, Idle)
  BY DEF Drop, Others
<1>2. KindsOf(job[c].does) \subseteq {"frontend", "demux", "dvr", "ci", "sec"}
  BY <1>1 DEF KindsOf
<1> QED BY <1>1, <1>2, IdleFine, ClosesKeeps DEF Apart, Borrows, Idle

LEMMA ModKeeps ==
    ASSUME Inv, NEW c \in Clients,
           OpenMod(c) \/ Configure(c) \/ CloseMod(c) \/ Write(c) \/ WriteAll(c)
    PROVE  Inv'
<1>1. Fine(job[c], Held(c)) /\ UNCHANGED <<interfaces, stuck>>
  BY DEF Inv, AllFine, OpenMod, Configure, CloseMod, Write, WriteAll, ModUnchanged, Others
<1>2. ASSUME NEW next, Goes(c, next), job[c].does \in {"config", "feed", "write"},
             next.does \in {"config", "feed", "write"}
      PROVE  Inv'
  <2>1. KindsOf(job[c].does) = {"mod"} /\ KindsOf(next.does) = {"mod"}
    BY <1>2 DEF KindsOf
  <2>2. Fine(next, Held(c))
    BY <1>1, <1>2, <2>1, PlainGoesOn DEF Plain
  <2> QED BY <1>1, <1>2, <2>2, GoesKeeps DEF Apart, Borrows
<1>3. CASE OpenMod(c)
  <2>1. PICK d \in Devices :
          \/ Opens(c, <<d, "mod">>, "r", Configured(<<>>, <<>>))
          \/ Opens(c, <<d, "mod">>, "w", [does |-> "feed", next |-> 1])
    BY <1>3 DEF OpenMod
  <2>2. job[c].does = "idle" /\ Held(c) = {}
    BY <1>1, <1>3, NothingHeld DEF OpenMod, Doing, KindsOf
  <2>3. ASSUME NEW mode, NEW next, next.does \in {"config", "feed"},
               Opens(c, <<d, "mod">>, mode, next)
        PROVE  Inv'
    <3>1. Fine(next, Held(c) \cup {Descriptor(c, <<d, "mod">>, mode)})
      BY <2>2, <2>3, PlainFine DEF Plain, KindsHeld, KindsOf, Descriptor
    <3> QED BY <1>1, <2>2, <2>3, <3>1, OpensKeeps DEF Apart, Borrows
  <2>4. Configured(<<>>, <<>>).does = "config"
    BY DEF Configured
  <2> QED BY <2>1, <2>3, <2>4
<1>4. CASE Configure(c)
  <2>1. PICK regions \in Plans : Goes(c, Configured(SetupChannels(regions), regions))
    BY <1>4 DEF Configure
  <2> DEFINE next == Configured(SetupChannels(regions), regions)
  <2>2. job[c].does = "config" /\ next.does = "config"
    BY <1>4 DEF Configure, Configured, Doing
  <2> QED BY <1>2, <2>1, <2>2
<1>5. CASE CloseMod(c)
  <2>1. job[c].does \in {"config", "feed"} /\ Closes(c, {"mod"}, Idle)
    BY <1>5 DEF CloseMod
  <2> QED BY <1>1, <2>1, IdleFine, ClosesKeeps DEF KindsOf, Apart, Borrows, Idle
<1>6. CASE Write(c)
  BY <1>2, <1>6 DEF Write, Doing
<1>7. CASE WriteAll(c)
  <2>1. job[c].does = "write"
    BY <1>7 DEF WriteAll, Doing
  <2>2. CASE Goes(c, Feeding(c))
    BY <1>2, <2>1, <2>2 DEF Feeding
  <2>3. ASSUME NEW n, Goes(c, [job[c] EXCEPT !.rest = SubSeq(@, n + 1, Len(@))])
        PROVE  Inv'
    <3> DEFINE next == [job[c] EXCEPT !.rest = SubSeq(@, n + 1, Len(@))]
    <3>1. next.does = "write"
      BY <2>1
    <3> QED BY <1>2, <2>1, <2>3, <3>1
  <2> QED BY <1>7, <2>2, <2>3 DEF WriteAll, Accept, Fail, Written
<1> QED BY <1>3, <1>4, <1>5, <1>6, <1>7

-----------------------------------------------------------------------------
(* The steps of a TS pair.                                                 *)
LEMMA PairingFine ==
    ASSUME NEW what \in {"fd_in", "fd_out", "pci_ids"}, NEW d, NEW kind \in {"ci", "sec"},
           NEW held,
           what = "fd_in" => held = {},
           what = "fd_out" => EndsOf(held) = {End(<<d, kind>>, "w")},
           what = "pci_ids" => EndsOf(held) = {End(<<d, kind>>, "w"), End(<<d, kind>>, "r")}
    PROVE  Fine(Pairing(what, d, kind), held)
<1> DEFINE next == Pairing(what, d, kind)
<1>1. next.does = what /\ next.device = d /\ next.kind = kind
  BY DEF Pairing
<1> HIDE DEF next
<1>2. PairHolds(next, held)
  BY <1>1 DEF PairHolds
<1>3. \A f \in held : f.node = <<d, kind>>
  <2>1. \A f \in held : End(f.node, f.mode) \in EndsOf(held)
    BY DEF EndsOf
  <2>2. \A e \in EndsOf(held) : e.node = <<d, kind>>
    BY DEF End, EndsOf
  <2> QED BY <2>1, <2>2 DEF End
<1>4. KindsHeld(next, held)
  BY <1>1, <1>3 DEF KindsHeld, KindsOf
<1>5. ProbeHolds(next, held) /\ ReportsHold(next)
  BY <1>1 DEF ProbeHolds, Probing, ReportsHold, Probes, Asking, Borrows
<1> QED BY <1>2, <1>4, <1>5 DEF Fine, next

LEMMA OpenPairKeeps == ASSUME Inv, NEW c \in Clients, OpenPair(c) PROVE Inv'
<1>1. /\ Fine(job[c], Held(c)) /\ job[c].does = "idle"
      /\ UNCHANGED <<interfaces, stuck>>
  BY DEF Inv, AllFine, OpenPair, Doing, Others
<1>2. PICK d \in Devices : Goes(c, Pairing("fd_in", d, "ci"))
  BY DEF OpenPair
<1> DEFINE next == Pairing("fd_in", d, "ci")
<1>3. Fine(next, Held(c))
  BY <1>1, NothingHeld, PairingFine DEF KindsOf
<1>4. Apart(c, next)
  BY <1>1 DEF Apart, Pairing, Borrows
<1> QED BY <1>2, <1>3, <1>4, GoesKeeps

LEMMA FdInKeeps == ASSUME Inv, NEW c \in Clients, FdIn(c) PROVE Inv'
<1> DEFINE d == job[c].device
           kind == job[c].kind
           next == Pairing("fd_out", d, kind)
           other == Pairing("fd_in", d, "sec")
           in == Descriptor(c, <<d, kind>>, "w")
<1>1. /\ Fine(job[c], Held(c)) /\ job[c].does = "fd_in"
      /\ UNCHANGED <<interfaces, stuck>>
  BY DEF Inv, AllFine, FdIn, Doing, Others
<1>2. Held(c) = {} /\ kind \in {"ci", "sec"}
  BY <1>1, NothingHeld DEF KindsOf, Fine, PairHolds
<1>3. Fine(next, Held(c) \cup {in})
  <2>1. EndsOf(Held(c) \cup {in}) = {End(<<d, kind>>, "w")}
    BY <1>2 DEF EndsOf, Descriptor
  <2> QED BY <1>2, <2>1, PairingFine
<1>4. Fine(other, Held(c)) /\ Fine(Idle, Held(c))
  BY <1>2, PairingFine, IdleFine
<1>5. Apart(c, next) /\ Apart(c, other) /\ Apart(c, Idle)
  BY <1>1 DEF Apart, Pairing, Idle, Borrows
<1>6. \/ Opens(c, <<d, kind>>, "w", next)
      \/ Goes(c, other) \/ Goes(c, Idle)
  BY DEF FdIn
<1> QED BY <1>3, <1>4, <1>5, <1>6, GoesKeeps, OpensKeeps

LEMMA FdOutKeeps == ASSUME Inv, NEW c \in Clients, FdOut(c) PROVE Inv'
<1> DEFINE d == job[c].device
           kind == job[c].kind
           next == Pairing("pci_ids", d, kind)
           other == Pairing("fd_in", d, "sec")
           out == Descriptor(c, <<d, kind>>, "r")
<1>1. /\ Fine(job[c], Held(c)) /\ job[c].does = "fd_out"
      /\ UNCHANGED <<interfaces, stuck>>
  BY DEF Inv, AllFine, FdOut, Doing, Others
<1>2. kind \in {"ci", "sec"} /\ EndsOf(Held(c)) = {End(<<d, kind>>, "w")}
  BY <1>1 DEF Fine, PairHolds
<1>3. Fine(next, Held(c) \cup {out})
  <2>1. EndsOf(Held(c) \cup {out}) = EndsOf(Held(c)) \cup {End(out.node, out.mode)}
    BY DEF EndsOf
  <2>2. out.node = <<d, kind>> /\ out.mode = "r"
    BY DEF Descriptor
  <2>3. EndsOf(Held(c) \cup {out}) = {End(<<d, kind>>, "w"), End(<<d, kind>>, "r")}
    BY <1>2, <2>1, <2>2
  <2> QED BY <1>2, <2>3, PairingFine
<1>4. Fine(other, {}) /\ Fine(Idle, {})
  BY PairingFine, IdleFine
<1>5. Apart(c, next) /\ Apart(c, other) /\ Apart(c, Idle)
  BY <1>1 DEF Apart, Pairing, Idle, Borrows
<1>6. KindsOf(job[c].does) \subseteq Ends
  BY <1>1 DEF KindsOf, Ends
<1>7. \/ Opens(c, <<d, kind>>, "r", next)
      \/ Closes(c, Ends, other) \/ Closes(c, Ends, Idle)
  BY DEF FdOut
<1> QED BY <1>3, <1>4, <1>5, <1>6, <1>7, OpensKeeps, ClosesKeeps

LEMMA OpenPairIsFine ==
    ASSUME NEW node, NEW held, NEW vendor, NEW told, node[2] \in {"ci", "sec"},
           EndsOf(held) = {End(node, "w"), End(node, "r")},
           vendor = Tbs => Vendor[node] = Tbs, \A n \in told : Vendor[n] = Tbs,
           NEW next, next.does = "ts_open", next.node = node, next.vendor = vendor,
           next.told = told
    PROVE  Fine(next, held)
<1>1. PairHolds(next, held)
  BY DEF PairHolds
<1>2. \A f \in held : f.node = node
  <2>1. \A f \in held : End(f.node, f.mode) \in EndsOf(held)
    BY DEF EndsOf
  <2>2. \A e \in EndsOf(held) : e.node = node
    BY DEF End
  <2> QED BY <2>1, <2>2 DEF End
<1>3. KindsHeld(next, held)
  BY <1>2 DEF KindsHeld, KindsOf
<1>4. ProbeHolds(next, held) /\ ReportsHold(next)
  BY DEF ProbeHolds, Probing, ReportsHold, Probes, Asking, Borrows
<1> QED BY <1>1, <1>3, <1>4 DEF Fine

LEMMA PciIdsKeeps == ASSUME Inv, NEW c \in Clients, PciIds(c) PROVE Inv'
<1> DEFINE node == Node(c, job[c].kind)
           vendor == IF node \in nodes THEN Vendor[node] ELSE None
           next == [does |-> "ts_open", node |-> node, vendor |-> vendor, told |-> {}]
<1>1. /\ Fine(job[c], Held(c)) /\ job[c].does = "pci_ids" /\ Goes(c, next)
      /\ UNCHANGED <<interfaces, stuck>>
  BY DEF Inv, AllFine, PciIds, Doing, Others
<1>2. node[2] \in {"ci", "sec"} /\ EndsOf(Held(c)) = {End(node, "w"), End(node, "r")}
  BY <1>1 DEF Fine, PairHolds, Node
<1>3. vendor = Tbs => Vendor[node] = Tbs
  BY DevicesAssumption
<1>4. Fine(next, Held(c))
  BY <1>2, <1>3, OpenPairIsFine
<1>5. Apart(c, next)
  BY <1>1 DEF Apart, Borrows
<1> QED BY <1>1, <1>4, <1>5, GoesKeeps

LEMMA SetInputBitrateKeeps == ASSUME Inv, NEW c \in Clients, SetInputBitrate(c) PROVE Inv'
<1> DEFINE in == {f \in Held(c) : f.mode = "w"}
           told == {f.node : f \in in}
           next == [job[c] EXCEPT !.told = told]
           node == job[c].node
<1>1. /\ Fine(job[c], Held(c)) /\ job[c].does = "ts_open" /\ job[c].vendor = Tbs
      /\ Goes(c, next) /\ UNCHANGED <<interfaces, stuck>>
  BY DEF Inv, AllFine, SetInputBitrate, Doing, Others
<1>2. /\ EndsOf(Held(c)) = {End(node, "w"), End(node, "r")} /\ Vendor[node] = Tbs
      /\ \A n \in job[c].told : Vendor[n] = Tbs
  BY <1>1 DEF Fine, PairHolds
<1>3. \A f \in Held(c) : f.node = node
  <2>1. \A f \in Held(c) : End(f.node, f.mode) \in EndsOf(Held(c))
    BY DEF EndsOf
  <2>2. \A e \in EndsOf(Held(c)) : e.node = node
    BY <1>2 DEF End
  <2> QED BY <2>1, <2>2 DEF End
<1>4. \A n \in told : Vendor[n] = Tbs
  BY <1>2, <1>3
<1>5. /\ next.does = "ts_open" /\ next.node = node /\ next.vendor = Tbs
      /\ next.told \in {told, job[c].told}
  BY <1>1
<1>6. \E f \in Held(c) : f.node[2] \in {"ci", "sec"}
  <2>1. End(node, "w") \in EndsOf(Held(c))
    BY <1>2
  <2>2. PICK f \in Held(c) : TRUE
    BY <2>1 DEF EndsOf
  <2> QED BY <1>1, <2>2 DEF Fine, KindsHeld, KindsOf
<1>7. node[2] \in {"ci", "sec"}
  BY <1>3, <1>6
<1>8. Fine(next, Held(c))
  <2>1. \A n \in next.told : Vendor[n] = Tbs
    BY <1>2, <1>4, <1>5
  <2> HIDE DEF next, node, told
  <2>2. PairHolds(next, Held(c))
    BY <1>2, <1>5, <2>1 DEF PairHolds
  <2>3. KindsHeld(next, Held(c))
    BY <1>3, <1>5, <1>7 DEF KindsHeld, KindsOf
  <2>4. ProbeHolds(next, Held(c)) /\ ReportsHold(next)
    BY <1>5 DEF ProbeHolds, Probing, ReportsHold, Probes, Asking, Borrows
  <2> QED BY <2>2, <2>3, <2>4 DEF Fine
<1>9. Apart(c, next)
  BY <1>1, <1>5 DEF Apart, Borrows
<1> QED BY <1>1, <1>8, <1>9, GoesKeeps

-----------------------------------------------------------------------------
(* The invariant.                                                          *)
LEMMA ClientKeeps == ASSUME Inv, NEW c \in Clients, Client(c) PROVE Inv'
BY ScanKeeps, ScanReturnsKeeps, NextEntryKeeps, ProbeOpenKeeps, ProbeInfoKeeps,
   NetOpenKeeps, AddIfKeeps, ReadMacKeeps, RemoveIfKeeps, OpenFrontendKeeps, TapKeeps,
   DropKeeps, OpenPairKeeps, FdInKeeps, FdOutKeeps, PciIdsKeeps, SetInputBitrateKeeps,
   ModKeeps DEF Client

(* Nodes that come and go change nothing a thread has in hand.             *)
LEMMA OthersKeep ==
    ASSUME Inv, UNCHANGED <<opened, interfaces, stuck, job>>
    PROVE  Inv'
BY DEF Inv, AllFine, Held, InterfacesHold, Interface

LEMMA InitFine == ASSUME Init PROVE Inv
<1>1. \A c \in Clients : Held(c) = {} /\ job[c] = Idle
  BY DEF Init, Held
<1>2. AllFine
  BY <1>1, IdleFine DEF Init, AllFine
<1>3. InterfacesHold
  BY <1>1 DEF Init, InterfacesHold, Borrows, Idle
<1> QED BY <1>2, <1>3 DEF Inv

(* What each thread has open and in hand fits what it is doing, and the
   interfaces a device has are those the threads have in hand or could not give
   back, whatever the other threads do in between (scan.rs, net/, ca/ts.rs). *)
THEOREM Invariant == Spec => []Inv
<1>1. Inv /\ [Next]_vars => Inv'
  <2> SUFFICES ASSUME Inv, [Next]_vars PROVE Inv'
    OBVIOUS
  <2>1. CASE \E c \in Clients : Client(c)
    BY <2>1, ClientKeeps
  <2>2. CASE \E node \in Pluggable : Plug(node)
    BY <2>2, OthersKeep DEF Plug
  <2>3. CASE UNCHANGED vars
    BY <2>3, OthersKeep DEF vars
  <2> QED BY <2>1, <2>2, <2>3 DEF Next
<1> QED BY <1>1, InitFine, PTL DEF Spec

LEMMA InvNothingLeft == ASSUME Inv PROVE NothingLeft
<1>1. \A c \in Clients : job[c].does \in Probing => {f.node : f \in Held(c)} = Needs(c)
  BY DEF Inv, AllFine, Fine, ProbeHolds, NeedsOf, Needs, Node
<1>2. \A c \in Clients : job[c].does \in Borrows => Own(c) = {Interface(c)}
  BY OwnInterface DEF Inv
<1>3. Borrowed = UNION {Own(c) : c \in {c \in Clients : job[c].does \in Borrows}}
  BY DEF Borrowed, Borrows
<1>4. interfaces = Borrowed \cup stuck
  <2>1. Borrowed \subseteq interfaces
    BY <1>3 DEF Own
  <2>2. \A i \in interfaces \ stuck : i \in Borrowed
    <3> TAKE i \in interfaces \ stuck
    <3>1. i.by \in Clients /\ job[i.by].does \in Borrows /\ i = Interface(i.by)
      BY DEF Inv, InterfacesHold
    <3>2. i \in Own(i.by)
      BY <1>2, <3>1
    <3> QED BY <1>3, <3>1, <3>2
  <2> QED BY <2>1, <2>2 DEF Inv, InterfacesHold
<1>5. \A c \in Clients : job[c].does \in Borrows => \A i \in Own(c) : i.by = c
  BY <1>2 DEF Interface
<1> QED BY <1>1, <1>4, <1>5 DEF NothingLeft, Borrows

(* A probe leaves neither a descriptor nor an interface behind, whichever of
   its calls fail and however many threads probe the same adapter: only an
   interface whose NET_REMOVE_IF failed stays (probe, read_mac, drop).     *)
THEOREM NothingIsLeft == Spec => []NothingLeft
BY Invariant, InvNothingLeft, PTL

(* A report says busy or not exactly when the frontend was opened, has an info
   or an error, a MAC address only from a driver that survives being asked, and
   no frontend is reported twice (FeProbe, probe).                         *)
THEOREM ReportsTell == Spec => []ReportTells
<1>1. Inv => ReportTells
  BY DEF Inv, AllFine, Fine, ReportsHold, Tells, ReportTells, Doing
<1> QED BY <1>1, Invariant, PTL

(* The two ends of an open CI pair are of one node, and a bitrate reaches nodes
   of the one vendor only, though nodes come and go (CiTsDevice::open).    *)
THEOREM PairsMatch == Spec => []PairMatches
<1>1. Inv => PairMatches
  BY DEF Inv, AllFine, Fine, PairHolds, EndsOf, End, PairMatches, Doing
<1> QED BY <1>1, Invariant, PTL
-----------------------------------------------------------------------------
(* The modulator.  One thread at a time feeds it, for it holds the one node
   for writing; what the modulator took is told by what that thread is at. *)
Modulating == {"config", "feed", "write"}
Feeder(c) == job[c].does \in {"feed", "write"}
HoldsMod(c) == \E f \in opened : /\ f.by = c /\ f.mode = "w"
                                 /\ f.node \in Nodes /\ f.node[2] = "mod"

PlanOk(plan, asked) ==
    /\ Len(plan) = Len(asked)
    /\ \A i \in DOMAIN plan :
          /\ asked[i] \cup {"valid"} \subseteq plan[i]
          /\ "first" \in plan[i] <=> i = 1 \/ "first" \in asked[i]
          /\ "last" \in plan[i] <=> i = Len(plan) \/ "last" \in asked[i]

Items == Nat \X Nat

(* A stream of whole and broken off buffers, all before a given one.       *)
TakenIn(b, s) == {i \in DOMAIN s : s[i][1] = b}
WholeIn(b, s) ==
    \E from \in 0 .. Len(s) :
        /\ TakenIn(b, s) = from + 1 .. from + Len(Buffer[b])
        /\ \A k \in DOMAIN Buffer[b] : s[from + k] = Buffer[b][k]
Follows(s, i) ==
    LET b == s[i][1]
        k == s[i][2]
    IN  /\ k > 1 => i > 1 /\ s[i - 1] = << b, k - 1 >>
        /\ k = 1 => \A j \in 1 .. i - 1 : s[j][1] < b
Before(next, s, whole) ==
    /\ next \in Nat \ {0}
    /\ s \in Seq(Items)
    /\ \A i \in DOMAIN s : s[i][1] < next /\ s[i][2] >= 1 /\ Follows(s, i)
    /\ \A b \in whole : b \in DOMAIN Buffer /\ b < next /\ WholeIn(b, s)

(* The stream up to a place is of earlier buffers, the rest is as much of the
   buffer that is being written as is no longer in hand.                   *)
Reached(b, gone, s) ==
    \E from \in Nat : /\ Len(s) = from + gone
                      /\ \A i \in 1 .. from : s[i][1] < b
                      /\ \A i \in 1 .. gone : s[from + i] = <<b, i>>
InHand(rest, b, gone) ==
    /\ rest \in Seq(Items) /\ Len(rest) + gone = Len(Buffer[b])
    /\ \A i \in 1 .. Len(rest) : rest[i] = <<b, gone + i>>
During(j, s, whole) ==
    /\ j.buffer \in DOMAIN Buffer
    /\ DOMAIN j = {"does", "buffer", "rest"}
    /\ Before(j.buffer + 1, s, whole)
    /\ \A b \in whole : b < j.buffer
    /\ \E gone \in Nat : InHand(j.rest, j.buffer, gone) /\ Reached(j.buffer, gone, s)

StreamHolds ==
    /\ (\A c \in Clients : ~Feeder(c)) => stream = <<>> /\ done = {}
    /\ \A c \in Clients : job[c].does = "feed" => /\ Before(job[c].next, stream, done)
    /\ \A c \in Clients : job[c].does = "write" => During(job[c], stream, done)

ModHolds ==
    /\ nodes \subseteq Nodes
    /\ DOMAIN job = Clients
    /\ \A c, d \in Clients : Feeder(c) /\ Feeder(d) => c = d
    /\ \A c \in Clients : Feeder(c) => HoldsMod(c)
    /\ \A c \in Clients : job[c].does = "config" => PlanOk(job[c].plan, job[c].asked)
    /\ StreamHolds

(* Every step goes on with one job, and leaves the descriptors of others.  *)
Steps(c, next) == /\ job' = [job EXCEPT ![c] = next]
                  /\ \A f \in opened : f.by # c => f \in opened'

LEMMA ThreeSteps ==
    ASSUME NEW c, NEW next,
           \/ Goes(c, next)
           \/ \E node, mode : Opens(c, node, mode, next)
           \/ \E kinds : Closes(c, kinds, next)
    PROVE  Steps(c, next)
BY DEF Steps, Goes, Opens, Closes

(* A step of a thread that has nothing to do with the modulator.           *)
Elsewhere(c) == /\ UNCHANGED <<nodes, stream, done>>
                /\ job[c].does \notin Modulating
                /\ \E next : next.does \notin Modulating /\ Steps(c, next)

LEMMA ElsewhereKeeps ==
    ASSUME ModHolds, NEW c \in Clients, Elsewhere(c)
    PROVE  ModHolds'
<1>1. PICK next : next.does \notin Modulating /\ Steps(c, next)
  BY DEF Elsewhere
<1>2. /\ \A d \in Clients : job'[d] = IF d = c THEN next ELSE job[d]
      /\ DOMAIN job' = Clients
  BY <1>1 DEF Steps, ModHolds
<1>3. /\ \A d \in Clients : Feeder(d)' => Feeder(d) /\ d # c /\ job'[d] = job[d]
      /\ \A d \in Clients : Feeder(d) => Feeder(d)'
  BY <1>1, <1>2 DEF Feeder, Modulating, Elsewhere
<1>4. \A d \in Clients : Feeder(d)' => HoldsMod(d)'
  BY <1>1, <1>3 DEF ModHolds, HoldsMod, Steps
<1>5. \A d \in Clients : job'[d].does = "config" => job'[d] = job[d]
  BY <1>1, <1>2 DEF Modulating
<1>6. StreamHolds'
  <2>1. UNCHANGED <<stream, done>>
    BY DEF Elsewhere
  <2>2. \A d \in Clients : job'[d].does \in {"feed", "write"} => job'[d] = job[d]
    BY <1>3 DEF Feeder
  <2> QED BY <1>3, <2>1, <2>2 DEF ModHolds, StreamHolds
<1> QED BY <1>2, <1>3, <1>4, <1>5, <1>6 DEF ModHolds, Elsewhere

LEMMA ProbingElsewhere ==
    ASSUME NEW c \in Clients,
           \/ Scan(c) \/ ScanReturns(c) \/ NextEntry(c) \/ ProbeOpen(c) \/ ProbeInfo(c)
           \/ NetOpen(c) \/ AddIf(c) \/ ReadMac(c) \/ RemoveIf(c)
    PROVE  Elsewhere(c)
<1>1. UNCHANGED <<nodes, stream, done>>
  BY DEF Scan, ScanReturns, NextEntry, ProbeOpen, ProbeInfo, NetOpen, AddIf, ReadMac,
         RemoveIf, ScanUnchanged, modulator
<1>2. job[c].does \notin Modulating
  BY DEF Scan, ScanReturns, NextEntry, ProbeOpen, ProbeInfo, NetOpen, AddIf, ReadMac,
         RemoveIf, Doing, Modulating
<1>3. /\ \A left, reports : Scanning(left, reports).does \notin Modulating
      /\ \A r : Reported(c, r).does \notin Modulating
      /\ Idle.does \notin Modulating
      /\ \A what \in Asking : \A busy : Proceeds(c, what, busy).does \notin Modulating
      /\ \A what \in Asking : \A n, mac : Holds(c, what, n, mac).does \notin Modulating
  BY DEF Scanning, Reported, Idle, Proceeds, Holds, Modulating, Asking
<1>4. \E next : next.does \notin Modulating /\ Steps(c, next)
  <2>1. CASE Scan(c) \/ ScanReturns(c)
    BY <1>3, <2>1, ThreeSteps DEF Scan, ScanReturns
  <2>2. CASE NextEntry(c)
    <3>1. PICK d \in job[c].left :
            \/ Goes(c, Scanning(job[c].left \ {d}, job[c].reports))
            \/ Goes(c, [does |-> "open_rw", device |-> d, left |-> job[c].left \ {d},
                        reports |-> job[c].reports])
      BY <2>2 DEF NextEntry
    <3> DEFINE other == [does |-> "open_rw", device |-> d, left |-> job[c].left \ {d},
                         reports |-> job[c].reports]
    <3>2. other.does \notin Modulating
      BY DEF Modulating
    <3> QED BY <1>3, <3>1, <3>2, ThreeSteps
  <2>3. CASE ProbeOpen(c) \/ NetOpen(c)
    BY <1>3, <2>3, ThreeSteps DEF ProbeOpen, NetOpen, Asking
  <2>4. CASE ProbeInfo(c)
    BY <1>3, <2>4, ThreeSteps DEF ProbeInfo, Asking
  <2>5. CASE AddIf(c) \/ ReadMac(c)
    BY <1>3, <2>5, ThreeSteps DEF AddIf, ReadMac, Asking
  <2>6. CASE RemoveIf(c)
    BY <1>3, <2>6, ThreeSteps DEF RemoveIf
  <2> QED BY <2>1, <2>2, <2>3, <2>4, <2>5, <2>6
<1> QED BY <1>1, <1>2, <1>4 DEF Elsewhere

LEMMA UsingElsewhere ==
    ASSUME NEW c \in Clients,
           \/ OpenFrontend(c) \/ OpenDemux(c) \/ SetTap(c) \/ StartStop(c) \/ OpenDvr(c)
           \/ Drop(c) \/ OpenPair(c) \/ FdIn(c) \/ FdOut(c) \/ PciIds(c) \/ SetInputBitrate(c)
    PROVE  Elsewhere(c)
<1>1. UNCHANGED <<nodes, stream, done>>
  BY DEF OpenFrontend, OpenDemux, SetTap, StartStop, OpenDvr, Drop, OpenPair, FdIn, FdOut,
         PciIds, SetInputBitrate, Others, modulator
<1>2. job[c].does \notin Modulating
  BY DEF OpenFrontend, OpenDemux, SetTap, StartStop, OpenDvr, Drop, OpenPair, FdIn, FdOut,
         PciIds, SetInputBitrate, Doing, Modulating
<1>3. /\ Idle.does \notin Modulating
      /\ \A d, filter : Tapped(d, filter).does \notin Modulating
      /\ \A what \in {"fd_in", "fd_out", "pci_ids"} : \A d, kind :
            Pairing(what, d, kind).does \notin Modulating
  BY DEF Idle, Tapped, Pairing, Modulating
<1>4. \E next : next.does \notin Modulating /\ Steps(c, next)
  <2>1. CASE OpenFrontend(c)
    <3>1. /\ [does |-> "fe_info"].does \notin Modulating
          /\ [does |-> "frontend"].does \notin Modulating
      BY DEF Modulating
    <3> QED BY <1>3, <2>1, <3>1, ThreeSteps DEF OpenFrontend
  <2>2. CASE OpenDemux(c)
    <3>1. PICK d \in Devices, pid \in Pids :
            Opens(c, <<d, "demux">>, "rw", [does |-> "set_tap", device |-> d, pid |-> pid])
      BY <2>2 DEF OpenDemux
    <3>2. [does |-> "set_tap", device |-> d, pid |-> pid].does \notin Modulating
      BY DEF Modulating
    <3> QED BY <3>1, <3>2, ThreeSteps
  <2>3. CASE SetTap(c) \/ Drop(c)
    <3> DEFINE tapped == Tapped(job[c].device, Filter(job[c].pid, TRUE))
    <3>1. SetTap(c) => Goes(c, tapped) \/ Closes(c, {"demux"}, Idle)
      BY DEF SetTap, Goes, Closes, Tapped, Filter, Idle
    <3>2. Drop(c) => Closes(c, {"frontend", "demux", "dvr", "ci", "sec"}, Idle)
      BY DEF Drop
    <3>3. tapped.does \notin Modulating
      BY <1>3
    <3> HIDE DEF tapped
    <3>4. Steps(c, tapped) \/ Steps(c, Idle)
      BY <2>3, <3>1, <3>2, ThreeSteps
    <3> QED BY <1>3, <3>3, <3>4
  <2>4. CASE StartStop(c)
    <3>1. PICK runs \in BOOLEAN : Goes(c, [job[c] EXCEPT !.filter.runs = runs])
      BY <2>4 DEF StartStop
    <3>2. [job[c] EXCEPT !.filter.runs = runs].does \notin Modulating
      BY <2>4 DEF StartStop, Doing, Modulating
    <3> QED BY <3>1, <3>2, ThreeSteps
  <2>5. CASE OpenDvr(c)
    BY <1>2, <2>5, ThreeSteps DEF OpenDvr
  <2>6. CASE OpenPair(c) \/ FdIn(c) \/ FdOut(c)
    BY <1>3, <2>6, ThreeSteps DEF OpenPair, FdIn, FdOut
  <2>7. CASE PciIds(c)
    <3>1. PICK node, vendor :
            Goes(c, [does |-> "ts_open", node |-> node, vendor |-> vendor, told |-> {}])
      BY <2>7 DEF PciIds
    <3>2. [does |-> "ts_open", node |-> node, vendor |-> vendor, told |-> {}].does
              \notin Modulating
      BY DEF Modulating
    <3> QED BY <3>1, <3>2, ThreeSteps
  <2>8. CASE SetInputBitrate(c)
    <3>1. PICK told : Goes(c, [job[c] EXCEPT !.told = told])
      BY <2>8 DEF SetInputBitrate
    <3>2. [job[c] EXCEPT !.told = told].does \notin Modulating
      BY <1>2
    <3> QED BY <3>1, <3>2, ThreeSteps
  <2> QED BY <2>1, <2>2, <2>3, <2>4, <2>5, <2>6, <2>7, <2>8
<1> QED BY <1>1, <1>2, <1>4 DEF Elsewhere
-----------------------------------------------------------------------------
(* What a write does to the stream.                                        *)
LEMMA BufferItems ==
    ASSUME NEW b \in DOMAIN Buffer
    PROVE  /\ b \in Nat \ {0}
           /\ Buffer[b] \in Seq(Items) /\ Len(Buffer[b]) \in Nat
           /\ DOMAIN Buffer[b] = 1 .. Len(Buffer[b])
           /\ \A k \in 1 .. Len(Buffer[b]) : Buffer[b][k] = <<b, k>>
BY ModAssumption DEF Items

LEMMA NothingTaken == Before(1, <<>>, {})
BY DEF Before

LEMMA Joined ==
    ASSUME NEW s \in Seq(Items), NEW u \in Seq(Items)
    PROVE  /\ s \o u \in Seq(Items) /\ Len(s) \in Nat /\ Len(u) \in Nat
           /\ Len(s \o u) = Len(s) + Len(u)
           /\ \A i \in 1 .. Len(s) : (s \o u)[i] = s[i]
           /\ \A i \in 1 .. Len(u) : (s \o u)[Len(s) + i] = u[i]
OBVIOUS

(* What is handed over, and what stays in hand.                            *)
LEMMA HandsOver ==
    ASSUME NEW b, NEW gone \in Nat, NEW r, InHand(r, b, gone), NEW n \in 1 .. Len(r)
    PROVE  /\ n \in Nat /\ SubSeq(r, 1, n) \in Seq(Items) /\ Len(SubSeq(r, 1, n)) = n
           /\ \A i \in 1 .. n : SubSeq(r, 1, n)[i] = <<b, gone + i>>
           /\ InHand(SubSeq(r, n + 1, Len(r)), b, gone + n)
<1>1. PICK left \in Nat : left = Len(r)
  BY DEF InHand
<1>2. /\ r \in Seq(Items) /\ left + gone = Len(Buffer[b]) /\ n \in 1 .. left
      /\ \A i \in 1 .. left : r[i] = <<b, gone + i>>
  BY <1>1 DEF InHand
<1>3. /\ SubSeq(r, 1, n) \in Seq(Items) /\ Len(SubSeq(r, 1, n)) = n
      /\ \A i \in 1 .. n : SubSeq(r, 1, n)[i] = r[i]
  BY <1>1, <1>2
<1>4. \A i \in 1 .. n : i \in 1 .. left
  BY <1>2
<1> DEFINE rest == SubSeq(r, n + 1, left)
<1>5. /\ rest \in Seq(Items) /\ Len(rest) = left - n
      /\ \A i \in 1 .. left - n : rest[i] = r[n + i]
  BY <1>1, <1>2
<1> HIDE DEF rest
<1>6. (left - n) + (gone + n) = left + gone
  BY <1>2
<1>7. ASSUME NEW i \in 1 .. left - n PROVE rest[i] = <<b, (gone + n) + i>>
  <2>1. n + i \in 1 .. left /\ gone + (n + i) = (gone + n) + i
    BY <1>2
  <2>2. r[n + i] = <<b, gone + (n + i)>>
    BY <1>2, <2>1
  <2> QED BY <1>5, <2>1, <2>2
<1>8. InHand(rest, b, gone + n)
  BY <1>2, <1>5, <1>6, <1>7 DEF InHand
<1> QED BY <1>1, <1>2, <1>3, <1>4, <1>8 DEF rest

(* Where a stream ends in the beginning of a buffer, it goes on with what is
   left of it.                                                             *)
LEMMA ReachesOn ==
    ASSUME NEW b \in Nat, NEW gone \in Nat, NEW s \in Seq(Items), NEW u \in Seq(Items),
           Reached(b, gone, s), \A i \in 1 .. Len(u) : u[i] = <<b, gone + i>>
    PROVE  Reached(b, gone + Len(u), s \o u)
<1> DEFINE t == s \o u
<1>1. PICK from \in Nat : /\ Len(s) = from + gone
                          /\ \A i \in 1 .. from : s[i][1] < b
                          /\ \A i \in 1 .. gone : s[from + i] = <<b, i>>
  BY DEF Reached
<1>2. /\ Len(t) = Len(s) + Len(u) /\ Len(u) \in Nat
      /\ \A i \in 1 .. Len(s) : t[i] = s[i]
      /\ \A i \in 1 .. Len(u) : t[Len(s) + i] = u[i]
  BY Joined
<1> HIDE DEF t
<1>3. Len(t) = from + (gone + Len(u))
  BY <1>1, <1>2
<1>4. ASSUME NEW i \in 1 .. from PROVE t[i][1] < b
  BY <1>1, <1>2
<1>5. ASSUME NEW i \in 1 .. gone + Len(u) PROVE t[from + i] = <<b, i>>
  <2>1. CASE i <= gone
    <3>1. from + i \in 1 .. Len(s) /\ i \in 1 .. gone
      BY <1>1, <1>2, <2>1
    <3> QED BY <1>1, <1>2, <3>1
  <2>2. CASE i > gone
    <3> DEFINE k == i - gone
    <3>1. k \in 1 .. Len(u) /\ from + i = Len(s) + k /\ gone + k = i
      BY <1>1, <1>2, <2>2
    <3> HIDE DEF k
    <3>2. t[from + i] = u[k] /\ u[k] = <<b, i>>
      BY <1>2, <3>1
    <3> QED BY <3>2
  <2> QED BY <2>1, <2>2
<1>6. gone + Len(u) \in Nat
  BY <1>2
<1> QED BY <1>3, <1>4, <1>5 DEF Reached, t

(* A buffer that has begun continues itself, and begins after all others.  *)
LEMMA GoesOnFollowing ==
    ASSUME NEW b \in Nat \ {0}, NEW gone \in Nat, NEW t \in Seq(Items), Reached(b, gone, t),
           \A i \in 1 .. Len(t) : t[i][1] < b => t[i][2] >= 1 /\ Follows(t, i)
    PROVE  \A i \in 1 .. Len(t) : t[i][1] < b + 1 /\ t[i][2] >= 1 /\ Follows(t, i)
<1>1. PICK from \in Nat : /\ Len(t) = from + gone
                          /\ \A i \in 1 .. from : t[i][1] < b
                          /\ \A i \in 1 .. gone : t[from + i] = <<b, i>>
  BY DEF Reached
<1>2. ASSUME NEW i \in 1 .. from
      PROVE  t[i][1] < b + 1 /\ t[i][2] >= 1 /\ Follows(t, i)
  <2>1. t[i] \in Items /\ i \in 1 .. Len(t) /\ t[i][1] < b
    BY <1>1
  <2>2. t[i][1] \in Nat
    BY <2>1 DEF Items
  <2> QED BY <2>1, <2>2
<1>3. ASSUME NEW k \in 1 .. gone
      PROVE  /\ t[from + k][1] < b + 1 /\ t[from + k][2] >= 1
             /\ Follows(t, from + k)
  <2>1. t[from + k] = <<b, k>>
    BY <1>1
  <2>2. t[from + k][1] = b /\ t[from + k][2] = k
    BY <2>1
  <2>3. k > 1 => from + k > 1 /\ t[(from + k) - 1] = <<b, k - 1>>
    <3> SUFFICES ASSUME k > 1 PROVE from + k > 1 /\ t[(from + k) - 1] = <<b, k - 1>>
      OBVIOUS
    <3>1. k - 1 \in 1 .. gone /\ (from + k) - 1 = from + (k - 1)
      OBVIOUS
    <3> QED BY <1>1, <3>1
  <2>4. k = 1 => \A i \in 1 .. (from + k) - 1 : t[i][1] < b
    BY <1>1
  <2> QED BY <2>2, <2>3, <2>4 DEF Follows
<1>4. ASSUME NEW i \in 1 .. Len(t)
      PROVE  t[i][1] < b + 1 /\ t[i][2] >= 1 /\ Follows(t, i)
  <2>1. i \in 1 .. from \/ \E k \in 1 .. gone : i = from + k
    <3>1. CASE i <= from
      BY <3>1
    <3>2. CASE i > from
      <4>1. i - from \in 1 .. gone /\ i = from + (i - from)
        BY <1>1, <3>2
      <4> QED BY <4>1
    <3> QED BY <3>1, <3>2
  <2> QED BY <1>2, <1>3, <2>1
<1> QED BY <1>4

(* What is added of another buffer leaves a whole one whole.               *)
LEMMA StaysWhole ==
    ASSUME NEW w, NEW s \in Seq(Items), NEW u \in Seq(Items), WholeIn(w, s),
           NEW size \in Nat, size = Len(Buffer[w]), DOMAIN Buffer[w] = 1 .. size,
           \A i \in 1 .. Len(u) : u[i][1] # w
    PROVE  WholeIn(w, s \o u)
<1> DEFINE t == s \o u
<1>1. /\ t \in Seq(Items) /\ Len(s) \in Nat /\ Len(u) \in Nat
      /\ Len(t) = Len(s) + Len(u)
      /\ \A i \in 1 .. Len(s) : t[i] = s[i]
      /\ \A i \in 1 .. Len(u) : t[Len(s) + i] = u[i]
  BY Joined
<1> HIDE DEF t
<1>2. DOMAIN t = 1 .. Len(t) /\ DOMAIN s = 1 .. Len(s)
  BY <1>1
<1>3. ASSUME NEW i \in 1 .. Len(t), t[i][1] = w PROVE i \in 1 .. Len(s)
  <2> SUFFICES ASSUME i > Len(s) PROVE FALSE
    BY <1>1
  <2>1. i - Len(s) \in 1 .. Len(u) /\ i = Len(s) + (i - Len(s))
    BY <1>1
  <2> QED BY <1>1, <1>3, <2>1
<1>4. TakenIn(w, t) = TakenIn(w, s)
  <2>1. \A i \in 1 .. Len(s) : i \in 1 .. Len(t)
    BY <1>1
  <2> QED BY <1>1, <1>2, <1>3, <2>1 DEF TakenIn
<1>5. PICK place \in 0 .. Len(s) :
        /\ TakenIn(w, s) = place + 1 .. place + size
        /\ \A k \in 1 .. size : s[place + k] = Buffer[w][k]
  BY DEF WholeIn
<1>6. ASSUME NEW k \in 1 .. size PROVE t[place + k] = Buffer[w][k]
  <2>1. place + k \in place + 1 .. place + size
    BY <1>1
  <2>2. place + k \in 1 .. Len(s)
    BY <1>2, <1>5, <2>1 DEF TakenIn
  <2> QED BY <1>1, <1>5, <2>2
<1>7. place \in 0 .. Len(t)
  BY <1>1
<1> QED BY <1>4, <1>5, <1>6, <1>7 DEF WholeIn, t

(* A buffer none of which is in hand any more has been taken whole.        *)
LEMMA WholeAtLast ==
    ASSUME NEW b \in DOMAIN Buffer, NEW s \in Seq(Items), Reached(b, Len(Buffer[b]), s)
    PROVE  WholeIn(b, s)
<1>1. PICK size \in Nat : size = Len(Buffer[b])
  BY BufferItems
<1>2. /\ b \in Nat /\ DOMAIN Buffer[b] = 1 .. size
      /\ \A k \in 1 .. size : Buffer[b][k] = <<b, k>>
  BY <1>1, BufferItems
<1>3. PICK from \in Nat : /\ Len(s) = from + size
                          /\ \A i \in 1 .. from : s[i][1] < b
                          /\ \A i \in 1 .. size : s[from + i] = <<b, i>>
  BY <1>1 DEF Reached
<1>4. DOMAIN s = 1 .. from + size
  BY <1>3
<1>5. ASSUME NEW i \in 1 .. from PROVE s[i][1] # b
  BY <1>2, <1>3
<1>6. ASSUME NEW i \in from + 1 .. from + size PROVE s[i][1] = b
  <2>1. i - from \in 1 .. size /\ from + (i - from) = i
    OBVIOUS
  <2>2. s[i] = <<b, i - from>>
    BY <1>3, <2>1
  <2> QED BY <2>2
<1>7. TakenIn(b, s) = from + 1 .. from + size
  <2>1. \A i : i \in 1 .. from + size <=> i \in 1 .. from \/ i \in from + 1 .. from + size
    OBVIOUS
  <2> QED BY <1>4, <1>5, <1>6, <2>1 DEF TakenIn
<1>8. from \in 0 .. Len(s)
  BY <1>3
<1> QED BY <1>1, <1>2, <1>3, <1>7, <1>8 DEF WholeIn

LEMMA BeginsBuffer ==
    ASSUME NEW b \in DOMAIN Buffer, NEW s, NEW whole, Before(b, s, whole),
           NEW j, j = [does |-> "write", buffer |-> b, rest |-> Buffer[b]]
    PROVE  During(j, s, whole)
<1>1. /\ b \in Nat \ {0} /\ Buffer[b] \in Seq(Items) /\ Len(Buffer[b]) \in Nat
      /\ \A k \in 1 .. Len(Buffer[b]) : Buffer[b][k] = <<b, k>>
  BY BufferItems
<1>2. /\ j.buffer = b /\ j.rest = Buffer[b] /\ DOMAIN j = {"does", "buffer", "rest"}
  OBVIOUS
<1>3. s \in Seq(Items) /\ Len(s) \in Nat /\ \A i \in 1 .. Len(s) : s[i][1] < b
  BY DEF Before
<1>4. Before(b + 1, s, whole) /\ \A w \in whole : w < b
  <2>1. b + 1 \in Nat \ {0}
    BY <1>1
  <2>2. ASSUME NEW i \in DOMAIN s PROVE s[i][1] < b + 1
    <3>1. s[i] \in Items /\ s[i][1] < b
      BY <1>3
    <3>2. s[i][1] \in Nat
      BY <3>1 DEF Items
    <3> QED BY <1>1, <3>1, <3>2
  <2>3. ASSUME NEW w \in whole PROVE w < b + 1 /\ w < b
    <3>1. w \in DOMAIN Buffer /\ w < b
      BY DEF Before
    <3> QED BY <1>1, <3>1, BufferItems
  <2> QED BY <2>1, <2>2, <2>3 DEF Before
<1>5. InHand(Buffer[b], b, 0)
  BY <1>1 DEF InHand
<1>6. Reached(b, 0, s)
  <2>1. PICK from \in Nat : from = Len(s)
    BY <1>3
  <2>2. /\ Len(s) = from + 0
        /\ \A i \in 1 .. from : s[i][1] < b
        /\ \A i \in 1 .. 0 : s[from + i] = <<b, i>>
    BY <1>3, <2>1
  <2> QED BY <2>2 DEF Reached
<1> QED BY <1>2, <1>4, <1>5, <1>6 DEF During

LEMMA EndsBuffer ==
    ASSUME NEW j, NEW s, NEW whole, During(j, s, whole), j.rest = <<>>
    PROVE  Before(j.buffer + 1, s, whole \cup {j.buffer})
<1>1. PICK b \in DOMAIN Buffer : b = j.buffer
  BY DEF During
<1>2. Before(b + 1, s, whole) /\ s \in Seq(Items)
  BY <1>1 DEF During, Before
<1>3. PICK gone \in Nat : InHand(j.rest, b, gone) /\ Reached(b, gone, s)
  BY <1>1 DEF During
<1>4. gone = Len(Buffer[b])
  BY <1>3 DEF InHand
<1>5. WholeIn(b, s)
  BY <1>2, <1>3, <1>4, WholeAtLast
<1>6. b < b + 1
  BY BufferItems
<1> QED BY <1>1, <1>2, <1>5, <1>6 DEF Before

LEMMA TakesMore ==
    ASSUME NEW j, NEW s, NEW whole, During(j, s, whole), NEW n \in 1 .. Len(j.rest),
           NEW next, next = [j EXCEPT !.rest = SubSeq(@, n + 1, Len(@))]
    PROVE  During(next, s \o SubSeq(j.rest, 1, n), whole)
<1> DEFINE u == SubSeq(j.rest, 1, n)
           t == s \o u
<1>1. PICK b \in DOMAIN Buffer : b = j.buffer
  BY DEF During
<1>2. b \in Nat \ {0}
  BY BufferItems
<1>3. PICK gone \in Nat : InHand(j.rest, b, gone) /\ Reached(b, gone, s)
  BY <1>1 DEF During
<1>4. /\ next.buffer = b /\ DOMAIN next = {"does", "buffer", "rest"}
      /\ next.rest = SubSeq(j.rest, n + 1, Len(j.rest))
  BY <1>1 DEF During
<1>5. s \in Seq(Items) /\ Before(b + 1, s, whole)
  BY <1>1 DEF During, Before
<1>6. /\ n \in Nat /\ u \in Seq(Items) /\ Len(u) = n
      /\ \A i \in 1 .. n : u[i] = <<b, gone + i>>
      /\ InHand(next.rest, b, gone + n)
  <2> DEFINE r == j.rest
  <2>1. InHand(r, b, gone) /\ n \in 1 .. Len(r)
    BY <1>3
  <2> HIDE DEF r
  <2>2. /\ n \in Nat /\ SubSeq(r, 1, n) \in Seq(Items) /\ Len(SubSeq(r, 1, n)) = n
        /\ \A i \in 1 .. n : SubSeq(r, 1, n)[i] = <<b, gone + i>>
        /\ InHand(SubSeq(r, n + 1, Len(r)), b, gone + n)
    BY <2>1, HandsOver
  <2> QED BY <1>4, <2>2 DEF r, u
<1> HIDE DEF u
<1>7. gone + n \in Nat
  BY <1>6
<1>8. Reached(b, gone + n, t)
  BY <1>2, <1>3, <1>5, <1>6, ReachesOn
<1>9. PICK size \in Nat : size = Len(s)
  BY <1>5
<1>10. /\ t \in Seq(Items) /\ Len(t) = size + n
       /\ \A i \in 1 .. size : t[i] = s[i]
       /\ \A i \in 1 .. n : t[size + i] = u[i]
  BY <1>5, <1>6, <1>9, Joined
<1> HIDE DEF t
<1>11. ASSUME NEW i \in 1 .. Len(t), t[i][1] < b PROVE t[i][2] >= 1 /\ Follows(t, i)
  <2>1. i \in 1 .. size
    <3> SUFFICES ASSUME i > size PROVE FALSE
      BY <1>6, <1>10
    <3>1. PICK k \in 1 .. n : i = size + k
      <4>1. i - size \in 1 .. n /\ i = size + (i - size)
        BY <1>6, <1>10
      <4> QED BY <4>1
    <3>2. t[i] = <<b, gone + k>>
      BY <1>6, <1>10, <3>1
    <3>3. t[i][1] = b
      BY <3>2
    <3> QED BY <1>2, <1>11, <3>3
  <2>2. s[i][2] >= 1 /\ Follows(s, i)
    BY <1>5, <1>9, <2>1 DEF Before
  <2>3. \A k \in 1 .. i : t[k] = s[k]
    BY <1>10, <2>1
  <2>4. i > 1 => i - 1 \in 1 .. i
    OBVIOUS
  <2>5. \A k \in 1 .. i - 1 : k \in 1 .. i
    OBVIOUS
  <2>6. i \in 1 .. i
    OBVIOUS
  <2> QED BY <2>2, <2>3, <2>4, <2>5, <2>6 DEF Follows
<1>12. \A i \in 1 .. Len(t) : t[i][1] < b + 1 /\ t[i][2] >= 1 /\ Follows(t, i)
  BY <1>2, <1>7, <1>8, <1>10, <1>11, GoesOnFollowing
<1>13. ASSUME NEW w \in whole PROVE w \in DOMAIN Buffer /\ w < b /\ WholeIn(w, t)
  <2>1. w \in DOMAIN Buffer /\ w < b /\ WholeIn(w, s)
    BY <1>1 DEF During, Before
  <2>2. \A i \in 1 .. Len(u) : u[i][1] # w
    <3>1. w # b
      BY <1>2, <2>1, BufferItems
    <3> QED BY <1>6, <3>1
  <2> QED BY <1>5, <1>6, <2>1, <2>2, BufferItems, StaysWhole DEF t
<1>14. Before(b + 1, t, whole)
  <2>1. b + 1 \in Nat \ {0} /\ DOMAIN t = 1 .. Len(t)
    BY <1>2, <1>10
  <2>2. \A w \in whole : w < b + 1
    BY <1>2, <1>13, BufferItems
  <2> QED BY <1>10, <1>12, <1>13, <2>1, <2>2 DEF Before
<1> QED
  BY <1>1, <1>4, <1>6, <1>7, <1>8, <1>13, <1>14 DEF During, t, u
-----------------------------------------------------------------------------
(* The steps of the modulator.                                             *)
LEMMA FeedingAlone ==
    ASSUME ModHolds, NEW c \in Clients, Feeder(c)
    PROVE  \A d \in Clients \ {c} : ~Feeder(d)
BY DEF ModHolds

(* The thread that feeds goes on: the others do not feed, before and after. *)
LEMMA FeederGoesOn ==
    ASSUME ModHolds, NEW c \in Clients, Feeder(c), NEW next, Goes(c, next),
           UNCHANGED nodes,
           \/ next.does = "feed" /\ Before(next.next, stream', done')
           \/ next.does = "write" /\ During(next, stream', done')
    PROVE  ModHolds'
<1>1. /\ \A d \in Clients : job'[d] = IF d = c THEN next ELSE job[d]
      /\ DOMAIN job' = Clients /\ opened' = opened
  BY DEF Goes, ModHolds
<1>2. \A d \in Clients : Feeder(d)' <=> d = c
  BY <1>1, FeedingAlone DEF Feeder
<1>3. HoldsMod(c)'
  BY <1>1 DEF ModHolds, HoldsMod
<1>4. \A d \in Clients : job'[d].does = "config" => job'[d] = job[d]
  BY <1>1
<1>5. \A d \in Clients : job'[d].does \in {"feed", "write"} => d = c /\ job'[d] = next
  BY <1>1, <1>2 DEF Feeder
<1>6. StreamHolds'
  BY <1>2, <1>5 DEF StreamHolds
<1> QED BY <1>1, <1>2, <1>3, <1>4, <1>6 DEF ModHolds

LEMMA OpenModKeeps == ASSUME ModHolds, NEW c \in Clients, OpenMod(c) PROVE ModHolds'
<1>1. /\ job[c].does = "idle" /\ UNCHANGED <<nodes, stream, done>>
  BY DEF OpenMod, Doing, Others, modulator
<1>2. PICK d \in Devices :
        \/ Opens(c, <<d, "mod">>, "r", Configured(<<>>, <<>>))
        \/ Opens(c, <<d, "mod">>, "w", [does |-> "feed", next |-> 1])
  BY DEF OpenMod
<1> DEFINE node == <<d, "mod">>
           config == Configured(<<>>, <<>>)
           feed == [does |-> "feed", next |-> 1]
<1>3. CASE Opens(c, node, "r", config)
  <2>1. /\ \A e \in Clients : job'[e] = IF e = c THEN config ELSE job[e]
        /\ DOMAIN job' = Clients /\ opened \subseteq opened'
    BY <1>3 DEF Opens, ModHolds
  <2>2. \A e \in Clients : /\ Feeder(e)' <=> Feeder(e)
                           /\ Feeder(e) => job'[e] = job[e]
    BY <1>1, <2>1 DEF Feeder, Configured
  <2>3. \A e \in Clients : Feeder(e)' => HoldsMod(e)'
    BY <2>1, <2>2 DEF ModHolds, HoldsMod
  <2>4. PlanOk(config.plan, config.asked)
    BY DEF PlanOk, Configured
  <2>5. \A e \in Clients : job'[e].does = "config" => PlanOk(job'[e].plan, job'[e].asked)
    BY <2>1, <2>4 DEF ModHolds
  <2>6. StreamHolds'
    <3>1. \A e \in Clients : job'[e].does \in {"feed", "write"} => job'[e] = job[e]
      BY <2>1 DEF Configured
    <3> QED BY <1>1, <2>2, <3>1 DEF ModHolds, StreamHolds
  <2> QED BY <1>1, <2>1, <2>2, <2>3, <2>5, <2>6 DEF ModHolds
<1>4. CASE Opens(c, node, "w", feed)
  <2> DEFINE new == Descriptor(c, node, "w")
  <2>1. /\ \A e \in Clients : job'[e] = IF e = c THEN feed ELSE job[e]
        /\ DOMAIN job' = Clients /\ opened' = opened \cup {new}
        /\ node \in nodes /\ node \in Nodes /\ Writers(node) = {}
    BY <1>4 DEF Opens, ModHolds, Allowed, Exclusive
  <2>2. \A e \in Clients : ~Feeder(e)
    <3> SUFFICES ASSUME NEW e \in Clients, Feeder(e) PROVE FALSE
      OBVIOUS
    <3>1. PICK f \in opened : f.mode = "w" /\ f.node \in Nodes /\ f.node[2] = "mod"
      BY DEF ModHolds, HoldsMod
    <3>2. f.node = node
      BY <2>1, <3>1, DevicesAssumption
    <3> QED BY <2>1, <3>1, <3>2 DEF Writers
  <2>3. \A e \in Clients : Feeder(e)' <=> e = c
    BY <2>1, <2>2 DEF Feeder
  <2>4. HoldsMod(c)'
    <3>1. new.by = c /\ new.mode = "w" /\ new.node = node /\ new \in opened'
      BY <2>1 DEF Descriptor
    <3>2. node[2] = "mod"
      OBVIOUS
    <3> HIDE DEF new, node
    <3> QED BY <2>1, <3>1, <3>2 DEF HoldsMod
  <2>5. stream' = <<>> /\ done' = {}
    BY <1>1, <2>2 DEF ModHolds, StreamHolds
  <2>6. StreamHolds'
    <3>1. \A e \in Clients : job'[e].does \in {"feed", "write"} => e = c /\ job'[e] = feed
      BY <2>1, <2>2 DEF Feeder
    <3> QED BY <2>3, <2>5, <3>1, NothingTaken DEF StreamHolds
  <2>7. \A e \in Clients : job'[e].does = "config" => job'[e] = job[e]
    BY <2>1
  <2> QED BY <1>1, <2>1, <2>3, <2>4, <2>6, <2>7 DEF ModHolds
<1> QED BY <1>2, <1>3, <1>4

LEMMA PlanFrame ==
    ASSUME NEW regions \in Plans, SetupChannels(regions) # None
    PROVE  PlanOk(SetupChannels(regions), regions)
<1> DEFINE n == Len(regions)
           plan == [i \in 1 .. n |-> regions[i] \cup FramedAt(n, i)]
<1>1. regions \in Seq(SUBSET STRING) /\ n \in Nat /\ DOMAIN regions = 1 .. n
  BY ModAssumption
<1>2. SetupChannels(regions) = plan
  BY <1>1 DEF SetupChannels
<1>3. Len(plan) = n /\ DOMAIN plan = 1 .. n
  <2> HIDE DEF n
  <2>2. plan \in Seq({regions[i] \cup FramedAt(n, i) : i \in 1 .. n})
    BY <1>1
  <2>3. DOMAIN plan = 1 .. n
    OBVIOUS
  <2> HIDE DEF plan
  <2> QED BY <1>1, <2>2, <2>3
<1>4. \A i \in 1 .. n : /\ regions[i] \cup {"valid"} \subseteq plan[i]
                        /\ "first" \in plan[i] <=> i = 1 \/ "first" \in regions[i]
                        /\ "last" \in plan[i] <=> i = n \/ "last" \in regions[i]
  BY <1>1 DEF FramedAt
<1> QED BY <1>2, <1>3, <1>4 DEF PlanOk

LEMMA ConfigureKeeps == ASSUME ModHolds, NEW c \in Clients, Configure(c) PROVE ModHolds'
<1>1. PICK regions \in Plans :
        /\ SetupChannels(regions) # None
        /\ Goes(c, Configured(SetupChannels(regions), regions))
  BY DEF Configure
<1> DEFINE next == Configured(SetupChannels(regions), regions)
<1>2. /\ job[c].does = "config" /\ UNCHANGED <<nodes, opened, stream, done>>
      /\ \A e \in Clients : job'[e] = IF e = c THEN next ELSE job[e]
      /\ DOMAIN job' = Clients
  BY <1>1 DEF Configure, Doing, ModUnchanged, modulator, Goes, ModHolds
<1>3. next.does = "config" /\ PlanOk(next.plan, next.asked)
  BY <1>1, PlanFrame DEF Configured
<1> HIDE DEF next
<1>4. \A e \in Clients : /\ Feeder(e)' <=> Feeder(e)
                         /\ Feeder(e) => job'[e] = job[e]
                         /\ HoldsMod(e)' <=> HoldsMod(e)
  BY <1>2, <1>3 DEF Feeder, HoldsMod
<1>5. StreamHolds'
  <2>1. \A e \in Clients : job'[e].does \in {"feed", "write"} => job'[e] = job[e]
    BY <1>2, <1>3
  <2> QED BY <1>2, <1>4, <2>1 DEF ModHolds, StreamHolds
<1> QED BY <1>2, <1>3, <1>4, <1>5 DEF ModHolds

LEMMA CloseModKeeps == ASSUME ModHolds, NEW c \in Clients, CloseMod(c) PROVE ModHolds'
<1>1. /\ job[c].does \in {"config", "feed"} /\ UNCHANGED nodes
      /\ \A e \in Clients : job'[e] = IF e = c THEN Idle ELSE job[e]
      /\ DOMAIN job' = Clients
      /\ \A f \in opened : f.by # c => f \in opened'
  BY DEF CloseMod, ModUnchanged, Closes, ModHolds
<1>2. Idle.does = "idle"
  BY DEF Idle
<1>3. \A e \in Clients : Feeder(e)' <=> Feeder(e) /\ e # c
  BY <1>1, <1>2 DEF Feeder
<1>4. \A e \in Clients : Feeder(e)' => HoldsMod(e)'
  BY <1>1, <1>3 DEF ModHolds, HoldsMod
<1>5. \A e \in Clients : job'[e].does \in {"config", "feed", "write"} => job'[e] = job[e]
  BY <1>1, <1>2
<1>6. StreamHolds'
  <2>1. CASE job[c].does = "feed"
    <3>1. stream' = <<>> /\ done' = {} /\ Feeder(c)
      BY <2>1 DEF CloseMod, Doing, Feeder
    <3>2. \A e \in Clients : ~Feeder(e)'
      BY <1>3, <3>1, FeedingAlone
    <3> QED BY <3>1, <3>2 DEF StreamHolds, Feeder
  <2>2. CASE job[c].does = "config"
    <3>1. UNCHANGED <<stream, done>> /\ ~Feeder(c)
      BY <2>2 DEF CloseMod, Doing, modulator, Feeder
    <3> QED BY <1>3, <1>5, <3>1 DEF ModHolds, StreamHolds
  <2> QED BY <1>1, <2>1, <2>2
<1> QED BY <1>1, <1>3, <1>4, <1>5, <1>6 DEF ModHolds

LEMMA WriteKeeps ==
    ASSUME ModHolds, NEW c \in Clients, Write(c) \/ WriteAll(c)
    PROVE  ModHolds'
<1>1. Feeder(c) /\ UNCHANGED nodes
  BY DEF Write, WriteAll, Doing, Feeder, ModUnchanged
<1>2. CASE Write(c)
  <2> DEFINE b == job[c].next
             next == [does |-> "write", buffer |-> b, rest |-> Buffer[b]]
  <2>1. /\ b \in DOMAIN Buffer /\ Goes(c, next) /\ UNCHANGED <<stream, done>>
        /\ Before(b, stream, done)
    BY <1>2 DEF Write, Doing, modulator, ModHolds, StreamHolds
  <2>2. During(next, stream, done)
    BY <2>1, BeginsBuffer
  <2> QED BY <1>1, <2>1, <2>2, FeederGoesOn
<1>3. CASE WriteAll(c)
  <2> DEFINE j == job[c]
  <2>1. j.does = "write" /\ During(j, stream, done)
    BY <1>3 DEF WriteAll, Doing, ModHolds, StreamHolds
  <2>2. Feeding(c).does = "feed" /\ Feeding(c).next = j.buffer + 1
    BY DEF Feeding
  <2>3. ASSUME NEW n \in 1 .. Len(j.rest), Accept(c, n) PROVE ModHolds'
    <3> DEFINE next == [j EXCEPT !.rest = SubSeq(@, n + 1, Len(@))]
    <3>1. /\ stream' = stream \o SubSeq(j.rest, 1, n) /\ done' = done
          /\ Goes(c, next) /\ next.does = "write"
      BY <2>1, <2>3 DEF Accept
    <3>2. During(next, stream', done')
      BY <2>1, <3>1, TakesMore
    <3> QED BY <1>1, <3>1, <3>2, FeederGoesOn
  <2>4. CASE Fail(c)
    <3>1. Before(j.buffer + 1, stream', done')
      BY <2>1, <2>4 DEF Fail, During
    <3> QED BY <1>1, <2>2, <2>4, <3>1, FeederGoesOn DEF Fail
  <2>5. CASE Written(c)
    <3>1. Before(j.buffer + 1, stream', done')
      BY <2>1, <2>5, EndsBuffer DEF Written
    <3> QED BY <1>1, <2>2, <2>5, <3>1, FeederGoesOn DEF Written
  <2> QED BY <1>3, <2>3, <2>4, <2>5 DEF WriteAll
<1> QED BY <1>2, <1>3

LEMMA PlugKeeps == ASSUME ModHolds, NEW node \in Pluggable, Plug(node) PROVE ModHolds'
<1>1. UNCHANGED <<opened, job, stream, done>> /\ nodes' \subseteq Nodes
  BY DevicesAssumption DEF Plug, modulator, ModHolds
<1>2. \A c \in Clients : (Feeder(c)' <=> Feeder(c)) /\ (HoldsMod(c)' <=> HoldsMod(c))
  BY <1>1 DEF Feeder, HoldsMod
<1>3. StreamHolds'
  BY <1>1, <1>2 DEF ModHolds, StreamHolds
<1> QED BY <1>1, <1>2, <1>3 DEF ModHolds

(* What a thread that stops feeding leaves, or what no thread has fed yet, is
   nothing; else the stream is of the buffers before the one that is next. *)
LEMMA ModHoldsServes == ASSUME ModHolds PROVE ModulatorServed
<1>1. \A next : Before(next, stream, done) => StreamWhole
  BY DEF Before, Follows, WholeIn, TakenIn, StreamWhole, TakenWhole, Taken
<1>2. StreamWhole
  <2>1. CASE \A c \in Clients : ~Feeder(c)
    BY <2>1 DEF ModHolds, StreamHolds, StreamWhole
  <2>2. ASSUME NEW c \in Clients, Feeder(c) PROVE StreamWhole
    BY <1>1, <2>2 DEF ModHolds, StreamHolds, Feeder, During
  <2> QED BY <2>1, <2>2
<1>3. PlanFramed
  BY DEF ModHolds, PlanOk, PlanFramed, Doing
<1> QED BY <1>2, <1>3 DEF ModulatorServed

(* Whichever writes take a piece only, are refused or end in the middle, and
   whoever opens the modulator next, the modulator gets the buffers in order, each
   from its beginning and every piece once, those write_all answered Ok for to
   their end, and a plan that its first region opens and its last one closes,
   whatever flags the regions came with (write_all, setup_channels_cmd).   *)
THEOREM ModulatorIsServed == Spec => []ModulatorServed
<1>1. Init => ModHolds
  BY DEF Init, ModHolds, StreamHolds, Feeder, Idle
<1>2. ModHolds /\ [Next]_vars => ModHolds'
  <2> SUFFICES ASSUME ModHolds, [Next]_vars PROVE ModHolds'
    OBVIOUS
  <2>1. ASSUME NEW c \in Clients, Client(c) PROVE ModHolds'
    BY <2>1, ProbingElsewhere, UsingElsewhere, ElsewhereKeeps, OpenModKeeps,
       ConfigureKeeps, CloseModKeeps, WriteKeeps DEF Client
  <2>2. CASE UNCHANGED vars
    BY <2>2 DEF vars, ModHolds, StreamHolds, Feeder, HoldsMod
  <2> QED BY <2>1, <2>2, PlugKeeps DEF Next
<1> QED BY <1>1, <1>2, ModHoldsServes, PTL DEF Spec
=============================================================================
