------------------------------ MODULE MCDevices ------------------------------
EXTENDS Devices, TLC

(* One device with a ci node that comes and goes over a sec node, one whose
   driver does not survive NET_ADD_IF and whose demux comes and goes.      *)
MCNodes ==
    {1} \X {"frontend", "demux", "dvr", "net", "ci", "sec", "mod"}
        \cup {2} \X {"frontend", "demux", "dvr"}
MCPluggable == {<<1, "ci">>, <<2, "demux">>}
MCVendor == [node \in MCNodes |-> IF node[2] = "sec" THEN "TBS" ELSE "DD"]
MCPids == {8192, 8193}

(* Plans of every size at and beyond the limits, and one whose regions come with
   flags in the wrong places.                                              *)
MCPlans == {[i \in 1 .. n |-> {}] : n \in {0, 1, 4, 5}}
               \cup {<<{"last"}, {"first"}, {}>>}

(* Two packets, two pieces each, and one more packet.                      *)
MCBuffer == <<[i \in 1 .. 3 |-> <<1, i>>], <<>>, [i \in 1 .. 2 |-> <<3, i>>]>>

MCSymmetry == Permutations(Clients)
=============================================================================
