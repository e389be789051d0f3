----------------------------- MODULE MCFrontend -----------------------------
EXTENDS Frontend

(* Code 2 is the last state the shift register of five bits goes through. *)
MCRequests ==
    {Request("DvbS2", "a", Mis("Root", 2, 7), Unset, Unset),
     Request("DvbT2", "c", Unset, Unset, 3)}

MCReports ==
    {[measure \in Measures |-> <<>>],
     [measure \in Measures |-> << [scale |-> "Decibel", value |-> -400],
                                  [scale |-> "Counter", value |-> 3] >>]}

(* Both sides of each clamp, and steps of one in between. *)
MCDecibels == {-851, -850, -849, -400, -61, -60, -1, 0, 1, 149, 150, 279, 280}
=============================================================================
