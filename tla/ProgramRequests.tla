--------------------------- MODULE ProgramRequests ---------------------------
(***************************************************************************)
(* What the host promises about program selection, whatever the pacing:    *)
(* requests for a program coalesce and the last one wins; a withdrawal     *)
(* that was requested is applied before a later selection of the same      *)
(* program; nothing else ever changes the selected programs.               *)
(*                                                                         *)
(* The abstraction of the CA_PMT change queue of src/ca/pacer.rs,      *)
(* which CaPmtPacer.tla is shown to implement.                             *)
(***************************************************************************)
CONSTANTS Programs,    \* program numbers
          Versions,    \* contents of a program map section
          NoProgram    \* "not selected"

VARIABLES wanted,      \* the outcome of the last request for each program
          programs,    \* the programs applied to the CA registry
          pending,     \* programs with a request not applied yet
          owed         \* programs whose withdrawal is still to be applied

vars == <<wanted, programs, pending, owed>>

Init == /\ wanted = [n \in Programs |-> NoProgram]
        /\ programs = [n \in Programs |-> NoProgram]
        /\ pending = {}
        /\ owed = {}

Select(n, v) == /\ wanted' = [wanted EXCEPT ![n] = v]
                /\ pending' = pending \cup {n}
                /\ UNCHANGED <<programs, owed>>

Withdraw(n) == /\ wanted' = [wanted EXCEPT ![n] = NoProgram]
               /\ pending' = pending \cup {n}
               /\ owed' = owed \cup {n}
               /\ UNCHANGED programs

ApplyWithdrawal(n) ==
    /\ n \in owed
    /\ programs' = [programs EXCEPT ![n] = NoProgram]
    /\ owed' = owed \ {n}
    /\ \/ pending' = pending \ {n} /\ wanted[n] = NoProgram
       \/ pending' = pending       /\ wanted[n] # NoProgram
    /\ UNCHANGED wanted

ApplySelection(n) ==
    /\ n \in pending \ owed
    /\ programs' = [programs EXCEPT ![n] = wanted[n]]
    /\ pending' = pending \ {n}
    /\ UNCHANGED <<wanted, owed>>

Next == \E n \in Programs : \/ \E v \in Versions : Select(n, v)
                            \/ Withdraw(n)
                            \/ ApplyWithdrawal(n)
                            \/ ApplySelection(n)

Spec == Init /\ [][Next]_vars
=============================================================================
