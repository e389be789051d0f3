-------------------------- MODULE ConditionalAccess --------------------------
(***************************************************************************)
(* The Conditional Access resource of src/ca/resource/                     *)
(* conditional_access.rs: the registry of desired programs, and what each  *)
(* session has selected, against the list the module keeps by the CA_PMT   *)
(* objects that reach it (EN 50221: Only replaces the list, Add extends    *)
(* it, Update changes an entry).                                           *)
(*                                                                         *)
(* A program is what its CA descriptors say: a version and CA systems. The *)
(* commands reach the module in order, and what becomes of one is decided  *)
(* when it is queued. A broken write ends the call and, through the        *)
(* controller, every session; but the short write a resource's callback    *)
(* meets is reported as a malformed object, and the frame it drops is the  *)
(* oldest of the slot: a CA_PMT any session queued earlier, of which the   *)
(* host never hears again. In the answer to CA_INFO it also cuts the       *)
(* restore short. A CA_PMT that lost a frame is no object to the module.   *)
(***************************************************************************)
EXTENDS Naturals

CONSTANTS ProgramNumbers, \* the programs there may be
          Contents,       \* what a program map section may hold
          Systems,        \* CA systems (CAIDs)
          Sessions,       \* resource sessions
          Lossy,          \* those whose CA_PMTs a short write may drop (bound)
          None            \* not desired, not selected, no CA_INFO yet

ASSUME AccessAssumption ==
    /\ ProgramNumbers \subseteq Nat
    /\ Contents \subseteq [version : Nat, systems : SUBSET Systems]
    /\ Lossy \subseteq Sessions
    /\ None \notin Contents
    /\ \A ids \in SUBSET Systems :
          /\ ids # None
          /\ \A c \in Contents : [c EXCEPT !.systems = @ \cap ids] # None

VARIABLES desired,   \* the desired programs
          open,      \* live sessions
          caids,     \* the CA systems each session confirmed
          selected,  \* the programs each session was last sent
          list,      \* the list the module keeps for each session
          cut,       \* a restore was cut short and not repeated (observer)
          missed     \* the programs of CA_PMTs the module missed and that
                     \* were not made up for since (observer)

accessVars == <<desired, open, caids, selected, list, cut, missed>>

NoPrograms == [n \in ProgramNumbers |-> None]

AccessInit == /\ desired = NoPrograms
              /\ open = {}
              /\ caids = [s \in Sessions |-> None]
              /\ selected = [s \in Sessions |-> NoPrograms]
              /\ list = [s \in Sessions |-> NoPrograms]
              /\ cut = [s \in Sessions |-> FALSE]
              /\ missed = [s \in Sessions |-> {}]

-----------------------------------------------------------------------------
\* build_ca_pmt(): the program as the systems ids can descramble it, or nothing.
Matches(content, ids) == content # None /\ content.systems \cap ids # {}
CaPmt(content, ids) == [content EXCEPT !.systems = @ \cap ids]

Selection(ids) ==
    [n \in ProgramNumbers |-> IF Matches(desired[n], ids) THEN desired[n] ELSE None]

\* The module's list after one CA_PMT.
Told(old, management, n, pmt) ==
    CASE management = "Only" -> [NoPrograms EXCEPT ![n] = pmt]
      [] management = "Add" -> [old EXCEPT ![n] = pmt]
      [] management = "Update" /\ old[n] # None -> [old EXCEPT ![n] = pmt]
      [] OTHER -> old

\* What is left of the programs a module missed after one more CA_PMT: an Only
\* makes up for all, an Update for nothing the module does not have.
StillMissed(old, management, n, pmt) ==
    CASE management = "Only" -> {}
      [] management = "Update" /\ pmt # None -> old
      [] OTHER -> old \ {n}

\* Seeded fault: a program beside others is sent as the only one.
ManagementOnly(sel, n) == IF sel[n] # None THEN "Update" ELSE "Only"

Management(sel, n) ==
    CASE sel[n] # None -> "Update"
      [] sel[n] = None /\ sel = NoPrograms -> "Only"
      [] OTHER -> "Add"

\* A link error in a command: recover_all() drops every session.
Recovered == /\ open' = {}
             /\ caids' = [s \in Sessions |-> None]
             /\ selected' = [s \in Sessions |-> NoPrograms]
             /\ list' = [s \in Sessions |-> NoPrograms]
             /\ cut' = [s \in Sessions |-> FALSE]
             /\ missed' = [s \in Sessions |-> {}]

\* One CA_PMT of program n for each of `told`, with the management code and
\* content given (send_apdu); the modules of `lost` never get theirs, for a frame
\* of it is dropped before it is written (flush_slot).
Commands(told, lost, management(_), n, pmt(_)) ==
    /\ list' = [s \in Sessions |->
          IF s \in told \ lost THEN Told(list[s], management(s), n, pmt(s)) ELSE list[s]]
    /\ missed' = [s \in Sessions |->
          CASE s \in lost -> missed[s] \cup {n}
            [] s \in told \ lost -> StillMissed(missed[s], management(s), n, pmt(s))
            [] OTHER -> missed[s]]

-----------------------------------------------------------------------------
\* Seeded fault: a program that matches no longer is left selected.
SetProgramKeeps(n, c) ==
    /\ desired[n] # c
    /\ desired' = [desired EXCEPT ![n] = c]
    /\ LET sends == {s \in Sessions : caids[s] # None /\ Matches(c, caids[s])}
           code(s) == Management(selected[s], n)
           pmt(s) == CaPmt(c, caids[s])
       IN /\ selected' = [s \in Sessions |->
                IF s \in sends THEN [selected[s] EXCEPT ![n] = c] ELSE selected[s]]
          /\ Commands(sends, {}, code, n, pmt)
    /\ UNCHANGED <<open, caids, cut>>

\* set_program(): every session that matches is sent the program, every other
\* that has it selected is told to drop it.
SetProgram(n, c) ==
    /\ desired[n] # c
    /\ desired' = [desired EXCEPT ![n] = c]
    /\ \/ LET sends == {s \in Sessions : caids[s] # None /\ Matches(c, caids[s])}
              told == sends \cup {s \in Sessions : selected[s][n] # None}
              code(s) == IF s \in sends THEN Management(selected[s], n) ELSE "Update"
              pmt(s) == IF s \in sends THEN CaPmt(c, caids[s]) ELSE None
          IN /\ selected' = [s \in Sessions |->
                   [selected[s] EXCEPT ![n] = IF s \in sends THEN c ELSE None]]
             /\ \E lost \in SUBSET (told \cap Lossy) : Commands(told, lost, code, n, pmt)
             /\ UNCHANGED <<open, caids, cut>>
       \/ Recovered

\* remove_program(): nothing is sent where the program is not selected.
RemoveProgram(n) ==
    /\ desired[n] # None
    /\ desired' = [desired EXCEPT ![n] = None]
    /\ \/ LET told == {s \in Sessions : selected[s][n] # None}
              code(s) == "Update"
              pmt(s) == None
          IN /\ selected' = [s \in Sessions |-> [selected[s] EXCEPT ![n] = None]]
             /\ \E lost \in SUBSET (told \cap Lossy) : Commands(told, lost, code, n, pmt)
             /\ UNCHANGED <<open, caids, cut>>
       \/ Recovered

\* on_open()
Open(s) == /\ s \notin open
           /\ open' = open \cup {s}
           /\ UNCHANGED <<desired, caids, selected, list, cut, missed>>

\* on_close(): the module forgets the session's list as well.
Close(s) == /\ s \in open
            /\ open' = open \ {s}
            /\ caids' = [caids EXCEPT ![s] = None]
            /\ selected' = [selected EXCEPT ![s] = NoPrograms]
            /\ list' = [list EXCEPT ![s] = NoPrograms]
            /\ cut' = [cut EXCEPT ![s] = FALSE]
            /\ missed' = [missed EXCEPT ![s] = {}]
            /\ UNCHANGED desired

LinkFails == Recovered /\ UNCHANGED desired

\* CA_INFO, synchronize_session(): the programs that match are sent, Only first
\* and Add after it; if none does, what was selected by the old list is
\* withdrawn.
Restores(s, ids) ==
    IF Selection(ids) # NoPrograms THEN {n \in ProgramNumbers : Selection(ids)[n] # None}
    ELSE {n \in ProgramNumbers : caids[s] # None /\ Matches(selected[s][n], caids[s])}

\* The Only is the lowest program of all that match.
OnlyArrives(ids, got) ==
    \E n \in got : /\ Selection(ids)[n] # None
                   /\ \A m \in ProgramNumbers : Selection(ids)[m] # None => n <= m

\* The module's list when it got the commands of `got`.
Restored(s, ids, got) ==
    [n \in ProgramNumbers |->
        CASE n \in got /\ Selection(ids)[n] # None -> CaPmt(Selection(ids)[n], ids)
          [] n \in got /\ Selection(ids)[n] = None -> None
          [] n \notin got /\ OnlyArrives(ids, got) -> None
          [] OTHER -> list[s][n]]

CaInfo(s, ids) ==
    /\ s \in open
    /\ caids' = [caids EXCEPT ![s] = ids]
    /\ selected' = [selected EXCEPT ![s] = Selection(ids)]
    /\ \E got \in SUBSET Restores(s, ids) :
          /\ s \in Lossy \/ got = Restores(s, ids)
          /\ list' = [list EXCEPT ![s] = Restored(s, ids, got)]
          /\ missed' = [missed EXCEPT ![s] =
                (IF OnlyArrives(ids, got) THEN Restores(s, ids)
                 ELSE @ \cup Restores(s, ids)
                        \cup {n \in ProgramNumbers : selected[s][n] # None}) \ got]
    /\ cut' = [cut EXCEPT ![s] = FALSE]
    /\ UNCHANGED <<desired, open>>

\* The same when a short write ends it: the commands that were queued by then
\* may still follow, the rest is never sent, and the session has its CA systems
\* but nothing selected.
CaInfoCut(s, ids) ==
    /\ s \in open \cap Lossy
    /\ Restores(s, ids) # {}
    /\ caids' = [caids EXCEPT ![s] = ids]
    /\ selected' = [selected EXCEPT ![s] = NoPrograms]
    /\ \E got \in SUBSET Restores(s, ids) :
          list' = [list EXCEPT ![s] = Restored(s, ids, got)]
    /\ cut' = [cut EXCEPT ![s] = TRUE]
    /\ missed' = [missed EXCEPT ![s] = ProgramNumbers]
    /\ UNCHANGED <<desired, open>>

AccessNext == \/ \E n \in ProgramNumbers : RemoveProgram(n) \/ \E c \in Contents : SetProgram(n, c)
              \/ \E s \in Sessions :
                    \/ Open(s) \/ Close(s)
                    \/ \E ids \in SUBSET Systems :
                          CaInfo(s, ids) \/ CaInfoCut(s, ids)
              \/ LinkFails

AccessSpec == AccessInit /\ [][AccessNext]_accessVars

-----------------------------------------------------------------------------
Entries == {None} \cup [version : Nat, systems : SUBSET Systems]

AccessTypeOK == /\ desired \in [ProgramNumbers -> Contents \cup {None}]
                /\ open \subseteq Sessions
                /\ caids \in [Sessions -> {None} \cup SUBSET Systems]
                /\ selected \in [Sessions -> [ProgramNumbers -> Contents \cup {None}]]
                /\ list \in [Sessions -> [ProgramNumbers -> Entries]]
                /\ cut \in [Sessions -> BOOLEAN]
                /\ missed \in [Sessions -> SUBSET ProgramNumbers]

\* A session without CA_INFO has nothing selected, and a selected program always
\* matches the CA systems of its session: the internal errors of set_program()
\* and remove_program() ("no longer has a matching CA descriptor", "without
\* confirmed CA_INFO") cannot occur, whatever was cut short.
SelectedMatches ==
    \A s \in Sessions, n \in ProgramNumbers :
        selected[s][n] # None =>
            s \in open /\ caids[s] # None /\ Matches(selected[s][n], caids[s])

\* Every session that told its CA systems works on exactly the desired programs
\* it can descramble: whatever the order of selections, withdrawals, CA_INFO
\* objects and reconnections, and whichever failed between the registry and the
\* modules.
SelectionComplete ==
    \A s \in Sessions : caids[s] # None /\ ~cut[s] => selected[s] = Selection(caids[s])

\* A module keeps of each program what the host believes it keeps, unless a
\* CA_PMT of that program was dropped by a short write nobody recovered from:
\* no Only wipes another program out, no Update misses, nothing stays behind
\* after a new CA_INFO, one lost CA_PMT leaves the other programs in order, and
\* the next Only, CA_INFO or withdrawal that arrives makes up for it.
ModuleFollows ==
    \A s \in Sessions, n \in ProgramNumbers :
        n \notin missed[s] => list[s][n] = IF selected[s][n] = None THEN None
                                           ELSE CaPmt(selected[s][n], caids[s])
=============================================================================
