------------------------------ MODULE Frontend ------------------------------
(***************************************************************************)
(* FeDevice of src/src/fe/mod.rs, on a frontend another program may have   *)
(* used before. One thread of the application clears the frontend, points  *)
(* it at a transponder, tunes it and takes its events; a second one reads  *)
(* the statistics (every method takes &self). Each ioctl is a step of its  *)
(* own and may fail; the frontend gains and loses its lock at any moment,  *)
(* and queues an event each time.                                          *)
(*                                                                         *)
(* The event queue is the number of events queued before the last drain    *)
(* began and the number queued since; it is first in, first out.           *)
(***************************************************************************)
EXTENDS TuneRequests, SignalLevels

CONSTANTS
    FeMaxEvent,     \* FE_MAX_EVENT
    ApiVersions,    \* the words DTV_API_VERSION may hold
    Requests,       \* the requests the application tunes to
    Reports,        \* what a driver may report: a measure's stats
    Decibels,       \* the levels a driver may report (a bound)
    Default,        \* a property's value after DTV_CLEAR
    MaxSets,        \* FE_SET_PROPERTYs between two clears (a bound)
    None

ASSUME FrontendAssumption ==
    {FeMaxEvent, MaxSets} \subseteq Nat \ {0} /\ Decibels \subseteq Int

(* TuneRequest is an enum: only a DVB-S2 request has Mis, only a DVB-T2 one  *)
(* a stream id of its own.                                                   *)
ASSUME RequestAssumption ==
    /\ Default \notin Nat
    /\ \A r \in Requests :
          /\ r.kind \in {"DvbS", "DvbS2", "DvbC", "DvbT", "DvbT2", "Atsc", "IsdbT"}
          /\ r.mis # Unset => r.kind = "DvbS2" /\ r.mis.code \in Nat
          /\ r.stream # Unset => r.kind = "DvbT2"

VARIABLES
    api,            \* FeDevice::api_version
    task,           \* the call the application's thread is in
    cache, sets,    \* the property cache, FE_SET_PROPERTYs since it was cleared
    tuned,          \* the last DTV_TUNE: request, cleared before, cache at that time
    old, new,       \* queued events, by whether the last drain found them
    overflow,       \* the queue has dropped an event since the last read
    nonblock,       \* O_NONBLOCK of the file
    swept,          \* the last drain ran to its end
    lockedOn,       \* the request whose signal the frontend is locked to
    reading         \* the get_stats() of the second thread

propertyVars == <<cache, sets, tuned>>
queueVars == <<old, new, overflow>>
drainVars == <<nonblock, swept>>
vars == <<api, task, propertyVars, queueVars, drainVars, lockedOn, reading>>

Idle == [call |-> "None"]
Names == {"DeliverySystem", "Frequency", "Modulation", "Inversion", "SymbolRate",
          "InnerFec", "Pilot", "Rolloff", "BandwidthHz", "CodeRateHp", "CodeRateLp",
          "GuardInterval", "TransmissionMode", "Hierarchy", "StreamId",
          "ScramblingSequenceIndex"}
Fresh == [n \in Names |-> Default]

(* get_info(): the version is a major and a minor byte. *)
ApiVersion(word) == [major |-> word \div 256, minor |-> word % 256]
Older(a, b) == a.major < b.major \/ (a.major = b.major /\ a.minor < b.minor)
Api_5_11 == [major |-> 5, minor |-> 11]

Init == /\ api \in {ApiVersion(word) : word \in ApiVersions}
        /\ task = Idle
        /\ cache = [n \in Names |-> "Stale"]
        /\ sets = 1
        /\ tuned = None
        /\ old \in 0 .. FeMaxEvent /\ new = 0
        /\ overflow \in {FALSE, old = FeMaxEvent}
        /\ nonblock = FALSE
        /\ swept = FALSE
        /\ lockedOn = None
        /\ reading = Idle

-----------------------------------------------------------------------------
(* Properties.                                                               *)
(* set_properties(): what an old API does not know is left out, and never    *)
(* reaches the cache.                                                        *)
Known(name) == name = "ScramblingSequenceIndex" => ~Older(api, Api_5_11)

(* The cache after the first n properties of a sequence. *)
Cached(properties, n) ==
    [name \in Names |->
        LET with == {i \in 1 .. n : properties[i].name = name /\ Known(name)}
        IN  IF with = {} THEN cache[name]
            ELSE properties[CHOOSE i \in with : \A j \in with : j <= i].value]

(* FE_SET_PROPERTY applies the properties in order; DTV_TUNE acts on what  *)
(* the cache holds when its turn comes. A failure leaves what came first.  *)
SetProperties(r, properties) ==
    /\ sets' = sets + 1
    /\ \/ /\ cache' = Cached(properties, Len(properties))
          /\ tuned' = [of |-> r, cleared |-> sets = 0,
                       properties |-> Cached(properties,
                           CHOOSE i \in DOMAIN properties : properties[i].name = "Tune")]
          /\ lockedOn' = None
       \/ /\ \E n \in 0 .. Len(properties) - 1 : cache' = Cached(properties, n)
          /\ UNCHANGED <<tuned, lockedOn>>

(* tune(): a satellite request carries the frequency setup_sec() returned, *)
(* which here, like every other parameter, is the request's id.            *)
Tune == /\ task = Idle
        /\ sets < MaxSets
        /\ \E r \in Requests :
              SetProperties(r, Properties(r, r.id))
        /\ UNCHANGED <<api, task, queueVars, drainVars, reading>>

-----------------------------------------------------------------------------
(* Events.                                                                   *)
(* A read of the queue: an overflow is reported first and on its own. *)
TakesOverflow == overflow /\ overflow' = FALSE /\ UNCHANGED <<old, new>>
TakesOld == ~overflow /\ old > 0 /\ old' = old - 1 /\ UNCHANGED <<new, overflow>>
TakesNew == ~overflow /\ old = 0 /\ new > 0 /\ new' = new - 1 /\ UNCHANGED <<old, overflow>>

Dequeue == TakesOverflow \/ TakesOld \/ TakesNew

GetEvent == /\ task = Idle
            /\ Dequeue
            /\ UNCHANGED <<api, task, propertyVars, drainVars, lockedOn, reading>>

(* The kernel queues an event; a full queue drops its oldest. *)
HasRoom == old + new < FeMaxEvent /\ new' = new + 1 /\ UNCHANGED <<old, overflow>>
DropsOld == /\ old + new = FeMaxEvent /\ old > 0
            /\ overflow' = TRUE /\ old' = old - 1 /\ new' = new + 1
DropsNew == /\ old + new = FeMaxEvent /\ old = 0
            /\ overflow' = TRUE /\ UNCHANGED <<old, new>>

Queued == HasRoom \/ DropsOld \/ DropsNew

Locks == /\ tuned # None /\ lockedOn = None
         /\ lockedOn' = tuned.of
         /\ Queued
         /\ UNCHANGED <<api, task, propertyVars, drainVars, reading>>

Loses == /\ lockedOn # None
         /\ lockedOn' = None
         /\ Queued
         /\ UNCHANGED <<api, task, propertyVars, drainVars, reading>>

(* Another change of the status, a signal without a lock. *)
Flickers == /\ Queued
            /\ UNCHANGED <<api, task, propertyVars, drainVars, lockedOn, reading>>

(* drain_events() up to its loop: a descriptor whose flags cannot be read  *)
(* or set is not drained.                                                  *)
StartDrain(reads) ==
    \/ /\ task' = [call |-> "Drain", left |-> reads, nonblock |-> nonblock]
       /\ nonblock' = TRUE
       /\ old' = old + new /\ new' = 0
       /\ swept' = FALSE
    \/ /\ task' = Idle
       /\ swept' = FALSE
       /\ UNCHANGED <<old, new, nonblock>>

(* Seeded fault: as many reads as the queue holds. *)
SeededReads == FeMaxEvent

DrainReads == FeMaxEvent + 1

DrainEvents == /\ task = Idle
               /\ StartDrain(DrainReads)
               /\ UNCHANGED <<api, propertyVars, overflow, lockedOn, reading>>

(* clear(): whatever DTV_CLEAR says, the events are drained, and whatever  *)
(* the drain says is ignored.                                              *)
Clear == /\ task = Idle
         /\ \/ cache' = Fresh /\ sets' = 0
            \/ UNCHANGED <<cache, sets>>
         /\ StartDrain(DrainReads)
         /\ UNCHANGED <<api, tuned, overflow, lockedOn, reading>>

(* Flags that could be set once can be set back. *)
EndDrain(complete) == /\ task' = Idle
                      /\ nonblock' = task.nonblock
                      /\ swept' = complete

DrainRead == /\ task.call = "Drain" /\ task.left > 0
             /\ Dequeue
             /\ task' = [task EXCEPT !.left = @ - 1]
             /\ UNCHANGED <<api, propertyVars, drainVars, lockedOn, reading>>

DrainEnds == /\ task.call = "Drain"
             /\ \/ task.left = 0
                \/ ~overflow /\ old + new = 0
             /\ EndDrain(TRUE)
             /\ UNCHANGED <<api, propertyVars, queueVars, lockedOn, reading>>

(* A read that fails for another reason ends the loop as an empty queue does. *)
DrainBreaks == /\ task.call = "Drain" /\ task.left > 0
               /\ EndDrain(FALSE)
               /\ UNCHANGED <<api, propertyVars, queueVars, lockedOn, reading>>

-----------------------------------------------------------------------------
(* FeStats::read()                                                           *)
Statuses == IF lockedOn # None THEN {{"HAS_SIGNAL", "HAS_CARRIER", "HAS_LOCK"}}
            ELSE {{}, {"HAS_SIGNAL", "HAS_CARRIER"}}

(* The DVBv3 ioctls the normalisation falls back to, in their order. *)
Fallbacks(status, system, report) ==
    SelectSeq(<<"Signal", "Cnr", "Ber", "Unc">>, LAMBDA measure :
        /\ Flag(measure) \in status
        /\ CASE measure = "Signal" -> SignalRelative(status, report[measure]) = Missing
             [] measure = "Cnr" ->
                   /\ CnrRelative(status, system, "Qpsk", report[measure]) = Missing
                   /\ ~GivesUp(status, system, "Qpsk", report[measure])
             [] OTHER -> Counter(report[measure]) = Missing)

ReadStatus == /\ reading.call = "None"
              /\ \E status \in Statuses :
                    reading' = [call |-> "Status", status |-> status, lockedOn |-> lockedOn]
              /\ UNCHANGED <<api, task, propertyVars, queueVars, drainVars,
                             lockedOn>>

GetProperties ==
    /\ reading.call = "Status"
    /\ \E report \in Reports :
          reading' = [call |-> "Properties", status |-> reading.status,
                      lockedOn |-> reading.lockedOn, system |-> cache["DeliverySystem"],
                      tuned |-> IF reading.lockedOn = None THEN None ELSE tuned.of,
                      left |-> Fallbacks(reading.status, cache["DeliverySystem"], report)]
    /\ UNCHANGED <<api, task, propertyVars, queueVars, drainVars, lockedOn>>

(* One DVBv3 ioctl; its failure leaves the value out. *)
Fallback == /\ reading.call = "Properties" /\ reading.left # <<>>
            /\ reading' = [reading EXCEPT !.left = Tail(@)]
            /\ UNCHANGED <<api, task, propertyVars, queueVars, drainVars,
                           lockedOn>>

(* get_stats() returns; or FE_READ_STATUS or FE_GET_PROPERTY has failed. *)
StatsReturn == /\ reading.call # "None"
               /\ reading.call = "Properties" => reading.left = <<>>
               /\ reading' = Idle
               /\ UNCHANGED <<api, task, propertyVars, queueVars, drainVars,
                              lockedOn>>

-----------------------------------------------------------------------------
Application == \/ Tune \/ GetEvent \/ DrainEvents \/ Clear \/ DrainRead \/ DrainEnds
               \/ DrainBreaks
Kernel == Locks \/ Loses \/ Flickers
Monitor == ReadStatus \/ GetProperties \/ Fallback \/ StatsReturn

Next == Application \/ Kernel \/ Monitor

Spec == Init /\ [][Next]_vars
-----------------------------------------------------------------------------
(* Properties.                                                               *)
(* src/src/fe/mod.rs:184-190: a drain that runs to its end has taken every  *)
(* event it found, overflow or not, however many events arrive meanwhile;   *)
(* and the device blocks again after it.                                    *)
DrainLeavesNoTrace == task.call # "Drain" => (swept => old = 0) /\ ~nonblock

(* The parameters each kind of request names. *)
Named == [DvbS |-> {"Modulation", "Inversion", "SymbolRate", "InnerFec"},
          DvbS2 |-> {"Modulation", "Inversion", "SymbolRate", "InnerFec", "Pilot",
                     "Rolloff"},
          DvbC |-> {"Modulation", "Inversion", "SymbolRate", "InnerFec"},
          DvbT |-> {"Modulation", "BandwidthHz", "Inversion", "CodeRateHp", "CodeRateLp",
                    "GuardInterval", "TransmissionMode", "Hierarchy"},
          DvbT2 |-> {"Modulation", "BandwidthHz", "Inversion", "CodeRateHp",
                     "GuardInterval", "TransmissionMode"},
          Atsc |-> {"Modulation", "Inversion"},
          IsdbT |-> {"BandwidthHz", "Inversion"}]

Scrambled(r, value) ==
    IF r.kind # "DvbS2" \/ r.mis = Unset \/ Older(api, Api_5_11) THEN value = Default
    ELSE IF r.mis.mode = "Root"
    THEN IF Masked(r.mis.code) = 0 THEN value = Default
         ELSE value # Default /\ PlsState[value] = Masked(r.mis.code)
    ELSE value = Masked(r.mis.code)

(* src/src/fe/mod.rs:307-309: a tune after a clear acts on exactly what its *)
(* request says and on the defaults for the rest, nothing of the requests   *)
(* before it or of the program that had the frontend before, and nothing    *)
(* of the request comes too late for DTV_TUNE; a root PLS code is turned    *)
(* into the index at which the shift register holds it (tune.rs:84-108).    *)
TunedExactly ==
    tuned # None /\ tuned.cleared =>
        LET r == tuned.of
            is == tuned.properties
        IN  /\ is["DeliverySystem"] = System(r) /\ is["Frequency"] = r.id
            /\ \A n \in Named[r.kind] : is[n] = r.id
            /\ is["StreamId"] = IF r.mis # Unset THEN r.mis.stream
                                ELSE IF r.stream # Unset THEN r.stream ELSE Default
            /\ Scrambled(r, is["ScramblingSequenceIndex"])
            /\ \A n \in Names \ (Named[r.kind] \cup {"DeliverySystem", "Frequency",
                                      "StreamId", "ScramblingSequenceIndex"}) :
                  is[n] = Default

(* src/src/fe/stats.rs:234-349: whatever level a driver reports under the   *)
(* status and the delivery system just read, a level in percent is one, and *)
(* a better level is never shown as a worse one.                            *)
Rises(shown) ==
    \A v \in DOMAIN shown :
        /\ shown[v] \in 0 .. 100
        /\ \A w \in DOMAIN shown : w >= v => shown[w] >= shown[v]

RelativeLevels ==
    reading.call = "Properties" /\ reading.left = <<>> =>
        LET report(v) == <<[scale |-> "Decibel", value |-> v]>>
            signal == [v \in Decibels |-> SignalRelative(reading.status, report(v))]
            cnr == [v \in Decibels |->
                        CnrRelative(reading.status, reading.system, "Qpsk", report(v))]
        IN  /\ Flag("Signal") \in reading.status => Rises(signal)
            /\ Flag("Cnr") \in reading.status /\ CnrHi(reading.system, "Qpsk") # Missing
               => Rises(cnr)

(* src/src/fe/mod.rs:376-380, src/src/fe/stats.rs:47-50: all values of a    *)
(* FeStats belong to the same point in time; so one with a lock does not    *)
(* show the delivery system of a tune the lock has not been achieved under. *)
StatsConsistent ==
    /\ reading.call = "Properties" /\ reading.lockedOn # None
    /\ reading.system = System(reading.tuned)
    => reading.tuned = reading.lockedOn
=============================================================================
