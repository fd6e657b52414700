------------------------------ MODULE PerfBackend ------------------------------
(***************************************************************************)
(* LinuxPerfBackend (bench/perf.rs, bench/perf_memory.rs) over the windows *)
(* of one standard case: the fixed-chunk warm-up windows first, then the   *)
(* measured samples, all with the same backend.                            *)
(*                                                                         *)
(* Each window is prepare(), begin_prepared(), end(), collect().  What the *)
(* kernel refuses (a counter that does not open, a group that is not       *)
(* scheduled, a controller that cannot be read) is a choice of the step    *)
(* that asks for it.  What the backend learns from it stays for the later  *)
(* windows, and decides how the result is labelled when it is persisted.   *)
(***************************************************************************)
EXTENDS Integers, FiniteSets, Sequences

CONSTANTS
    Configurations, \* the configurations a case may run with
    Tasks,          \* the threads a PMU scope may contain
    Controllers,    \* the advertised IMC targets
    MaxWarmUps      \* bound: windows of the fixed-chunk warm-up

\* fixedScope: is the scope the calling thread only?  collectsCpu:
\* counter_profile.collects_cpu_counters()
Configuration ==
    [fixedScope : BOOLEAN, collectsCpu : BOOLEAN,
     energy : {"none", "package", "package_and_core"},
     memoryMode : {"disabled", "auto", "requested"},
     targetSamples : Nat \ {0}]

ASSUME BackendAssumption ==
    /\ IsFiniteSet(Tasks) /\ IsFiniteSet(Controllers)
    /\ Configurations \subseteq Configuration
    /\ MaxWarmUps \in Nat

VARIABLES
    config,         \* PerfConfig, with config.target_samples
    phase,          \* the case's position: "warm_up", "measurement", "reported"
    position,       \* the window's position
    counting,       \* the kinds of counters the kernel is running
    windows,        \* windows opened in the warm-up
    mode,           \* measurements: the PerfMode of each target of this window
    preferIndividual,
    lost,           \* windows whose group was read in vain
    raplConfigs,    \* domains found by discover_rapl_events, once
    rapl,           \* domains with an open counter in this window
    energySeen,     \* rapl_observed and rapl_core_observed: domains with joules
    discovery,      \* memory_bandwidth_discovery, once
    memory,         \* memory_bandwidth_measurement
    autoDisabled,   \* memory_bandwidth_auto_disabled
    observed,       \* the memory_bandwidth_*_observed flags
    samples,        \* the evidence in each measured sample
    persisted       \* the scopes persisted with the result

cpuVars == <<mode, preferIndividual, lost>>
energyVars == <<raplConfigs, rapl, energySeen>>
memoryVars == <<discovery, memory, autoDisabled, observed>>
caseVars == <<config, phase, windows, samples, persisted>>
vars == <<position, counting, cpuVars, energyVars, memoryVars, caseVars>>

Unknown == [found |-> FALSE, configs |-> {}, expected |-> 0, complete |-> FALSE]
NoMeasurement == [held |-> FALSE, counters |-> {}, complete |-> FALSE]
NoScopes == [memory |-> "unset", energy |-> "unset"]

\* The kinds of counters the backend holds handles of.  A dropped handle
\* closes its counter.
Open ==
    (IF \E t \in DOMAIN mode : mode[t] # "none" THEN {"cpu"} ELSE {})
      \cup (IF rapl # {} THEN {"energy"} ELSE {})
      \cup (IF memory.counters # {} THEN {"memory"} ELSE {})

Init ==
    /\ config \in Configurations
    /\ phase = "warm_up" /\ position = "idle" /\ windows = 0 /\ counting = {}
    /\ mode = <<>> /\ preferIndividual = FALSE /\ lost = 0
    /\ raplConfigs = [found |-> FALSE, domains |-> {}] /\ rapl = {} /\ energySeen = {}
    /\ discovery = Unknown /\ memory = NoMeasurement
    /\ autoDisabled = FALSE /\ observed = {}
    /\ samples = <<>> /\ persisted = NoScopes

-------------------------------------------------------------------------------
(* prepare(): drop what is held, then open every counter of the next window, *)
(* disabled. *)

\* targets(): the scope is enumerated anew for every window.
Targets ==
    IF ~config.collectsCpu THEN {{}}
    ELSE IF config.fixedScope THEN {Tasks} ELSE SUBSET Tasks

\* try_prepare_group, and prepare_individual when that fails or is preferred
Openable == IF preferIndividual THEN {"individual", "none"}
                                ELSE {"group", "individual", "none"}

OpenCounters ==
    /\ \E scope \in Targets : mode' \in [scope -> Openable]
    /\ UNCHANGED <<preferIndividual, lost>>

DomainsOf(scope) ==
    CASE scope = "none" -> {}
      [] scope = "package" -> {"package"}
      [] scope = "package_and_core" -> {"package", "core"}

OpenRapl ==
    /\ raplConfigs' \in
          IF config.energy = "none" \/ raplConfigs.found THEN {raplConfigs}
          ELSE [found : {TRUE}, domains : SUBSET DomainsOf(config.energy)]
    /\ rapl' \in SUBSET raplConfigs'.domains
    /\ UNCHANGED energySeen

\* discover_memory_bandwidth: sysfs may be unreadable, and a controller whose
\* description is malformed counts as expected but is not configured.
Discoveries ==
    {[found |-> TRUE, configs |-> {}, expected |-> 0, complete |-> FALSE]}
      \cup {[found |-> TRUE, configs |-> C, expected |-> Cardinality(Controllers),
             complete |-> C = Controllers /\ Controllers # {}] :
               C \in SUBSET Controllers}

\* prepare_memory_bandwidth: a refused counter makes the set incomplete.
Prepared(found, opened) ==
    [held |-> TRUE, counters |-> opened,
     complete |-> found.complete /\ opened = found.configs
                    /\ Cardinality(opened) = found.expected]

IsComplete(measurement) == measurement.complete /\ measurement.counters # {}

\* Faulty variant: a failed automatic probe is repeated in the next window.
MemoryProbed_Again == config.memoryMode # "disabled"

MemoryProbed == config.memoryMode # "disabled" /\ ~autoDisabled

OpenMemory ==
    IF ~MemoryProbed
    THEN /\ memory' = NoMeasurement
         /\ UNCHANGED <<discovery, autoDisabled, observed>>
    ELSE /\ discovery' \in IF discovery.found THEN {discovery} ELSE Discoveries
         /\ \E opened \in SUBSET discovery'.configs :
               LET measurement == Prepared(discovery', opened) IN
               IF config.memoryMode = "auto" /\ ~IsComplete(measurement)
               THEN autoDisabled' = TRUE /\ memory' = NoMeasurement
               ELSE autoDisabled' = FALSE /\ memory' = measurement
         /\ UNCHANGED observed

\* Faulty variant: one warm-up window too many.
WindowDue_TooMany ==
    \/ phase = "warm_up" /\ windows <= MaxWarmUps
    \/ phase = "measurement" /\ Len(samples) < config.targetSamples

\* Both calibrate_engine's warm-up loop and the sample loop open a window.
WindowDue ==
    \/ phase = "warm_up" /\ windows < MaxWarmUps
    \/ phase = "measurement" /\ Len(samples) < config.targetSamples

Prepare ==
    /\ position = "idle" /\ WindowDue
    /\ position' = "prepared"
    /\ windows' = IF phase = "warm_up" THEN windows + 1 ELSE windows
    /\ OpenCounters /\ OpenRapl /\ OpenMemory
    /\ counting' = {}
    /\ UNCHANGED <<config, phase, samples, persisted>>

-------------------------------------------------------------------------------
(* begin_prepared(): enable what was opened. *)

Grouped == {t \in DOMAIN mode : mode[t] = "group"}

\* A group that cannot be enabled is replaced by individual counters at once,
\* and the backend does not try groups again.
EnableCounters ==
    /\ \E refused \in SUBSET Grouped :
          /\ mode' \in {m \in [DOMAIN mode -> {"group", "individual", "none"}] :
                          \A t \in DOMAIN mode :
                             IF t \in refused THEN m[t] # "group"
                                              ELSE m[t] = mode[t]}
          /\ preferIndividual' = (preferIndividual \/ refused # {})
    /\ UNCHANGED lost

EnableRapl ==
    /\ rapl' \in SUBSET rapl
    /\ UNCHANGED <<raplConfigs, energySeen>>

Enabled(kept) ==
    [memory EXCEPT !.counters = kept,
                   !.complete = @ /\ Cardinality(kept) = discovery.expected]

EnableMemory ==
    /\ \E kept \in SUBSET memory.counters :
          /\ autoDisabled' = (autoDisabled \/ /\ memory.held
                                              /\ config.memoryMode = "auto"
                                              /\ ~IsComplete(Enabled(kept)))
          /\ memory' = IF autoDisabled' \/ ~memory.held THEN NoMeasurement
                                                        ELSE Enabled(kept)
    /\ UNCHANGED <<discovery, observed>>

BeginPrepared ==
    /\ position = "prepared"
    /\ position' = "running"
    /\ EnableCounters /\ EnableRapl /\ EnableMemory
    /\ counting' = Open'
    /\ UNCHANGED caseVars

\* end(): a counter that fails to stop is only reported, and goes on counting.
End ==
    /\ position = "running"
    /\ position' = "ended"
    /\ counting' \in SUBSET counting
    /\ UNCHANGED <<cpuVars, energyVars, memoryVars, caseVars>>

-------------------------------------------------------------------------------
(* collect(): read the window's counters, remember, and clear. *)

\* Faulty variant: an unusable group is not remembered.
CollectCounters_Forgets ==
    \E unusable \in SUBSET Grouped :
        /\ lost' = IF unusable # {} THEN lost + 1 ELSE lost
        /\ UNCHANGED preferIndividual

\* collect_group: unread, unscheduled, or scheduled for too little of the
\* window.
CollectCounters ==
    \E unusable \in SUBSET Grouped :
        /\ preferIndividual' = (preferIndividual \/ unusable # {})
        /\ lost' = IF unusable # {} THEN lost + 1 ELSE lost

CollectEnergy(joules) ==
    /\ energySeen' = energySeen \cup joules
    /\ UNCHANGED raplConfigs

\* The scope of MemoryBandwidthMeasurement::collect
ScopeOf(usable) ==
    IF usable = {} THEN "unavailable"
    ELSE IF memory.complete /\ Cardinality(usable) = discovery.expected
    THEN "complete" ELSE "partial"

\* The automatic probe gives up on the first window that is not complete.
GivesUp(usable) ==
    memory.held /\ config.memoryMode = "auto" /\ ScopeOf(usable) # "complete"

\* Faulty variant: the automatic mode pushes the coverage of a partial window.
MemoryEvidence_Auto(usable) ==
    IF ~memory.held \/ ScopeOf(usable) = "unavailable"
    THEN "none" ELSE ScopeOf(usable)

\* push_memory_bandwidth_metrics, which the early return does not reach: what
\* a reader of the sample can see
MemoryEvidence(usable) ==
    IF ~memory.held \/ GivesUp(usable) \/ ScopeOf(usable) = "unavailable"
    THEN "none" ELSE ScopeOf(usable)

\* Faulty variant: the early return forgets the energy counters.
ReturnEarly_KeepsRapl(usable) ==
    /\ GivesUp(usable)
    /\ autoDisabled' = TRUE
    /\ observed' = IF "complete" \in observed
                   THEN observed \cup {"partial"} ELSE observed
    /\ mode' = <<>> /\ memory' = NoMeasurement
    /\ UNCHANGED rapl

\* The probe's early return, with a reset of its own: the window's scope is
\* neither noted nor pushed.
ReturnEarly(usable) ==
    /\ GivesUp(usable)
    /\ autoDisabled' = TRUE
    /\ observed' = IF "complete" \in observed
                   THEN observed \cup {"partial"} ELSE observed
    /\ mode' = <<>> /\ rapl' = {} /\ memory' = NoMeasurement

\* Faulty variant: only a window with memory counters drops them all.
ReturnNormally_KeepsCounters(usable) ==
    /\ ~GivesUp(usable)
    /\ observed' = IF memory.held THEN observed \cup {ScopeOf(usable)} ELSE observed
    /\ mode' = IF memory.held THEN <<>> ELSE mode
    /\ rapl' = {} /\ memory' = NoMeasurement
    /\ UNCHANGED autoDisabled

\* "Reset for the next sample window."
ReturnNormally(usable) ==
    /\ ~GivesUp(usable)
    /\ observed' = IF memory.held THEN observed \cup {ScopeOf(usable)} ELSE observed
    /\ mode' = <<>> /\ rapl' = {} /\ memory' = NoMeasurement
    /\ UNCHANGED autoDisabled

Collect ==
    /\ position = "ended"
    /\ position' = "idle"
    /\ CollectCounters
    /\ \E joules \in SUBSET rapl, usable \in SUBSET memory.counters :
          /\ CollectEnergy(joules)
          /\ ReturnEarly(usable) \/ ReturnNormally(usable)
          /\ samples' = IF phase = "measurement"
                        THEN Append(samples, [memory |-> MemoryEvidence(usable),
                                              energy |-> joules])
                        ELSE samples
    /\ counting' = counting \cap Open'
    /\ UNCHANGED <<discovery, config, phase, windows, persisted>>

-------------------------------------------------------------------------------
\* The warm-up ends when its time is over, with or without a window.
FinishWarmUp ==
    /\ phase = "warm_up" /\ position = "idle"
    /\ phase' = "measurement"
    /\ UNCHANGED <<config, position, counting, cpuVars, energyVars, memoryVars, windows,
                   samples, persisted>>

\* Faulty variant: what was requested is persisted once anything was read.
energy_scope_Requested == IF energySeen = {} THEN "none" ELSE config.energy

energy_scope ==
    IF energySeen = {} THEN "none"
    ELSE IF config.energy = "package_and_core" /\ "core" \notin energySeen
    THEN "package" ELSE config.energy

\* Faulty variant: windows without any evidence do not count.
memory_bandwidth_scope_Best ==
    IF config.memoryMode = "disabled" THEN "none"
    ELSE IF "partial" \in observed THEN "partial"
    ELSE IF "complete" \in observed THEN "complete"
    ELSE IF config.memoryMode = "requested" THEN "unavailable" ELSE "none"

memory_bandwidth_scope ==
    IF config.memoryMode = "disabled" THEN "none"
    ELSE IF "partial" \in observed \/ {"complete", "unavailable"} \subseteq observed
    THEN "partial"
    ELSE IF "complete" \in observed THEN "complete"
    ELSE IF config.memoryMode = "requested" THEN "unavailable" ELSE "none"

\* benchmark_stats_from_samples asks the backend after the last sample.
Report ==
    /\ phase = "measurement" /\ position = "idle"
    /\ Len(samples) = config.targetSamples
    /\ phase' = "reported"
    /\ persisted' = [memory |-> memory_bandwidth_scope, energy |-> energy_scope]
    /\ UNCHANGED <<config, position, counting, cpuVars, energyVars, memoryVars, windows,
                   samples>>

Terminating == phase = "reported" /\ UNCHANGED vars

Next ==
    \/ Prepare \/ BeginPrepared \/ End \/ Collect
    \/ FinishWarmUp \/ Report \/ Terminating

Spec == Init /\ [][Next]_vars

-------------------------------------------------------------------------------
(* What the backend must guarantee. *)

TypeOK ==
    /\ config \in Configurations
    /\ phase \in {"warm_up", "measurement", "reported"}
    /\ position \in {"idle", "prepared", "running", "ended"}
    /\ windows \in 0..MaxWarmUps
    /\ counting \subseteq Open
    /\ DOMAIN mode \subseteq Tasks
    /\ \A t \in DOMAIN mode : mode[t] \in {"group", "individual", "none"}
    /\ preferIndividual \in BOOLEAN
    /\ lost \in 0..(MaxWarmUps + config.targetSamples)
    /\ raplConfigs.domains \subseteq DomainsOf(config.energy)
    /\ rapl \subseteq raplConfigs.domains
    /\ energySeen \subseteq raplConfigs.domains
    /\ discovery.configs \subseteq Controllers
    /\ memory.counters \subseteq discovery.configs
    /\ autoDisabled \in BOOLEAN
    /\ observed \subseteq {"complete", "partial", "unavailable"}
    /\ Len(samples) <= config.targetSamples

\* Between two windows nothing is open and nothing counts, although end() may
\* fail to stop a counter and collect() returns on two paths, each with a reset
\* of its own; and what is opened for a window does not count before it begins.
NothingOutlivesWindow ==
    /\ position = "idle" => Open = {} /\ ~memory.held
    /\ position \in {"idle", "prepared"} => counting = {}

\* "switching to ungrouped counters": an unusable group costs the case the
\* counters of a single window, because the backend remembers it.
GroupsLostOnce == lost <= 1

\* "Auto mode is deliberately quiet and one-shot": a probe that failed once is
\* not repeated, and its window is left without memory counters.
AutoProbeIsFinal ==
    [][autoDisabled => autoDisabled' /\ ~memory'.held]_vars

\* EnergyScope: no sample carries a domain the persisted scope denies, and
\* the scope claims no core counters that were never read.
EnergyScopeMatchesEvidence ==
    phase = "reported" =>
        /\ \A i \in 1..Len(samples) :
              samples[i].energy \subseteq DomainsOf(persisted.energy)
        /\ persisted.energy = "package_and_core" => "core" \in energySeen

\* MemoryBandwidthScope::None and SystemUnavailable: such a result has no
\* sample with memory evidence.
DeniedScopeHasNoEvidence ==
    persisted.memory \in {"none", "unavailable"} =>
        \A i \in 1..Len(samples) : samples[i].memory = "none"

\* MemoryBandwidthScope::SystemComplete, "Every advertised IMC target produced
\* usable read and write events": every sample of such a result has evidence
\* of complete coverage.
CompleteCoversEverySample ==
    persisted.memory = "complete" =>
        \A i \in 1..Len(samples) : samples[i].memory = "complete"

\* Scopes are part of a result's identity, and comparisons trust them: they
\* deny no evidence a sample has, and, of what was requested, claim none that
\* a sample lacks.
ScopesMatchEvidence ==
    /\ EnergyScopeMatchesEvidence
    /\ DeniedScopeHasNoEvidence
    /\ config.memoryMode = "requested" => CompleteCoversEverySample
===============================================================================
