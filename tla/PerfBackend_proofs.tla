-------------------------- MODULE PerfBackend_proofs --------------------------
(***************************************************************************)
(* The Linux perf backend in every configuration, over any number of       *)
(* windows, threads and memory controllers, whatever the kernel refuses.   *)
(***************************************************************************)
EXTENDS PerfBackend, FiniteSetTheorems, TLAPS

-------------------------------------------------------------------------------
(* The inductive invariant.  BackendInv is its conjunction. *)

Domains == {"package", "core"}
Evidence == [memory : {"none", "partial", "complete"}, energy : SUBSET Domains]

\* What TypeOK says of the counters, and the kinds of all other variables.
BackendTypes ==
    /\ config \in Configurations /\ config \in Configuration
    /\ phase \in {"warm_up", "measurement", "reported"}
    /\ position \in {"idle", "prepared", "running", "ended"}
    /\ windows \in 0..MaxWarmUps
    /\ samples \in Seq(Evidence) /\ Len(samples) <= config.targetSamples

CounterTypes ==
    /\ DOMAIN mode \subseteq Tasks
    /\ \A t \in DOMAIN mode : mode[t] \in {"group", "individual", "none"}
    /\ preferIndividual \in BOOLEAN
    /\ lost \in Nat

\* Domains are discovered once; what was opened, and what was read, is of them.
EnergyTypes ==
    /\ raplConfigs \in [found : BOOLEAN, domains : SUBSET Domains]
    /\ raplConfigs.domains \subseteq DomainsOf(config.energy)
    /\ raplConfigs.found \/ raplConfigs.domains = {}
    /\ rapl \subseteq raplConfigs.domains
    /\ energySeen \subseteq raplConfigs.domains

MemoryTypes ==
    /\ discovery \in [found : BOOLEAN, configs : SUBSET Controllers, expected : Nat,
                      complete : BOOLEAN]
    /\ memory \in [held : BOOLEAN, counters : SUBSET Controllers, complete : BOOLEAN]
    /\ memory.counters \subseteq discovery.configs
    /\ autoDisabled \in BOOLEAN
    /\ observed \subseteq {"complete", "partial", "unavailable"}

\* A window is open only while one is due.
WindowInv ==
    position # "idle" =>
        /\ phase # "reported"
        /\ phase = "measurement" => Len(samples) < config.targetSamples

\* Once a group was lost no target is counted in a group again.
LostInv ==
    \/ lost = 0
    \/ lost = 1 /\ preferIndividual /\ Grouped = {}

\* A probe that was given up holds nothing, and only the automatic one is given
\* up; a requested one holds its counters, of any number, through the window.
ProbeInv ==
    /\ autoDisabled => ~memory.held /\ config.memoryMode = "auto"
    /\ config.memoryMode = "disabled" => ~memory.held
    /\ config.memoryMode = "requested" /\ position # "idle" => memory.held

\* The flags of the backend know the evidence of every sample.
EvidenceInv ==
    \A i \in 1..Len(samples) :
        /\ samples[i].energy \subseteq energySeen
        /\ samples[i].memory # "none" =>
              samples[i].memory \in observed /\ config.memoryMode # "disabled"
        /\ config.memoryMode = "requested" /\ samples[i].memory = "none" =>
              "unavailable" \in observed

\* Only what is open counts.
CountingInv == counting \subseteq Open

\* The persisted scopes are those of the flags.
PersistedInv ==
    persisted = IF phase = "reported"
                THEN [memory |-> memory_bandwidth_scope, energy |-> energy_scope]
                ELSE NoScopes

BackendInv ==
    /\ BackendTypes /\ CounterTypes /\ EnergyTypes /\ MemoryTypes
    /\ WindowInv /\ LostInv /\ ProbeInv /\ EvidenceInv /\ PersistedInv
    /\ CountingInv /\ NothingOutlivesWindow

-------------------------------------------------------------------------------
\* Both RAPL domains, or fewer.
LEMMA DomainsAreDomains ==
    ASSUME NEW scope \in {"none", "package", "package_and_core"}
    PROVE  /\ DomainsOf(scope) \subseteq Domains
           /\ scope = "none" => DomainsOf(scope) = {}
           /\ scope = "package" => DomainsOf(scope) = {"package"}
           /\ scope = "package_and_core" => DomainsOf(scope) = Domains
BY DEF DomainsOf, Domains

\* The constants of a backend are of their types.
LEMMA ConfigurationIsTyped ==
    ASSUME config \in Configuration
    PROVE  /\ config.fixedScope \in BOOLEAN /\ config.collectsCpu \in BOOLEAN
           /\ config.energy \in {"none", "package", "package_and_core"}
           /\ config.memoryMode \in {"disabled", "auto", "requested"}
           /\ config.targetSamples \in Nat \ {0}
BY DEF Configuration

\* A new backend has no counter open and has learnt nothing.
LEMMA InitIsBackendInv == Init => BackendInv
<1> SUFFICES ASSUME Init PROVE BackendInv
  OBVIOUS
<1> USE DEF Init
<1>1. config \in Configurations /\ config \in Configuration
  BY BackendAssumption
<1>2. BackendTypes
  BY <1>1, BackendAssumption, ConfigurationIsTyped DEF BackendTypes
<1>3. /\ CounterTypes /\ LostInv /\ WindowInv /\ PersistedInv
      /\ CountingInv /\ NothingOutlivesWindow
  <2>1. DOMAIN mode = {} /\ lost = 0
    OBVIOUS
  <2>2. preferIndividual \in BOOLEAN
    OBVIOUS
  <2>3. WindowInv /\ PersistedInv /\ CountingInv /\ NothingOutlivesWindow
    BY <2>1 DEF WindowInv, PersistedInv, CountingInv, NothingOutlivesWindow,
                NoMeasurement, Open
  <2> QED
    BY <2>1, <2>2, <2>3 DEF CounterTypes, LostInv
<1>4. EnergyTypes /\ EvidenceInv
  BY DEF EnergyTypes, EvidenceInv
<1>5. MemoryTypes /\ ProbeInv
  BY DEF MemoryTypes, ProbeInv, NoMeasurement, Unknown
<1> QED
  BY <1>2, <1>3, <1>4, <1>5 DEF BackendInv

\* Opening the counters of a window.
LEMMA PrepareKeepsInv == BackendInv /\ Prepare => BackendInv'
<1> SUFFICES ASSUME BackendInv, Prepare PROVE BackendInv'
  OBVIOUS
<1>1. /\ position = "idle" /\ position' = "prepared" /\ WindowDue
      /\ windows' = IF phase = "warm_up" THEN windows + 1 ELSE windows
      /\ OpenCounters /\ OpenRapl /\ OpenMemory
      /\ counting' = {}
      /\ UNCHANGED <<config, phase, samples, persisted>>
  BY DEF Prepare
<1>2. BackendTypes' /\ WindowInv'
  BY <1>1, BackendAssumption DEF BackendInv, BackendTypes, WindowDue, WindowInv
<1>3. CounterTypes' /\ LostInv'
  <2>1. PICK scope \in Targets : mode' \in [scope -> Openable]
    BY <1>1 DEF OpenCounters
  <2>2. scope \subseteq Tasks
    BY DEF Targets
  <2>3. UNCHANGED <<preferIndividual, lost>>
    BY <1>1 DEF OpenCounters
  <2>4. preferIndividual => Grouped' = {}
    BY <2>1 DEF Openable, Grouped
  <2> QED
    BY <2>1, <2>2, <2>3, <2>4 DEF BackendInv, CounterTypes, LostInv, Openable
<1>4. EnergyTypes' /\ energySeen' = energySeen
  <2>1. /\ rapl' \subseteq raplConfigs'.domains /\ energySeen' = energySeen
        /\ \/ raplConfigs' = raplConfigs
           \/ /\ raplConfigs' \in [found : {TRUE}, domains : SUBSET DomainsOf(config.energy)]
              /\ ~raplConfigs.found
    BY <1>1 DEF OpenRapl
  <2>2. DomainsOf(config.energy) \subseteq Domains
    BY ConfigurationIsTyped, DomainsAreDomains DEF BackendInv, BackendTypes
  <2> QED
    BY <1>1, <2>1, <2>2 DEF BackendInv, EnergyTypes
<1>5. MemoryTypes' /\ ProbeInv' /\ observed' = observed
  <2>1. CASE ~MemoryProbed
    <3>1. memory' = NoMeasurement /\ UNCHANGED <<discovery, autoDisabled, observed>>
      BY <1>1, <2>1 DEF OpenMemory
    <3>2. config.memoryMode # "requested"
      BY <2>1 DEF MemoryProbed, BackendInv, ProbeInv
    <3> QED
      BY <1>1, <3>1, <3>2 DEF BackendInv, MemoryTypes, ProbeInv, NoMeasurement
  <2>2. CASE MemoryProbed
    <3>1. config.memoryMode # "disabled" /\ observed' = observed
      BY <1>1, <2>2 DEF OpenMemory, MemoryProbed
    <3>2. discovery' \in [found : BOOLEAN, configs : SUBSET Controllers, expected : Nat,
                          complete : BOOLEAN]
      <4>1. Cardinality(Controllers) \in Nat
        BY BackendAssumption, FS_CardinalityType
      <4>2. discovery' \in {discovery} \cup Discoveries
        BY <1>1, <2>2 DEF OpenMemory
      <4>3. ASSUME NEW d \in Discoveries
            PROVE  d \in [found : BOOLEAN, configs : SUBSET Controllers, expected : Nat,
                          complete : BOOLEAN]
        <5>1. CASE d = [found |-> TRUE, configs |-> {}, expected |-> 0, complete |-> FALSE]
          BY <5>1
        <5>2. ASSUME NEW C \in SUBSET Controllers,
                     d = [found |-> TRUE, configs |-> C, expected |-> Cardinality(Controllers),
                          complete |-> C = Controllers /\ Controllers # {}]
              PROVE  d \in [found : BOOLEAN, configs : SUBSET Controllers, expected : Nat,
                            complete : BOOLEAN]
          BY <4>1, <5>2
        <5> QED
          BY <5>1, <5>2 DEF Discoveries
      <4> QED
        BY <4>2, <4>3 DEF BackendInv, MemoryTypes
    <3>3. PICK opened \in SUBSET discovery'.configs :
             IF config.memoryMode = "auto" /\ ~IsComplete(Prepared(discovery', opened))
             THEN autoDisabled' = TRUE /\ memory' = NoMeasurement
             ELSE autoDisabled' = FALSE /\ memory' = Prepared(discovery', opened)
      BY <1>1, <2>2 DEF OpenMemory
    <3>4. Prepared(discovery', opened) \in
             [held : BOOLEAN, counters : SUBSET Controllers, complete : BOOLEAN]
      BY <3>2 DEF Prepared
    <3>5. Prepared(discovery', opened).held /\ Prepared(discovery', opened).counters = opened
      BY DEF Prepared
    <3>6. CASE config.memoryMode = "auto" /\ ~IsComplete(Prepared(discovery', opened))
      <4>1. autoDisabled' \in BOOLEAN /\ memory' = NoMeasurement
        BY <3>3, <3>6
      <4> QED
        BY <1>1, <3>1, <3>2, <3>6, <4>1 DEF BackendInv, MemoryTypes, ProbeInv, NoMeasurement
    <3>7. CASE ~(config.memoryMode = "auto" /\ ~IsComplete(Prepared(discovery', opened)))
      <4>1. /\ autoDisabled' = FALSE /\ autoDisabled' \in BOOLEAN
            /\ memory' = Prepared(discovery', opened)
        BY <3>3, <3>7
      <4>2. MemoryTypes'
        BY <3>1, <3>2, <3>4, <3>5, <4>1 DEF BackendInv, MemoryTypes
      <4>3. ~autoDisabled' /\ memory'.held
        BY <3>5, <4>1
      <4> QED
        BY <1>1, <3>1, <4>2, <4>3 DEF ProbeInv
    <3> QED
      BY <3>1, <3>6, <3>7
  <2> QED
    BY <2>1, <2>2
<1>6. EvidenceInv' /\ PersistedInv'
  BY <1>1, <1>4, <1>5
  DEF BackendInv, EvidenceInv, PersistedInv, memory_bandwidth_scope, energy_scope
<1>7. CountingInv' /\ NothingOutlivesWindow'
  BY <1>1 DEF CountingInv, NothingOutlivesWindow
<1> QED
  BY <1>2, <1>3, <1>4, <1>5, <1>6, <1>7 DEF BackendInv

\* Enabling them, which may replace groups and give up the automatic probe.
LEMMA BeginKeepsInv == BackendInv /\ BeginPrepared => BackendInv'
<1> SUFFICES ASSUME BackendInv, BeginPrepared PROVE BackendInv'
  OBVIOUS
<1>1. /\ position = "prepared" /\ position' = "running"
      /\ EnableCounters /\ EnableRapl /\ EnableMemory
      /\ counting' = Open'
      /\ UNCHANGED <<config, phase, windows, samples, persisted>>
  BY DEF BeginPrepared, caseVars
<1>2. BackendTypes' /\ WindowInv'
  BY <1>1 DEF BackendInv, BackendTypes, WindowInv
<1>3. CounterTypes' /\ LostInv'
  <2>1. PICK refused \in SUBSET Grouped :
          /\ mode' \in {m \in [DOMAIN mode -> {"group", "individual", "none"}] :
                          \A t \in DOMAIN mode :
                             IF t \in refused THEN m[t] # "group" ELSE m[t] = mode[t]}
          /\ preferIndividual' = (preferIndividual \/ refused # {})
    BY <1>1 DEF EnableCounters
  <2>2. lost' = lost
    BY <1>1 DEF EnableCounters
  <2>3. Grouped' \subseteq Grouped
    BY <2>1 DEF Grouped
  <2>4. preferIndividual' \in BOOLEAN /\ (preferIndividual => preferIndividual')
    BY <2>1 DEF BackendInv, CounterTypes
  <2>5. DOMAIN mode' = DOMAIN mode
        /\ \A t \in DOMAIN mode' : mode'[t] \in {"group", "individual", "none"}
    BY <2>1
  <2> QED
    BY <2>2, <2>3, <2>4, <2>5 DEF BackendInv, CounterTypes, LostInv
<1>4. EnergyTypes' /\ energySeen' = energySeen
  BY <1>1 DEF EnableRapl, BackendInv, EnergyTypes
<1>5. MemoryTypes' /\ ProbeInv' /\ observed' = observed
  <2>1. /\ UNCHANGED <<discovery, observed>>
        /\ \E kept \in SUBSET memory.counters :
              /\ autoDisabled' = (autoDisabled \/ /\ memory.held
                                                  /\ config.memoryMode = "auto"
                                                  /\ ~IsComplete(Enabled(kept)))
              /\ memory' = IF autoDisabled' \/ ~memory.held THEN NoMeasurement
                                                            ELSE Enabled(kept)
    BY <1>1 DEF EnableMemory
  <2>2. PICK kept \in SUBSET memory.counters :
          /\ autoDisabled' = (autoDisabled \/ /\ memory.held
                                              /\ config.memoryMode = "auto"
                                              /\ ~IsComplete(Enabled(kept)))
          /\ memory' = IF autoDisabled' \/ ~memory.held THEN NoMeasurement
                                                        ELSE Enabled(kept)
    BY <2>1
  <2>3. autoDisabled' \in BOOLEAN
    BY <2>2
  <2>4. autoDisabled' => config.memoryMode = "auto"
    BY <2>2 DEF BackendInv, ProbeInv
  <2>5. autoDisabled' \/ ~memory.held => memory' = NoMeasurement
    BY <2>2
  <2>6. ~autoDisabled' /\ memory.held => memory' = Enabled(kept)
    BY <2>2
  <2>7. /\ memory \in [held : BOOLEAN, counters : SUBSET Controllers, complete : BOOLEAN]
        /\ memory.counters \subseteq discovery.configs
    BY DEF BackendInv, MemoryTypes
  <2>8. /\ Enabled(kept) \in
             [held : BOOLEAN, counters : SUBSET Controllers, complete : BOOLEAN]
        /\ Enabled(kept).held = memory.held /\ Enabled(kept).counters = kept
    BY <2>7 DEF Enabled
  <2>9. /\ memory' \in [held : BOOLEAN, counters : SUBSET Controllers, complete : BOOLEAN]
        /\ memory'.counters \subseteq discovery.configs
    <3>1. memory' = NoMeasurement \/ memory' = Enabled(kept)
      BY <2>2
    <3>2. /\ NoMeasurement \in
               [held : BOOLEAN, counters : SUBSET Controllers, complete : BOOLEAN]
          /\ NoMeasurement.counters = {}
      BY DEF NoMeasurement
    <3> QED
      BY <2>7, <2>8, <3>1, <3>2
  <2>10. /\ autoDisabled' => ~memory'.held
         /\ ~memory.held => ~memory'.held
         /\ memory.held /\ ~autoDisabled' => memory'.held
    BY <2>5, <2>6, <2>8 DEF NoMeasurement
  <2> QED
    BY <1>1, <2>1, <2>3, <2>4, <2>9, <2>10 DEF BackendInv, MemoryTypes, ProbeInv
<1>6. EvidenceInv' /\ PersistedInv'
  BY <1>1, <1>4, <1>5
  DEF BackendInv, EvidenceInv, PersistedInv, memory_bandwidth_scope, energy_scope
<1>7. CountingInv' /\ NothingOutlivesWindow'
  BY <1>1 DEF CountingInv, NothingOutlivesWindow
<1> QED
  BY <1>2, <1>3, <1>4, <1>5, <1>6, <1>7 DEF BackendInv

\* The steps that touch no counter.
LEMMA CaseKeepsInv ==
    ASSUME BackendInv, End \/ FinishWarmUp \/ Report \/ UNCHANGED vars
    PROVE  BackendInv'
<1>1. /\ UNCHANGED <<config, windows, samples, mode, preferIndividual, lost, raplConfigs,
                     rapl, energySeen, discovery, memory, autoDisabled, observed>>
      /\ \/ /\ position = "running" /\ position' = "ended"
            /\ counting' \subseteq counting /\ UNCHANGED <<phase, persisted>>
         \/ UNCHANGED <<position, counting, phase, persisted>>
         \/ /\ phase = "warm_up" /\ phase' = "measurement" /\ position = "idle"
            /\ UNCHANGED <<position, counting, persisted>>
         \/ /\ phase = "measurement" /\ phase' = "reported" /\ position = "idle"
            /\ persisted' = [memory |-> memory_bandwidth_scope, energy |-> energy_scope]
            /\ UNCHANGED <<position, counting>>
  BY DEF End, FinishWarmUp, Report, vars, cpuVars, energyVars, memoryVars, caseVars
<1>2. /\ memory_bandwidth_scope' = memory_bandwidth_scope
      /\ energy_scope' = energy_scope
  BY <1>1 DEF memory_bandwidth_scope, energy_scope
<1>3. BackendTypes' /\ WindowInv' /\ CountingInv' /\ NothingOutlivesWindow'
  <2>1. Open' = Open /\ counting' \subseteq counting
    BY <1>1 DEF Open
  <2> QED
    BY <1>1, <2>1
    DEF BackendInv, BackendTypes, WindowInv, CountingInv, NothingOutlivesWindow
<1>4. CounterTypes' /\ LostInv'
  BY <1>1 DEF BackendInv, CounterTypes, LostInv, Grouped
<1>5. EnergyTypes' /\ MemoryTypes' /\ ProbeInv' /\ EvidenceInv'
  BY <1>1 DEF BackendInv, EnergyTypes, MemoryTypes, ProbeInv, EvidenceInv
<1>6. PersistedInv'
  BY <1>1, <1>2 DEF BackendInv, PersistedInv
<1> QED
  BY <1>3, <1>4, <1>5, <1>6 DEF BackendInv

\* Reading them, which may lose a group, and notes the evidence of the window.
LEMMA CollectKeepsInv == BackendInv /\ Collect => BackendInv'
<1> SUFFICES ASSUME BackendInv, Collect PROVE BackendInv'
  OBVIOUS
<1>1. PICK joules \in SUBSET rapl, usable \in SUBSET memory.counters :
        /\ CollectEnergy(joules)
        /\ ReturnEarly(usable) \/ ReturnNormally(usable)
        /\ samples' = IF phase = "measurement"
                      THEN Append(samples, [memory |-> MemoryEvidence(usable),
                                            energy |-> joules])
                      ELSE samples
  BY DEF Collect
<1>2. /\ position = "ended" /\ position' = "idle" /\ CollectCounters
      /\ counting' = counting \cap Open'
      /\ UNCHANGED <<discovery, config, phase, windows, persisted>>
  BY DEF Collect
<1> DEFINE sample == [memory |-> MemoryEvidence(usable), energy |-> joules]
<1>3. sample \in Evidence
  <2>1. MemoryEvidence(usable) \in {"none", "partial", "complete"}
    BY DEF MemoryEvidence, ScopeOf
  <2>2. joules \subseteq Domains
    BY DEF BackendInv, EnergyTypes
  <2> QED
    BY <2>1, <2>2 DEF Evidence
<1>4. phase # "reported" /\ (phase = "measurement" => Len(samples) < config.targetSamples)
  BY <1>2 DEF BackendInv, WindowInv
<1>5. BackendTypes' /\ WindowInv'
  <2>1. /\ config \in Configuration /\ config.targetSamples \in Nat
        /\ samples \in Seq(Evidence) /\ Len(samples) <= config.targetSamples
    BY ConfigurationIsTyped DEF BackendInv, BackendTypes
  <2>2. samples' \in Seq(Evidence) /\ Len(samples') <= config.targetSamples
    BY <1>1, <1>3, <1>4, <2>1
  <2> QED
    BY <1>2, <2>2 DEF BackendInv, BackendTypes, WindowInv
<1>0. mode' = <<>> /\ rapl' = {} /\ memory' = NoMeasurement
  <2>1. CASE ReturnEarly(usable)
    BY <2>1 DEF ReturnEarly
  <2>2. CASE ReturnNormally(usable)
    BY <2>2 DEF ReturnNormally
  <2> QED
    BY <1>1, <2>1, <2>2
<1>6. CounterTypes' /\ LostInv'
  <2>1. PICK unusable \in SUBSET Grouped :
          /\ preferIndividual' = (preferIndividual \/ unusable # {})
          /\ lost' = IF unusable # {} THEN lost + 1 ELSE lost
    BY <1>2 DEF CollectCounters
  <2>2. DOMAIN mode' = {} /\ Grouped' = {}
    BY <1>0 DEF Grouped
  <2>3. preferIndividual' \in BOOLEAN
    BY <2>1
  <2>4. CASE unusable = {}
    <3>1. lost' = lost /\ (preferIndividual => preferIndividual')
      BY <2>1, <2>4
    <3> QED
      BY <2>1, <2>2, <2>3, <3>1 DEF BackendInv, CounterTypes, LostInv
  <2>5. CASE unusable # {}
    <3>1. lost' = lost + 1
      BY <2>1, <2>5
    <3>2. preferIndividual'
      BY <2>1, <2>5
    <3>3. lost = 0
      BY <2>5 DEF BackendInv, LostInv
    <3> QED
      BY <2>1, <2>2, <2>3, <3>1, <3>2, <3>3 DEF CounterTypes, LostInv
  <2> QED
    BY <2>4, <2>5
<1>7. /\ EnergyTypes'
      /\ energySeen' = energySeen \cup joules
  BY <1>0, <1>1, <1>2 DEF CollectEnergy, BackendInv, EnergyTypes
<1>8. /\ autoDisabled' \in BOOLEAN
      /\ autoDisabled' => config.memoryMode = "auto"
      /\ observed \subseteq observed'
      /\ observed' \subseteq {"complete", "partial", "unavailable"}
      /\ MemoryEvidence(usable) # "none" =>
            MemoryEvidence(usable) \in observed' /\ config.memoryMode # "disabled"
      /\ config.memoryMode = "requested" /\ MemoryEvidence(usable) = "none" =>
            "unavailable" \in observed'
  <2>1. ScopeOf(usable) \in {"complete", "partial", "unavailable"}
    BY DEF ScopeOf
  <2>2. config.memoryMode = "requested" => memory.held
    BY <1>2 DEF BackendInv, ProbeInv
  <2>3. memory.held => config.memoryMode # "disabled"
    BY DEF BackendInv, ProbeInv
  <2>4. /\ observed \subseteq {"complete", "partial", "unavailable"}
        /\ autoDisabled \in BOOLEAN
        /\ autoDisabled => config.memoryMode = "auto"
    BY DEF BackendInv, MemoryTypes, ProbeInv
  <2>5. CASE ReturnEarly(usable)
    <3>1. /\ GivesUp(usable) /\ autoDisabled' \in BOOLEAN
          /\ observed' = IF "complete" \in observed
                         THEN observed \cup {"partial"} ELSE observed
      BY <2>5 DEF ReturnEarly
    <3>2. config.memoryMode = "auto" /\ MemoryEvidence(usable) = "none"
      BY <3>1 DEF GivesUp, MemoryEvidence
    <3> QED
      BY <2>4, <3>1, <3>2
  <2>6. CASE ReturnNormally(usable) /\ ~memory.held
    <3>1. UNCHANGED <<autoDisabled, observed>>
      BY <2>6 DEF ReturnNormally
    <3>2. MemoryEvidence(usable) = "none"
      BY <2>6 DEF MemoryEvidence
    <3> QED
      BY <2>2, <2>4, <2>6, <3>1, <3>2
  <2>7. CASE ReturnNormally(usable) /\ memory.held
    <3>1. /\ UNCHANGED autoDisabled /\ ~GivesUp(usable)
          /\ observed' = observed \cup {ScopeOf(usable)}
      BY <2>7 DEF ReturnNormally
    <3>2. MemoryEvidence(usable) = IF ScopeOf(usable) = "unavailable"
                                   THEN "none" ELSE ScopeOf(usable)
      BY <2>7, <3>1 DEF MemoryEvidence
    <3> QED
      BY <2>1, <2>3, <2>4, <2>7, <3>1, <3>2
  <2> QED
    BY <1>1, <2>5, <2>6, <2>7
<1>9. MemoryTypes' /\ ProbeInv'
  BY <1>0, <1>2, <1>8 DEF BackendInv, MemoryTypes, ProbeInv, NoMeasurement
<1>10. EvidenceInv'
  <2>1. samples \in Seq(Evidence)
    BY DEF BackendInv, BackendTypes
  <2>2. CASE phase = "measurement"
    <3>1. /\ Len(samples') = Len(samples) + 1 /\ Len(samples) \in Nat
          /\ \A i \in 1..Len(samples) : samples'[i] = samples[i]
          /\ samples'[Len(samples) + 1] = sample
      BY <1>1, <1>3, <2>1, <2>2
    <3>2. ASSUME NEW i \in 1..Len(samples')
          PROVE  /\ samples'[i].energy \subseteq energySeen'
                 /\ samples'[i].memory # "none" =>
                       samples'[i].memory \in observed' /\ config.memoryMode # "disabled"
                 /\ config.memoryMode = "requested" /\ samples'[i].memory = "none" =>
                       "unavailable" \in observed'
      <4>1. CASE i = Len(samples) + 1
        <5>1. /\ samples'[i].memory = MemoryEvidence(usable)
              /\ samples'[i].energy = joules
          BY <3>1, <4>1
        <5> QED
          BY <1>7, <1>8, <5>1
      <4>2. CASE i # Len(samples) + 1
        <5>1. i \in 1..Len(samples) /\ samples'[i] = samples[i]
          BY <3>1, <4>2
        <5> QED
          BY <1>7, <1>8, <5>1 DEF BackendInv, EvidenceInv
      <4> QED
        BY <4>1, <4>2
    <3> QED
      BY <1>2, <3>2 DEF EvidenceInv
  <2>3. CASE phase # "measurement"
    BY <1>1, <1>2, <1>7, <1>8, <2>3 DEF BackendInv, EvidenceInv
  <2> QED
    BY <2>2, <2>3
<1>11. PersistedInv'
  BY <1>2, <1>4 DEF BackendInv, PersistedInv
<1>12. CountingInv' /\ NothingOutlivesWindow'
  <2>1. Open' = {} /\ ~memory'.held
    BY <1>0 DEF Open, NoMeasurement
  <2> QED
    BY <1>2, <2>1 DEF CountingInv, NothingOutlivesWindow
<1> QED
  BY <1>5, <1>6, <1>7, <1>9, <1>10, <1>11, <1>12 DEF BackendInv

\* Every step of the backend and of the case that calls it.
LEMMA NextKeepsInv == BackendInv /\ [Next]_vars => BackendInv'
BY PrepareKeepsInv, BeginKeepsInv, CollectKeepsInv, CaseKeepsInv DEF Next, Terminating

\* Every part of the inductive invariant of the backend holds in every reachable state.
THEOREM BackendInvHolds == Spec => []BackendInv
<1> QED
  BY InitIsBackendInv, NextKeepsInv, PTL DEF Spec

-------------------------------------------------------------------------------
(* What holds of every case that LinuxPerfBackend measures. *)

\* The type invariant: what is open is of the scope, the domains and the
\* controllers that were discovered, and no sample is taken beyond the target.
THEOREM BackendTypeCorrect == Spec => []TypeOK
<1>1. BackendInv => TypeOK
  <2> SUFFICES ASSUME BackendInv PROVE TypeOK
    OBVIOUS
  <2>1. lost \in 0..(MaxWarmUps + config.targetSamples)
    BY BackendAssumption, ConfigurationIsTyped DEF BackendInv, BackendTypes, LostInv
  <2> QED
    BY <2>1
    DEF BackendInv, BackendTypes, CounterTypes, EnergyTypes, MemoryTypes, CountingInv,
        TypeOK
<1> QED
  BY <1>1, BackendInvHolds, PTL

\* Both returns of collect() drop every counter of the window, also one that
\* end() could not stop, and nothing counts before the next window begins.
THEOREM WindowsAreClean == Spec => []NothingOutlivesWindow
<1>1. BackendInv => NothingOutlivesWindow
  BY DEF BackendInv
<1> QED
  BY <1>1, BackendInvHolds, PTL

\* The counters of at most one window of a case are lost to an unusable group,
\* however many threads it measures.
THEOREM GroupsAreLostOnce == Spec => []GroupsLostOnce
<1>1. BackendInv => GroupsLostOnce
  BY DEF BackendInv, LostInv, GroupsLostOnce
<1> QED
  BY <1>1, BackendInvHolds, PTL

\* An automatic memory probe that failed is not tried again.
THEOREM ProbeIsFinal == Spec => AutoProbeIsFinal
<1>1. BackendInv /\ [Next]_vars => [autoDisabled => autoDisabled' /\ ~memory'.held]_vars
  <2> SUFFICES ASSUME BackendInv, Next, autoDisabled
               PROVE  autoDisabled' /\ ~memory'.held
    OBVIOUS
  <2>1. BackendInv' /\ ~memory.held
    BY NextKeepsInv DEF BackendInv, ProbeInv
  <2>2. autoDisabled' => ~memory'.held
    BY <2>1 DEF BackendInv, ProbeInv
  <2>3. autoDisabled'
    <3>1. CASE Prepare
      BY <3>1 DEF Prepare, OpenMemory, MemoryProbed
    <3>2. CASE BeginPrepared
      BY <3>2 DEF BeginPrepared, EnableMemory
    <3>3. CASE Collect
      BY <3>3 DEF Collect, ReturnEarly, ReturnNormally
    <3>4. CASE End \/ FinishWarmUp \/ Report \/ Terminating
      BY <3>4 DEF End, FinishWarmUp, Report, Terminating, vars, memoryVars
    <3> QED
      BY <3>1, <3>2, <3>3, <3>4 DEF Next
  <2> QED
    BY <2>2, <2>3
<1> QED
  BY <1>1, BackendInvHolds, PTL DEF Spec, AutoProbeIsFinal

\* The persisted scopes deny no evidence of any sample, and a scope that was
\* requested claims none that a sample lacks.
THEOREM ScopesAreSound == Spec => []ScopesMatchEvidence
<1>1. BackendInv => ScopesMatchEvidence
  <2> SUFFICES ASSUME BackendInv PROVE ScopesMatchEvidence
    OBVIOUS
  <2>1. samples \in Seq(Evidence) /\ config \in Configuration
    BY DEF BackendInv, BackendTypes
  <2>2. ASSUME NEW i \in 1..Len(samples)
        PROVE  samples[i].memory \in {"none", "partial", "complete"}
    <3>1. samples[i] \in Evidence
      BY <2>1
    <3> QED
      BY <3>1 DEF Evidence
  <2>3. phase = "reported" => /\ persisted.memory = memory_bandwidth_scope
                              /\ persisted.energy = energy_scope
    BY DEF BackendInv, PersistedInv
  <2>4. phase # "reported" => persisted.memory = "unset"
    BY DEF BackendInv, PersistedInv, NoScopes
  <2>5. energySeen \subseteq DomainsOf(config.energy)
    BY DEF BackendInv, EnergyTypes
  <2>6. EnergyScopeMatchesEvidence
    <3>1. energySeen \subseteq DomainsOf(energy_scope)
      BY <2>1, <2>5, ConfigurationIsTyped, DomainsAreDomains DEF energy_scope, Domains
    <3>2. energy_scope = "package_and_core" => "core" \in energySeen
      BY <2>1, ConfigurationIsTyped DEF energy_scope
    <3> QED
      BY <2>3, <3>1, <3>2 DEF EnergyScopeMatchesEvidence, BackendInv, EvidenceInv
  <2>7. DeniedScopeHasNoEvidence
    BY <2>2, <2>3, <2>4
    DEF DeniedScopeHasNoEvidence, memory_bandwidth_scope, BackendInv, EvidenceInv
  <2>8. config.memoryMode = "requested" => CompleteCoversEverySample
    BY <2>2, <2>3, <2>4
    DEF CompleteCoversEverySample, memory_bandwidth_scope, BackendInv, EvidenceInv
  <2> QED
    BY <2>6, <2>7, <2>8 DEF ScopesMatchEvidence
<1> QED
  BY <1>1, BackendInvHolds, PTL
===============================================================================
