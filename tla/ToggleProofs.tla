---------------------------- MODULE ToggleProofs ----------------------------
(***************************************************************************)
(* The safety properties of Toggle, for any set of managed components, any *)
(* spec, any operands' operators and any number of edits and faults.       *)
(***************************************************************************)
EXTENDS Toggle, TLAPS

(* Places and names *)

\* The local cluster is the last component of a pass.
LEMMA Places21 ==
  /\ DOMAIN SourceOrder = 1..21 /\ End = 22
  /\ Places \subseteq 1..21
  /\ \A i \in 1..21 : SourceOrder[i] \in Components
  /\ \A i \in 1..21 : SourceOrder[i] = LocalCluster => i = 21
<1>1. DOMAIN SourceOrder = 1..21 /\ Len(SourceOrder) = 21
  BY DEF SourceOrder
<1>2. \A i \in 1..21 : SourceOrder[i] = LocalCluster => i = 21
  BY DEF SourceOrder, ManagedServiceAccount, FleetNavigation, ImageBasedInstallOperator,
         HyperShift, LocalHosting, ConsoleMCE, Discovery, Hive, AssistedService,
         ClusterLifecycle, ClusterManager, ClusterPermission, ServerFoundation,
         ClusterProxyAddon, ClusterAPI, ClusterAPIProviderAWS, ClusterAPIProviderAzure,
         ClusterAPIProviderMetal, ClusterAPIProviderOA, Maestro, LocalCluster
<1> QED
  BY <1>1, <1>2 DEF End, Places, Components

LEMMA Names ==
  /\ {ManagedServiceAccount, FleetNavigation, ImageBasedInstallOperator, HyperShift, ConsoleMCE,
      Discovery, Hive, AssistedService, ClusterLifecycle, ClusterManager, ClusterPermission,
      ServerFoundation, ClusterProxyAddon, ClusterAPI, ClusterAPIProviderAWS,
      ClusterAPIProviderAzure, ClusterAPIProviderMetal, ClusterAPIProviderOA, Maestro} = Charts
  /\ Components = Charts \cup {LocalHosting, LocalCluster}
<1>1. Components =
        {ManagedServiceAccount, FleetNavigation, ImageBasedInstallOperator, HyperShift,
         LocalHosting, ConsoleMCE, Discovery, Hive, AssistedService, ClusterLifecycle, ClusterManager,
         ClusterPermission, ServerFoundation, ClusterProxyAddon, ClusterAPI,
         ClusterAPIProviderAWS, ClusterAPIProviderAzure, ClusterAPIProviderMetal,
         ClusterAPIProviderOA, Maestro, LocalCluster}
  BY DEF Components, SourceOrder
<1> QED
  BY <1>1 DEF Charts, ManagedServiceAccount, FleetNavigation, ImageBasedInstallOperator,
         HyperShift, LocalHosting, ConsoleMCE, Discovery, Hive, AssistedService,
         ClusterLifecycle, ClusterManager, ClusterPermission, ServerFoundation,
         ClusterProxyAddon, ClusterAPI, ClusterAPIProviderAWS, ClusterAPIProviderAzure,
         ClusterAPIProviderMetal, ClusterAPIProviderOA, Maestro, LocalCluster
-----------------------------------------------------------------------------
(* What the functions of a component may do *)

IECs == {"absent", "present", "terminating"}
Extents == {"none", "some", "all"}

\* An enabling function never takes templates away, and registers the component.
Installs(c) ==
  /\ \E e \in IECs : iec' = [iec EXCEPT ![c] = e]
  /\ \E e \in Extents : chart' = [chart EXCEPT ![c] = e] /\ (e = "none" => chart[c] = "none")
  /\ UNCHANGED up
  /\ \E t \in {"on", "wait"} : Track(c, t)
  /\ failure' \in BOOLEAN /\ faults' \in 0..MaxFaults

\* A disabling function that takes the last template away takes the deployment away.
Removes(c) ==
  /\ \E e \in IECs : iec' = [iec EXCEPT ![c] = e]
  /\ \E e \in Extents : chart' = [chart EXCEPT ![c] = e]
                        /\ (e = "none" => chart[c] = "none" \/ up' = up \ {c})
  /\ up' \in {up, up \ {c}}
  /\ \E t \in {"none", "off", "wait"} : Track(c, t)
  /\ UNCHANGED failure /\ faults' \in 0..MaxFaults

LEMMA FaultType ==
  ASSUME TypeOK, NEW k
  PROVE  Fault(k) \/ NoFault => faults' \in 0..MaxFaults
  BY ToggleAssumption DEF TypeOK, Fault, NoFault

LEMMA IECTypes ==
  ASSUME TypeOK, NEW c \in Charts
  PROVE  ensureInternalEngineComponent(c) \/ IECGone(c) \/ IECLingers(c) \/ UNCHANGED iec
           => \E e \in IECs : iec' = [iec EXCEPT ![c] = e]
<1>1. iec[c] \in IECs /\ iec = [iec EXCEPT ![c] = iec[c]]
  BY DEF TypeOK, IECs
<1> QED
  BY <1>1 DEF ensureInternalEngineComponent, IECGone, IECLingers, IECs

LEMMA StopsInstalls ==
  ASSUME TypeOK, NEW c \in Charts, Stops(c), UNCHANGED up, \E t \in {"on", "wait"} : Track(c, t)
  PROVE  Installs(c)
<1>1. \E e \in IECs : iec' = [iec EXCEPT ![c] = e]
  BY IECTypes DEF Stops
<1>2. chart[c] \in Extents /\ chart = [chart EXCEPT ![c] = chart[c]]
  BY DEF TypeOK, Extents
<1>3. \E e \in Extents : chart' = [chart EXCEPT ![c] = e] /\ (e = "none" => chart[c] = "none")
  BY <1>2 DEF Stops, ApplyFails, Extents
<1>4. failure' \in BOOLEAN /\ faults' \in 0..MaxFaults
  BY FaultType DEF Stops, ApplyFails, TypeOK
<1> QED
  BY <1>1, <1>3, <1>4 DEF Installs

LEMMA AppliesInstalls ==
  ASSUME TypeOK, NEW c \in Charts, Applies(c), UNCHANGED up, Track(c, "on"),
         Fault("apply") \/ NoFault
  PROVE  Installs(c) /\ chart'[c] = "all"
<1>1. \E e \in IECs : iec' = [iec EXCEPT ![c] = e]
  BY IECTypes DEF Applies
<1>2. chart' = [chart EXCEPT ![c] = "all"] /\ failure' \in BOOLEAN
  BY DEF Applies, TypeOK
<1>3. faults' \in 0..MaxFaults
  BY FaultType
<1> QED
  BY <1>1, <1>2, <1>3 DEF Installs, Extents, TypeOK

LEMMA ChartInstalls ==
  ASSUME TypeOK, NEW c \in Charts, EnsureChart(c)
  PROVE  Installs(c) /\ UNCHANGED res
  BY StopsInstalls, AppliesInstalls DEF EnsureChart

LEMMA AddonChartInstalls ==
  ASSUME TypeOK, NEW c \in Charts, EnsureAddonChart(c)
  PROVE  Installs(c) /\ UNCHANGED res
<1>1. CASE EnsureChart(c)
  BY <1>1, ChartInstalls
<1>2. CASE Stops(c) /\ Track(c, "on") /\ UNCHANGED <<up, res>>
  BY <1>2, StopsInstalls
<1>3. CASE /\ ensureInternalEngineComponent(c)
           /\ chart' = [chart EXCEPT ![c] = "some"]
           /\ failure' = TRUE /\ NoFault /\ Track(c, "wait") /\ UNCHANGED <<up, res>>
  <2>1. \E e \in IECs : iec' = [iec EXCEPT ![c] = e]
    BY <1>3, IECTypes
  <2>2. faults' \in 0..MaxFaults
    BY <1>3, FaultType
  <2> QED
    BY <1>3, <2>1, <2>2 DEF Installs, Extents
<1> QED
  BY <1>1, <1>2, <1>3 DEF EnsureAddonChart

\* The end of every disabling function: nothing is touched, or templates are deleted.
LEMMA DeletesRemoves ==
  ASSUME TypeOK, NEW c \in Charts, IECGone(c) \/ IECLingers(c), NEW k,
         deleteTemplates(c) \/ (Untouched /\ (Fault(k) \/ NoFault)),
         UNCHANGED failure, \E t \in {"none", "off", "wait"} : Track(c, t)
  PROVE  Removes(c)
<1>1. \E e \in IECs : iec' = [iec EXCEPT ![c] = e]
  BY IECTypes
<1>2. chart[c] \in Extents /\ chart = [chart EXCEPT ![c] = chart[c]]
  BY DEF TypeOK, Extents
<1>3. /\ \E e \in Extents : chart' = [chart EXCEPT ![c] = e]
                            /\ (e = "none" => chart[c] = "none" \/ up' = up \ {c})
      /\ up' \in {up, up \ {c}}
  BY <1>2 DEF deleteTemplates, Untouched, Extents
<1>4. faults' \in 0..MaxFaults
  BY FaultType DEF deleteTemplates
<1> QED
  BY <1>1, <1>3, <1>4 DEF Removes

LEMMA LingersRemoves ==
  ASSUME TypeOK, NEW c \in Charts, IECLingers(c), Untouched,
         UNCHANGED failure, \E t \in {"none", "off", "wait"} : Track(c, t)
  PROVE  Removes(c)
<1>1. Fault("iec") \/ NoFault
  BY DEF IECLingers
<1> QED
  BY <1>1, DeletesRemoves

LEMMA NoChartRemoves ==
  ASSUME TypeOK, NEW c \in Charts, EnsureNoChart(c) \/ EnsureNoChartTrackedFirst(c)
  PROVE  Removes(c) /\ UNCHANGED res
<1>1. UNCHANGED <<res, failure>> /\ \E t \in {"none", "off", "wait"} : Track(c, t)
  BY DEF EnsureNoChart, EnsureNoChartTrackedFirst
<1>2. CASE IECLingers(c) /\ Untouched
  BY <1>1, <1>2, LingersRemoves
<1>3. CASE IECGone(c) /\ (deleteTemplates(c) \/ (Untouched /\ Fault("render")))
  BY <1>1, <1>3, DeletesRemoves
<1> QED
  BY <1>1, <1>2, <1>3 DEF EnsureNoChart, EnsureNoChartTrackedFirst
-----------------------------------------------------------------------------
(* What a step of a pass may do *)

\* Of the operands, only those others look after, or ones no invariant is about, change.
Aside ==
  /\ res' \in [Operands -> Existence]
  /\ \A r \in {"addon", "plugin", "kinds"} : res'[r] = res[r]

LEMMA ExistenceType ==
  ASSUME TypeOK, NEW r \in Operands
  PROVE  /\ \A e \in Existence : Put(r, e) => res' \in [Operands -> Existence]
         /\ applyOperand(r) \/ deleteOperand(r) => res' \in [Operands -> Existence]
  BY DEF TypeOK, Put, applyOperand, deleteOperand, Existence

LEMMA AsideUnchanged ==
  ASSUME TypeOK, UNCHANGED res
  PROVE  Aside
  BY DEF Aside, TypeOK

LEMMA AsideOperand ==
  ASSUME TypeOK, NEW r \in Operands \ {"addon", "plugin", "kinds"},
         applyOperand(r) \/ deleteOperand(r) \/ Put(r, "created")
  PROVE  Aside
<1>1. res' \in [Operands -> Existence]
  BY ExistenceType DEF Existence
<1>2. \A q \in {"addon", "plugin", "kinds"} : res'[q] = res[q]
  BY DEF applyOperand, deleteOperand, Put, TypeOK, Operands
<1> QED
  BY <1>1, <1>2 DEF Aside

\* An enabled component is installed ...
Enables(c) ==
  /\ SourceOrder[at] = c /\ c \in snap
  /\ c \in AddonCharts => CanInstallAddons
  /\ Installs(c) /\ Aside

\* ... and one that is not, or an addon that cannot be yet, is removed; hypershift only after
\* its addon.
Disables(c) ==
  /\ SourceOrder[at] = c
  /\ c \notin snap \/ (c \in AddonCharts /\ ~CanInstallAddons)
  /\ Removes(c) /\ Aside
  /\ c = HyperShift /\ chart'[c] = "none" => chart[c] = "none" \/ res["addon"] = "absent"

\* The console's plugin is listed when its chart has been applied, and taken off the list
\* before the chart's templates go.
Consoles ==
  /\ SourceOrder[at] = ConsoleMCE
  /\ \/ Installs(ConsoleMCE) \/ Removes(ConsoleMCE)
     \/ UNCHANGED <<iec, chart, up, tracked, failure, faults>>
  /\ res' \in [Operands -> Existence]
  /\ res'["addon"] = res["addon"] /\ res'["kinds"] = res["kinds"]
  /\ \/ /\ res'["plugin"] = res["plugin"]
        /\ chart'[ConsoleMCE] = "none" => chart[ConsoleMCE] = "none"
     \/ res'["plugin"] = "created" /\ chart'[ConsoleMCE] = "all"
     \/ res'["plugin"] = "absent"

\* Local hosting and the local cluster have no chart.
Chartless(c) ==
  /\ SourceOrder[at] = c
  /\ UNCHANGED <<iec, chart, up>>
  /\ \E t \in {"on", "off", "wait"} : Track(c, t)
  /\ failure' \in BOOLEAN /\ faults' \in 0..MaxFaults
  /\ res' \in [Operands -> Existence]
  /\ \A r \in {"plugin", "kinds"} : res'[r] = res[r]
  /\ res'["addon"] \in {"held", "terminating"} => res["addon"] \in {"held", "terminating"}

ComponentStep ==
  \/ \E c \in Charts \ {ConsoleMCE} : Enables(c) \/ Disables(c)
  \/ Consoles
  \/ Chartless(LocalHosting) \/ Chartless(LocalCluster)

LEMMA ChartOn ==
  ASSUME TypeOK, NEW c \in Charts, On(c), c \notin AddonCharts, EnsureChart(c)
  PROVE  Enables(c)
  BY ChartInstalls, AsideUnchanged DEF On, Enables

LEMMA ChartOff ==
  ASSUME TypeOK, NEW c \in Charts, Off(c), c # HyperShift,
         EnsureNoChart(c) \/ EnsureNoChartTrackedFirst(c)
  PROVE  Disables(c)
  BY NoChartRemoves, AsideUnchanged DEF Off, Disables

LEMMA AddonOn ==
  ASSUME TypeOK, NEW c \in Charts, OnAddon(c), EnsureAddonChart(c)
  PROVE  Enables(c)
  BY AddonChartInstalls, AsideUnchanged DEF OnAddon, On, Enables

LEMMA AddonOff ==
  ASSUME TypeOK, NEW c \in Charts, OffAddon(c), c \in AddonCharts, c # HyperShift,
         EnsureNoChart(c) \/ EnsureNoChartTrackedFirst(c)
  PROVE  Disables(c)
  BY NoChartRemoves, AsideUnchanged DEF OffAddon, Disables

\* The names are those of different components.
LEMMA Distinct ==
  /\ {ManagedServiceAccount, FleetNavigation, ClusterProxyAddon} \subseteq Charts \cap AddonCharts
  /\ ConsoleMCE \notin AddonCharts /\ ConsoleMCE \in Charts
  /\ HyperShift \in AddonCharts /\ HyperShift \in Charts \ {ConsoleMCE}
  /\ HyperShift \notin {ManagedServiceAccount, FleetNavigation, ClusterProxyAddon}
  /\ \A c \in {ImageBasedInstallOperator, Discovery, Hive, AssistedService, ClusterLifecycle,
               ClusterManager, ClusterPermission, ServerFoundation, ClusterAPI,
               ClusterAPIProviderAWS, ClusterAPIProviderAzure, ClusterAPIProviderMetal,
               ClusterAPIProviderOA, Maestro} :
       c \in Charts \ {ConsoleMCE} /\ c \notin AddonCharts /\ c # HyperShift
  /\ {ManagedServiceAccount, FleetNavigation, ClusterProxyAddon} \subseteq Charts \ {ConsoleMCE}
  /\ LocalHosting \notin Charts /\ LocalCluster \notin Charts
<1>1. LocalHosting \notin Charts /\ LocalCluster \notin Charts
  BY DEF Charts
<1> QED
  BY <1>1, Names DEF AddonCharts, ManagedServiceAccount, FleetNavigation, ImageBasedInstallOperator,
         HyperShift, ConsoleMCE, Discovery, Hive, AssistedService, ClusterLifecycle,
         ClusterManager, ClusterPermission, ServerFoundation, ClusterProxyAddon, ClusterAPI,
         ClusterAPIProviderAWS, ClusterAPIProviderAzure, ClusterAPIProviderMetal,
         ClusterAPIProviderOA, Maestro

LEMMA HiveStep ==
  ASSUME TypeOK, (On(Hive) /\ ensureHive) \/ (Off(Hive) /\ ensureNoHive)
  PROVE  ComponentStep
<1>1. Hive \in Charts \ {ConsoleMCE} /\ Hive \notin AddonCharts /\ Hive # HyperShift
  BY Distinct
<1>2. "hiveConfig" \in Operands \ {"addon", "plugin", "kinds"}
  BY DEF Operands
<1>3. Aside
  BY <1>2, AsideUnchanged, AsideOperand DEF ensureHive, ensureNoHive
<1>4. CASE On(Hive) /\ ensureHive
  <2>1. Installs(Hive)
    BY <1>1, <1>4, StopsInstalls, AppliesInstalls DEF ensureHive
  <2> QED
    BY <1>1, <1>3, <1>4, <2>1 DEF On, Enables, ComponentStep
<1>5. CASE Off(Hive) /\ ensureNoHive
  <2>1. UNCHANGED failure /\ \E t \in {"none", "off", "wait"} : Track(Hive, t)
    BY <1>5 DEF ensureNoHive
  <2>2. Removes(Hive)
    BY <1>1, <1>5, <2>1, LingersRemoves, DeletesRemoves DEF ensureNoHive
  <2> QED
    BY <1>1, <1>3, <1>5, <2>2 DEF Off, Disables, ComponentStep
<1> QED
  BY <1>4, <1>5

LEMMA OperatorsStep ==
  ASSUME TypeOK, Operators \/ ClusterAPIs
  PROVE  ComponentStep
<1>1. CASE (On(Hive) /\ ensureHive) \/ (Off(Hive) /\ ensureNoHive)
  BY <1>1, HiveStep
<1>2. CASE ~((On(Hive) /\ ensureHive) \/ (Off(Hive) /\ ensureNoHive))
  <2>1. PICK c \in {ImageBasedInstallOperator, Discovery, AssistedService, ClusterLifecycle,
                   ClusterPermission, ServerFoundation, ClusterAPI, ClusterAPIProviderAWS,
                   ClusterAPIProviderAzure, ClusterAPIProviderMetal, ClusterAPIProviderOA} :
          \/ On(c) /\ EnsureChart(c)
          \/ Off(c) /\ (EnsureNoChart(c) \/ EnsureNoChartTrackedFirst(c))
    BY <1>2
       DEF Operators, ClusterAPIs, ensureImageBasedInstallOperator, ensureNoImageBasedInstallOperator,
       ensureDiscovery, ensureNoDiscovery, ensureAssistedService, ensureNoAssistedService,
       ensureClusterLifecycle, ensureNoClusterLifecycle, ensureClusterPermission,
       ensureNoClusterPermission, ensureServerFoundation, ensureNoServerFoundation,
       ensureClusterAPI, ensureNoClusterAPI, ensureClusterAPIProviderAWS,
       ensureNoClusterAPIProviderAWS, ensureClusterAPIProviderAzure,
       ensureNoClusterAPIProviderAzure, ensureClusterAPIProviderMetal,
       ensureNoClusterAPIProviderMetal, ensureClusterAPIProviderOA, ensureNoClusterAPIProviderOA
  <2>2. c \in Charts \ {ConsoleMCE} /\ c \notin AddonCharts /\ c # HyperShift
    BY Distinct
  <2>3. Enables(c) \/ Disables(c)
    BY <2>1, <2>2, ChartOn, ChartOff
  <2> QED
    BY <2>2, <2>3 DEF ComponentStep
<1> QED
  BY <1>1, <1>2

LEMMA ClusterManagerStep ==
  ASSUME TypeOK, \/ On(ClusterManager) /\ ensureClusterManager
                 \/ Off(ClusterManager) /\ ensureNoClusterManager
  PROVE  ComponentStep
<1>1. /\ ClusterManager \in Charts \ {ConsoleMCE}
      /\ ClusterManager \notin AddonCharts /\ ClusterManager # HyperShift
  BY Distinct
<1>2. "clusterManager" \in Operands \ {"addon", "plugin", "kinds"}
  BY DEF Operands
<1>3. Aside
  BY <1>2, AsideUnchanged, AsideOperand DEF ensureClusterManager, ensureNoClusterManager
<1>4. CASE On(ClusterManager) /\ ensureClusterManager
  <2>1. Installs(ClusterManager)
    BY <1>1, <1>4, StopsInstalls, AppliesInstalls DEF ensureClusterManager
  <2> QED
    BY <1>1, <1>3, <1>4, <2>1 DEF On, Enables, ComponentStep
<1>5. CASE Off(ClusterManager) /\ ensureNoClusterManager
  <2>1. UNCHANGED failure /\ \E t \in {"none", "off", "wait"} : Track(ClusterManager, t)
    BY <1>5 DEF ensureNoClusterManager
  <2>2. Removes(ClusterManager)
    BY <1>1, <1>5, <2>1, LingersRemoves, DeletesRemoves DEF ensureNoClusterManager
  <2> QED
    BY <1>1, <1>3, <1>5, <2>2 DEF Off, Disables, ComponentStep
<1> QED
  BY <1>4, <1>5

LEMMA MaestroStep ==
  ASSUME TypeOK, Off(Maestro), ensureNoMaestro
  PROVE  ComponentStep
<1>1. Maestro \in Charts \ {ConsoleMCE} /\ Maestro \notin AddonCharts /\ Maestro # HyperShift
  BY Distinct
<1>2. UNCHANGED <<res, failure>> /\ \E t \in {"none", "off", "wait"} : Track(Maestro, t)
  BY DEF ensureNoMaestro
<1>3. Removes(Maestro)
  BY <1>1, <1>2, LingersRemoves, DeletesRemoves DEF ensureNoMaestro
<1> QED
  BY <1>1, <1>2, <1>3, AsideUnchanged DEF Off, Disables, ComponentStep

LEMMA HyperShiftOff ==
  ASSUME TypeOK, OffAddon(HyperShift), ensureNoHyperShift
  PROVE  Disables(HyperShift)
<1>1. HyperShift \in Charts /\ HyperShift \in AddonCharts
  BY Distinct
<1>2. UNCHANGED <<res, failure>> /\ \E t \in {"none", "off", "wait"} : Track(HyperShift, t)
  BY DEF ensureNoHyperShift
<1>3. Removes(HyperShift)
  BY <1>1, <1>2, LingersRemoves, DeletesRemoves DEF ensureNoHyperShift
<1>4. Untouched \/ res["addon"] = "absent"
  BY DEF ensureNoHyperShift
<1> QED
  BY <1>1, <1>2, <1>3, <1>4, AsideUnchanged DEF OffAddon, Disables, Untouched

LEMMA AddonsStep ==
  ASSUME TypeOK, Addons
  PROVE  ComponentStep
<1>1. CASE \/ OnAddon(HyperShift) /\ ensureHyperShift
           \/ OffAddon(HyperShift) /\ ensureNoHyperShift
  BY <1>1, AddonOn, HyperShiftOff, Distinct DEF ensureHyperShift, ComponentStep
<1>2. ASSUME NEW c \in {ManagedServiceAccount, FleetNavigation, ClusterProxyAddon},
             \/ OnAddon(c) /\ EnsureAddonChart(c)
             \/ OffAddon(c) /\ (EnsureNoChart(c) \/ EnsureNoChartTrackedFirst(c))
      PROVE  ComponentStep
  <2>1. c \in Charts \ {ConsoleMCE} /\ c \in AddonCharts /\ c # HyperShift
    BY Distinct
  <2>2. Enables(c) \/ Disables(c)
    BY <1>2, <2>1, AddonOn, AddonOff
  <2> QED
    BY <2>1, <2>2 DEF ComponentStep
<1>3. CASE \/ OnAddon(ManagedServiceAccount) /\ ensureManagedServiceAccount
           \/ OffAddon(ManagedServiceAccount) /\ ensureNoManagedServiceAccount
  BY <1>2, <1>3 DEF ensureManagedServiceAccount, ensureNoManagedServiceAccount
<1>4. CASE \/ OnAddon(FleetNavigation) /\ ensureFleetNavigation
           \/ OffAddon(FleetNavigation) /\ ensureNoFleetNavigation
  BY <1>2, <1>4 DEF ensureFleetNavigation, ensureNoFleetNavigation
<1>5. CASE \/ OnAddon(ClusterProxyAddon) /\ ensureClusterProxyAddon
           \/ OffAddon(ClusterProxyAddon) /\ ensureNoClusterProxyAddon
  BY <1>2, <1>5 DEF ensureClusterProxyAddon, ensureNoClusterProxyAddon
<1> QED
  BY <1>1, <1>3, <1>4, <1>5 DEF Addons

LEMMA ConsoleStep ==
  ASSUME TypeOK, Console \/ ConsoleNotManaged
  PROVE  ComponentStep
<1>1. ConsoleMCE \in Charts /\ "plugin" \in Operands
  BY Distinct DEF Operands
<1>2. CASE ConsoleNotManaged
  BY <1>2, AsideUnchanged DEF ConsoleNotManaged, Consoles, ComponentStep, Aside
<1>3. /\ UNCHANGED res => res' \in [Operands -> Existence]
      /\ \A e \in {"created", "absent"} : Put("plugin", e) =>
           /\ res' \in [Operands -> Existence]
           /\ res'["plugin"] = e /\ res'["addon"] = res["addon"] /\ res'["kinds"] = res["kinds"]
  BY DEF TypeOK, Put, Operands, Existence
<1>4. CASE Console /\ ensureConsoleMCE
  <2>1. Installs(ConsoleMCE)
    BY <1>1, <1>4, StopsInstalls, AppliesInstalls DEF ensureConsoleMCE
  <2>2. chart'[ConsoleMCE] = "none" => chart[ConsoleMCE] = "none"
    BY <1>1, <2>1 DEF Installs, TypeOK
  <2>3. UNCHANGED res \/ (Put("plugin", "created") /\ chart'[ConsoleMCE] = "all")
    BY <1>1, <1>4, AppliesInstalls DEF ensureConsoleMCE
  <2> QED
    BY <1>3, <1>4, <2>1, <2>2, <2>3 DEF Console, Consoles, ComponentStep
<1>5. CASE Console /\ ensureNoConsoleMCE
  <2>1. UNCHANGED failure /\ \E t \in {"none", "off", "wait"} : Track(ConsoleMCE, t)
    BY <1>5 DEF ensureNoConsoleMCE
  <2>2. Removes(ConsoleMCE)
    BY <1>1, <1>5, <2>1, LingersRemoves, DeletesRemoves DEF ensureNoConsoleMCE
  <2>3. (UNCHANGED res /\ Untouched) \/ Put("plugin", "absent")
    BY <1>5 DEF ensureNoConsoleMCE
  <2> QED
    BY <1>3, <1>5, <2>2, <2>3 DEF Console, Consoles, ComponentStep, Untouched
<1> QED
  BY <1>2, <1>4, <1>5 DEF Console

LEMMA HostingStep ==
  ASSUME TypeOK, SourceOrder[at] = LocalHosting, reconcileHypershiftLocalHosting
  PROVE  Chartless(LocalHosting)
<1> USE DEF reconcileHypershiftLocalHosting, applyHypershiftLocalHosting, removeHypershiftLocalHosting
<1>1. UNCHANGED <<iec, chart, up>> /\ \E t \in {"on", "off", "wait"} : Track(LocalHosting, t)
  OBVIOUS
<1>2. failure' \in BOOLEAN
  BY DEF TypeOK
<1>3. faults' \in 0..MaxFaults
  BY FaultType
<1>4. UNCHANGED res \/ applyOperand("addon") \/ deleteOperand("addon")
  OBVIOUS
<1>5. /\ res' \in [Operands -> Existence] /\ \A r \in {"plugin", "kinds"} : res'[r] = res[r]
      /\ res'["addon"] \in {"held", "terminating"} => res["addon"] \in {"held", "terminating"}
  BY <1>4, ExistenceType DEF applyOperand, deleteOperand, Put, TypeOK, Operands, Existence
<1> QED
  BY <1>1, <1>2, <1>3, <1>5 DEF Chartless

LEMMA LocalClusterStep ==
  ASSUME TypeOK,
         (On(LocalCluster) /\ ensureLocalCluster) \/ (Off(LocalCluster) /\ ensureNoLocalCluster)
  PROVE  Chartless(LocalCluster)
<1> USE DEF ensureLocalCluster, ensureNoLocalCluster
<1>1. /\ SourceOrder[at] = LocalCluster /\ UNCHANGED <<iec, chart, up, failure>>
      /\ \E t \in {"on", "off", "wait"} : Track(LocalCluster, t)
  BY DEF On, Off
<1>2. faults' \in 0..MaxFaults
  BY FaultType
<1>3. {"managedCluster", "localNs"} \subseteq Operands \ {"addon", "plugin", "kinds"}
  BY DEF Operands
<1>4. Aside
  BY <1>3, AsideUnchanged, AsideOperand
<1> QED
  BY <1>1, <1>2, <1>4 DEF Chartless, Aside, TypeOK

\* Every component's function does one of these.
LEMMA ComponentSteps ==
  ASSUME TypeOK, Addons \/ Hub \/ Operators \/ ClusterAPIs
  PROVE  ComponentStep
<1>1. CASE Operators \/ ClusterAPIs
  BY <1>1, OperatorsStep
<1>2. CASE Hub
  BY <1>2, ConsoleStep, ClusterManagerStep, MaestroStep, HostingStep, LocalClusterStep
     DEF Hub, ComponentStep
<1> QED
  BY <1>1, <1>2, AddonsStep
-----------------------------------------------------------------------------
(* Type correctness *)

LEMMA TrackType ==
  ASSUME TypeOK, NEW c \in Components, NEW t \in {"none", "on", "off", "wait"}, Track(c, t)
  PROVE  tracked' \in [Components -> {"none", "on", "off", "wait"}]
  BY DEF TypeOK, Track

\* What the component's functions write is of its type.
Written ==
  /\ iec' \in [Charts -> {"absent", "present", "terminating"}]
  /\ chart' \in [Charts -> {"none", "some", "all"}]
  /\ up' \in SUBSET Charts
  /\ res' \in [Operands -> Existence]
  /\ tracked' \in [Components -> {"none", "on", "off", "wait"}]
  /\ failure' \in BOOLEAN
  /\ faults' \in 0..MaxFaults

LEMMA ChartWritten ==
  ASSUME TypeOK, NEW c \in Charts, Installs(c) \/ Removes(c), res' \in [Operands -> Existence]
  PROVE  Written
<1>1. c \in Components
  BY Names
<1>2. tracked' \in [Components -> {"none", "on", "off", "wait"}]
  BY <1>1, TrackType DEF Installs, Removes
<1>3. iec' \in [Charts -> {"absent", "present", "terminating"}]
  BY DEF TypeOK, Installs, Removes, IECs
<1>4. chart' \in [Charts -> {"none", "some", "all"}]
  BY DEF TypeOK, Installs, Removes, Extents
<1>5. up' \in SUBSET Charts
  BY DEF TypeOK, Installs, Removes
<1>6. failure' \in BOOLEAN /\ faults' \in 0..MaxFaults
  BY DEF TypeOK, Installs, Removes
<1> QED
  BY <1>2, <1>3, <1>4, <1>5, <1>6 DEF Written

LEMMA StepWritten ==
  ASSUME TypeOK, ComponentStep
  PROVE  Written
<1>1. CASE \E c \in Charts \ {ConsoleMCE} : Enables(c) \/ Disables(c)
  BY <1>1, ChartWritten DEF Enables, Disables, Aside
<1>2. CASE Consoles
  <2>1. ConsoleMCE \in Charts
    BY Distinct
  <2>2. CASE UNCHANGED <<iec, chart, up, tracked, failure, faults>>
    BY <1>2, <2>2 DEF Consoles, Written, TypeOK
  <2> QED
    BY <1>2, <2>1, <2>2, ChartWritten DEF Consoles
<1>3. ASSUME NEW c \in Components, Chartless(c)
      PROVE  Written
  <2>1. tracked' \in [Components -> {"none", "on", "off", "wait"}]
    BY <1>3, TrackType DEF Chartless
  <2> QED
    BY <1>3, <2>1 DEF Chartless, Written, TypeOK
<1> QED
  BY <1>1, <1>2, <1>3, Names DEF ComponentStep

\* A step of the pass through the components, for the invariants.
LEMMA PassStep ==
  ASSUME TypeOK, ensureToggleableComponents
  PROVE  /\ Written
         /\ UNCHANGED <<enabled, edits, ocpConsole, snap, fresh, progressing, phase>>
         /\ at \in Places
         /\ \/ ComponentStep /\ at' \in After(at)
            \/ SourceOrder[at] = ConsoleMCE /\ at' = End
               /\ UNCHANGED <<iec, chart, up, res, tracked, failure>>
<1>1. CASE (Addons \/ Hub \/ Operators \/ ClusterAPIs) /\ at' \in After(at)
  BY <1>1, ComponentSteps, StepWritten DEF ensureToggleableComponents
<1>2. CASE CheckConsoleFails /\ at' = End
  <2>1. faults' \in 0..MaxFaults
    BY <1>2, FaultType DEF CheckConsoleFails
  <2> QED
    BY <1>2, <2>1 DEF ensureToggleableComponents, CheckConsoleFails, Written, TypeOK
<1> QED
  BY <1>1, <1>2 DEF ensureToggleableComponents

\* What the owners of the operands do to them.
LEMMA OwnersType ==
  ASSUME TypeOK, Owners
  PROVE  TypeOK'
<1>1. ASSUME NEW r \in Operands, NEW from, NEW to \in Existence, Becomes(r, from, to)
      PROVE  TypeOK'
  BY <1>1 DEF Becomes, othersVars, TypeOK
<1>2. CASE Provide \/ Reclaim
  BY <1>1, <1>2 DEF Provide, Reclaim, Operands, Existence
<1>3. CASE \E r \in Operands : Hold(r) \/ Release(r)
  BY <1>1, <1>3 DEF Hold, Release, Existence
<1>4. CASE \E cs \in Batches : RollOut(cs, {"all"}) \/ RollOut(cs, {"some", "all"})
  <2>1. PICK cs \in Batches, extents \in {{"all"}, {"some", "all"}} : RollOut(cs, extents)
    BY <1>4
  <2>2. up' \in SUBSET Charts
    BY <2>1, ToggleAssumption DEF RollOut, TypeOK
  <2> QED
    BY <2>1, <2>2 DEF RollOut, othersVars, TypeOK
<1>5. CASE \E c \in Charts : IECReleased(c)
  BY <1>5 DEF IECReleased, othersVars, TypeOK
<1> QED
  BY <1>2, <1>3, <1>4, <1>5 DEF Owners

LEMMA TypeInit ==
  ASSUME Init
  PROVE  TypeOK
<1>1. res \in [Operands -> Existence]
  BY DEF Init, Existence
<1>2. 0 \in 0..MaxEdits /\ 0 \in 0..MaxFaults
  BY ToggleAssumption
<1> QED
  BY <1>1, <1>2, ToggleAssumption DEF Init, TypeOK

LEMMA TypeStep ==
  ASSUME TypeOK, [Next]_vars
  PROVE  TypeOK'
<1>1. CASE Owners
  BY <1>1, OwnersType
<1>2. CASE EnableConsole
  BY <1>2 DEF EnableConsole, TypeOK
<1>3. ASSUME NEW c \in Editable, Toggle(c)
      PROVE  TypeOK'
  <2>1. enabled' \in SUBSET Components
    BY <1>3, ToggleAssumption DEF Toggle, TypeOK
  <2>2. edits' \in 0..MaxEdits
    BY <1>3, ToggleAssumption DEF Toggle, TypeOK
  <2> QED
    BY <1>3, <2>1, <2>2 DEF Toggle, TypeOK
<1>4. CASE DisableMaestro
  BY <1>4 DEF DisableMaestro, TypeOK
<1>5. CASE StartPass
  <2>1. at' \in {0, End} \cup Places
    BY <1>5 DEF StartPass, After
  <2>2. tracked' \in [Components -> {"none", "on", "off", "wait"}]
    BY <1>5 DEF StartPass
  <2>3. progressing' \in BOOLEAN /\ faults' \in 0..MaxFaults
    BY <1>5, FaultType DEF StartPass
  <2> QED
    BY <1>5, <2>1, <2>2, <2>3 DEF StartPass, TypeOK
<1>6. CASE ensureToggleableComponents
  <2>1. at' \in {0, End} \cup Places
    BY <1>6, PassStep DEF After
  <2> QED
    BY <1>6, <2>1, PassStep DEF Written, TypeOK
<1>7. CASE ReportStatus
  <2>1. \A progress \in BOOLEAN : reportPhase(progress) \in {"Progressing", "Error", "Available"}
    BY DEF reportPhase
  <2>2. phase' \in {"none", "Progressing", "Error", "Available"}
    BY <1>7, <2>1 DEF ReportStatus, TypeOK
  <2> QED
    BY <1>7, <2>2 DEF ReportStatus, TypeOK
<1>8. CASE UNCHANGED vars
  BY <1>8 DEF vars, TypeOK
<1> QED
  BY <1>1, <1>2, <1>3, <1>4, <1>5, <1>6, <1>7, <1>8 DEF Next, Pass

\* The state of the passes, of the charts and of the operands is always of its type: no
\* function of a component writes a status, an extent or an operand that is not there.
THEOREM TypeCorrect == Spec => []TypeOK
  BY TypeInit, TypeStep, PTL DEF Spec
-----------------------------------------------------------------------------
(* What is there while others need it *)

\* The operands' operators touch no chart and no plugin, put their finalizer on the addon
\* only while its manager runs, and never take the hub's kinds away again.
LEMMA OwnersKeep ==
  ASSUME TypeOK, Owners
  PROVE  /\ UNCHANGED <<enabled, chart, at, snap, fresh, tracked, phase>>
         /\ \A c \in up' : c \in up \/ chart[c] # "none"
         /\ res'["plugin"] = res["plugin"]
         /\ res["kinds"] = "held" => res'["kinds"] = "held"
         /\ res'["addon"] \in {"held", "terminating"}
              => res["addon"] \in {"held", "terminating"} \/ Running(HyperShift)
<1>1. UNCHANGED <<enabled, chart, at, snap, fresh, tracked, phase>>
  BY DEF Owners, RollOut, IECReleased, Hold, Release, Provide, Reclaim, Becomes, othersVars
<1>2. CASE UNCHANGED res
  <2>1. \A c \in up' : c \in up \/ chart[c] # "none"
    BY DEF Owners, RollOut, IECReleased, Hold, Release, Provide, Reclaim, Becomes
  <2> QED
    BY <1>1, <1>2, <2>1
<1>3. CASE Provide \/ Reclaim \/ \E r \in Operands : Hold(r) \/ Release(r)
  <2>1. UNCHANGED up
    BY <1>3 DEF Hold, Release, Provide, Reclaim, Becomes
  <2>2. CASE Provide \/ Reclaim
    BY <1>1, <2>1, <2>2 DEF Provide, Reclaim, Becomes, TypeOK, Operands
  <2>3. CASE \E r \in Operands : Hold(r) \/ Release(r)
    <3>1. PICK r \in Operands : Hold(r) \/ Release(r)
      BY <2>3
    <3>2. r \notin {"plugin", "kinds"} /\ (r = "addon" => Running(HyperShift))
      BY <3>1 DEF Hold, Release, Kept
    <3>3. PICK e \in {"held", "absent"} : res' = [res EXCEPT ![r] = e]
      BY <3>1 DEF Hold, Release, Becomes
    <3> QED
      BY <1>1, <2>1, <3>2, <3>3 DEF TypeOK, Operands
  <2> QED
    BY <1>3, <2>2, <2>3
<1> QED
  BY <1>2, <1>3 DEF Owners, RollOut, IECReleased

\* The other steps that leave charts and operands alone.
Elsewhere ==
  \/ EnableConsole \/ DisableMaestro \/ StartPass \/ ReportStatus
  \/ \E c \in Editable : Toggle(c)

LEMMA ElsewhereKeeps ==
  ASSUME Elsewhere \/ UNCHANGED vars
  PROVE  UNCHANGED <<chart, up, res>>
  BY DEF Elsewhere, EnableConsole, DisableMaestro, StartPass, ReportStatus, Toggle, vars

LEMMA Steps ==
  [Next]_vars => Owners \/ ensureToggleableComponents \/ Elsewhere \/ UNCHANGED vars
  BY DEF Next, Pass, Elsewhere

\* A step of another component leaves a component's chart alone.
LEMMA OtherChart ==
  ASSUME TypeOK, ComponentStep, NEW c \in Charts
  PROVE  \/ chart'[c] = chart[c]
         \/ c = ConsoleMCE /\ Consoles
         \/ c # ConsoleMCE /\ (Enables(c) \/ Disables(c))
<1>1. ASSUME NEW d \in Charts, Installs(d) \/ Removes(d), d # c
      PROVE  chart'[c] = chart[c]
  BY <1>1 DEF Installs, Removes, TypeOK
<1>2. CASE \E d \in Charts \ {ConsoleMCE} : Enables(d) \/ Disables(d)
  BY <1>1, <1>2 DEF Enables, Disables
<1>3. CASE Consoles
  BY <1>1, <1>3, Distinct DEF Consoles
<1> QED
  BY <1>2, <1>3 DEF ComponentStep, Chartless

LEMMA PluginServedInit ==
  ASSUME Init
  PROVE  PluginServed
  BY DEF Init, PluginServed, Operands

LEMMA PluginServedStep ==
  ASSUME TypeOK, PluginServed, [Next]_vars
  PROVE  PluginServed'
<1>1. CASE Owners
  BY <1>1, OwnersKeep DEF PluginServed
<1>2. CASE ensureToggleableComponents /\ ComponentStep
  <2>1. CASE Consoles
    BY <2>1 DEF Consoles, PluginServed
  <2>2. CASE ~Consoles
    <3>1. chart'[ConsoleMCE] = chart[ConsoleMCE]
      BY <1>2, <2>2, OtherChart, Distinct
    <3>2. res'["plugin"] = res["plugin"]
      BY <1>2, <2>2 DEF ComponentStep, Enables, Disables, Chartless, Aside
    <3> QED
      BY <3>1, <3>2 DEF PluginServed
  <2> QED
    BY <2>1, <2>2
<1>3. CASE UNCHANGED <<chart, res>>
  BY <1>3 DEF PluginServed
<1> QED
  BY <1>1, <1>2, <1>3, Steps, PassStep, ElsewhereKeeps

\* OpenShift's console is never told to load a plugin whose chart is gone (ensureConsoleMCE
\* lists it once the templates are applied, ensureNoConsoleMCE takes it off the list before
\* they go), whichever call fails and whatever else the passes install or remove.
THEOREM PluginNeverOrphaned == Spec => []PluginServed
<1>1. Init => TypeOK /\ PluginServed
  BY TypeInit, PluginServedInit
<1>2. TypeOK /\ PluginServed /\ [Next]_vars => (TypeOK /\ PluginServed)'
  BY TypeStep, PluginServedStep
<1> QED
  BY <1>1, <1>2, PTL DEF Spec

\* A component whose deployment is up has templates.
UpApplied == \A c \in up : chart[c] # "none"

LEMMA UpAppliedStep ==
  ASSUME TypeOK, UpApplied, [Next]_vars
  PROVE  UpApplied'
<1>1. CASE Owners
  BY <1>1, OwnersKeep DEF UpApplied
<1>2. CASE ensureToggleableComponents /\ ComponentStep
  <2>1. ASSUME NEW c \in Charts, Installs(c) \/ Removes(c)
        PROVE  UpApplied'
    <3>1. up' \subseteq up /\ \A d \in Charts \ {c} : chart'[d] = chart[d]
      BY <2>1 DEF Installs, Removes, TypeOK
    <3>2. c \in up' => chart'[c] # "none"
      BY <2>1 DEF Installs, Removes, TypeOK, UpApplied
    <3> QED
      BY <3>1, <3>2 DEF UpApplied, TypeOK
  <2>2. UNCHANGED <<chart, up>> => UpApplied'
    BY DEF UpApplied
  <2> QED
    BY <1>2, <2>1, <2>2, Distinct DEF ComponentStep, Enables, Disables, Consoles, Chartless
<1>3. CASE UNCHANGED <<chart, up, res>>
  BY <1>3 DEF UpApplied
<1> QED
  BY <1>1, <1>2, <1>3, Steps, PassStep, ElsewhereKeeps

\* A finalizer comes onto the addon only from its manager, so the manager is already needed
\* while the addon is merely held.
ManagerThere ==
  HyperShift \in Managed /\ res["addon"] \in {"held", "terminating"} => chart[HyperShift] # "none"

LEMMA ManagerThereInit ==
  ASSUME Init
  PROVE  ManagerThere
  BY DEF Init, ManagerThere, Operands

LEMMA ManagerThereStep ==
  ASSUME TypeOK, UpApplied, ManagerThere, [Next]_vars
  PROVE  ManagerThere'
<1>1. CASE Owners
  BY <1>1, OwnersKeep DEF ManagerThere, Running, UpApplied
<1>2. CASE ensureToggleableComponents /\ ComponentStep
  <2>1. HyperShift \in Charts /\ HyperShift # ConsoleMCE
    BY Distinct
  <2>2. res'["addon"] \in {"held", "terminating"} => res["addon"] \in {"held", "terminating"}
    BY <1>2, Distinct DEF ComponentStep, Enables, Disables, Consoles, Chartless, Aside
  <2>3. chart'[HyperShift] = "none" => chart[HyperShift] = "none" \/ res["addon"] = "absent"
    <3>1. CASE Enables(HyperShift)
      BY <2>1, <3>1 DEF Enables, Installs, TypeOK
    <3>2. CASE Disables(HyperShift)
      BY <3>2 DEF Disables
    <3> QED
      BY <1>2, <2>1, <3>1, <3>2, OtherChart
  <2> QED
    BY <2>2, <2>3 DEF ManagerThere
<1>3. CASE UNCHANGED <<chart, res>>
  BY <1>3 DEF ManagerThere
<1> QED
  BY <1>1, <1>2, <1>3, Steps, PassStep, ElsewhereKeeps

\* The hypershift addon is never left terminating with nobody to take its finalizer off: the
\* chart its manager is in stays until the addon is gone (ensureNoHyperShift), however
\* hypershift, local hosting and the local cluster are switched on and off meanwhile.
THEOREM AddonNeverStranded == Spec => []ManagerOutlivesAddon
<1>1. Init => TypeOK /\ UpApplied /\ ManagerThere
  BY TypeInit, ManagerThereInit DEF Init, UpApplied
<1>2. TypeOK /\ UpApplied /\ ManagerThere /\ [Next]_vars => (TypeOK /\ UpApplied /\ ManagerThere)'
  BY TypeStep, UpAppliedStep, ManagerThereStep
<1>3. ManagerThere => ManagerOutlivesAddon
  BY DEF ManagerThere, ManagerOutlivesAddon
<1> QED
  BY <1>1, <1>2, <1>3, PTL DEF Spec
-----------------------------------------------------------------------------
(* What a report of Available means *)

\* Kinds an earlier installation left behind stay.
KindsStay == KindsFirst => res["kinds"] = "held"

LEMMA KindsStayStep ==
  ASSUME TypeOK, KindsStay, [Next]_vars
  PROVE  KindsStay'
<1>1. CASE Owners
  BY <1>1, OwnersKeep DEF KindsStay
<1>2. CASE ensureToggleableComponents /\ ComponentStep
  <2>1. res'["kinds"] = res["kinds"]
    BY <1>2 DEF ComponentStep, Enables, Disables, Consoles, Chartless, Aside
  <2> QED
    BY <2>1 DEF KindsStay
<1>3. CASE UNCHANGED res
  BY <1>3 DEF KindsStay
<1> QED
  BY <1>1, <1>2, <1>3, Steps, PassStep, ElsewhereKeeps

\* As long as nobody has edited the MCE a pass works on the spec as it is stored.
FreshSnap == at # 0 /\ fresh => snap = enabled

\* Maestro is switched off before a pass reads the spec.
NoMaestro == at # 0 => Maestro \notin snap

\* Only the last component is tracked as the local cluster.
LocalLast == at # 0 /\ tracked[LocalCluster] # "none" => at = End

\* A component whose removal is not called for by the spec or by missing kinds.
Wanted(c) == c \in snap \cap Charts /\ c # ConsoleMCE /\ (KindsFirst \/ c \notin AddonCharts)

\* Of the places a pass has been at, unless it was cut short, every wanted component is
\* tracked as one to be installed.
SeenTracked ==
  at # 0 /\ (at # End \/ tracked[LocalCluster] # "none")
    => \A i \in Places :
         i < at /\ Wanted(SourceOrder[i]) => tracked[SourceOrder[i]] \in {"on", "wait"}

ReportInv == KindsStay /\ FreshSnap /\ NoMaestro /\ LocalLast /\ SeenTracked

LEMMA ReportInit ==
  ASSUME Init
  PROVE  ReportInv
<1>1. KindsStay
  BY DEF Init, KindsStay, Operands
<1> QED
  BY <1>1 DEF Init, ReportInv, FreshSnap, NoMaestro, LocalLast, SeenTracked

\* The components' functions register the component they are about and no other.
LEMMA TracksOwn ==
  ASSUME TypeOK, ComponentStep
  PROVE  \A c \in Components : c # SourceOrder[at] => tracked'[c] = tracked[c]
<1>1. ASSUME NEW d \in Components, NEW t, Track(d, t), NEW c \in Components, c # d
      PROVE  tracked'[c] = tracked[c]
  BY <1>1 DEF Track, TypeOK
<1>2. \A d : Installs(d) \/ Removes(d) \/ Chartless(d) => \E t : Track(d, t)
  BY DEF Installs, Removes, Chartless
<1> QED
  BY <1>1, <1>2, Names DEF ComponentStep, Enables, Disables, Consoles, Chartless

\* The component of the place is registered for installation if it is wanted.
LEMMA WantedTracked ==
  ASSUME TypeOK, KindsStay, ComponentStep, Wanted(SourceOrder[at])
  PROVE  tracked'[SourceOrder[at]] \in {"on", "wait"}
<1> DEFINE c == SourceOrder[at]
<1>1. c \in Charts \ {ConsoleMCE} /\ c \in Components
  BY Names DEF Wanted
<1>2. Enables(c) \/ Disables(c)
  BY <1>1, Distinct DEF ComponentStep, Enables, Disables, Consoles, Chartless
<1>3. ~Disables(c)
  BY DEF Disables, Wanted, KindsStay, CanInstallAddons
<1>4. \E t \in {"on", "wait"} : Track(c, t)
  BY <1>2, <1>3 DEF Enables, Installs
<1> QED
  BY <1>1, <1>4 DEF Track, TypeOK

LEMMA SeenStep ==
  ASSUME TypeOK, KindsStay, LocalLast, SeenTracked, ensureToggleableComponents
  PROVE  LocalLast' /\ SeenTracked'
<1>1. at \in Places /\ at # 0 /\ at # End /\ at \in 1..21 /\ End = 22
  <2>1. at \in Places
    BY PassStep
  <2> QED
    BY <2>1, Places21
<1>2. tracked[LocalCluster] = "none"
  BY <1>1 DEF LocalLast
<1>3. UNCHANGED snap
  BY PassStep
<1>4. CASE at' = End /\ UNCHANGED tracked
  BY <1>2, <1>4 DEF LocalLast, SeenTracked
<1>5. CASE ComponentStep /\ at' \in After(at)
  <2>1. \A i \in Places : i < at' => i <= at
    BY <1>1, <1>5, Places21 DEF After
  <2>2. LocalLast'
    <3>1. CASE SourceOrder[at] = LocalCluster
      <4>1. at = 21
        BY <1>1, <3>1, Places21
      <4>2. at' \in Places \cup {End} /\ at < at'
        BY <1>5 DEF After
      <4>3. at' = End
        BY <4>1, <4>2, Places21
      <4> QED
        BY <4>3 DEF LocalLast
    <3>2. CASE SourceOrder[at] # LocalCluster
      BY <1>2, <1>5, <3>2, TracksOwn, Names DEF LocalLast
    <3> QED
      BY <3>1, <3>2
  <2>3. ASSUME NEW i \in Places, i < at', Wanted(SourceOrder[i])'
        PROVE  tracked'[SourceOrder[i]] \in {"on", "wait"}
    <3>1. Wanted(SourceOrder[i]) /\ SourceOrder[i] \in Components
      BY <1>3, <2>3, Names DEF Wanted
    <3>2. CASE SourceOrder[i] = SourceOrder[at]
      BY <1>5, <3>1, <3>2, WantedTracked
    <3>3. CASE SourceOrder[i] # SourceOrder[at]
      <4>1. i < at
        BY <1>1, <2>1, <2>3, <3>3, Places21
      <4>2. tracked[SourceOrder[i]] \in {"on", "wait"}
        BY <1>1, <3>1, <4>1 DEF SeenTracked
      <4> QED
        BY <1>5, <3>1, <3>3, <4>2, TracksOwn
    <3> QED
      BY <3>2, <3>3
  <2>4. SeenTracked'
    BY <2>3 DEF SeenTracked
  <2> QED
    BY <2>2, <2>4
<1> QED
  BY <1>4, <1>5, PassStep

LEMMA ReportStep ==
  ASSUME TypeOK, ReportInv, [Next]_vars
  PROVE  ReportInv'
<1>1. KindsStay'
  BY KindsStayStep DEF ReportInv
<1>2. CASE ensureToggleableComponents
  <2>1. UNCHANGED <<enabled, snap, fresh>> /\ at # 0
    BY <1>2, PassStep, Places21
  <2>2. NoMaestro' /\ FreshSnap'
    BY <2>1 DEF ReportInv, NoMaestro, FreshSnap
  <2> QED
    BY <1>1, <1>2, <2>2, SeenStep DEF ReportInv
<1>3. CASE StartPass
  <2>1. NoMaestro' /\ FreshSnap'
    BY <1>3 DEF StartPass, NoMaestro, FreshSnap
  <2>2. tracked'[LocalCluster] = "none"
    BY <1>3, Names DEF StartPass
  <2>3. \A i \in Places : ~(i < at')
    BY <1>3, Places21 DEF StartPass, After
  <2> QED
    BY <1>1, <2>1, <2>2, <2>3 DEF ReportInv, LocalLast, SeenTracked
<1>4. CASE at' = 0
  BY <1>1, <1>4 DEF ReportInv, FreshSnap, NoMaestro, LocalLast, SeenTracked
<1>5. CASE UNCHANGED <<at, snap, tracked>> /\ (fresh' => fresh /\ UNCHANGED enabled)
  BY <1>1, <1>5 DEF ReportInv, FreshSnap, NoMaestro, LocalLast, SeenTracked, Wanted
<1>6. CASE Owners \/ UNCHANGED vars
  BY <1>5, <1>6, OwnersKeep DEF vars
<1>7. CASE DisableMaestro \/ ReportStatus
  BY <1>4, <1>7 DEF DisableMaestro, ReportStatus
<1>8. CASE EnableConsole
  BY <1>5, <1>8 DEF EnableConsole
<1>9. ASSUME NEW c \in Editable, Toggle(c)
      PROVE  ReportInv'
  BY <1>5, <1>9 DEF Toggle
<1> QED
  BY <1>2, <1>3, <1>6, <1>7, <1>8, <1>9, Steps DEF Elsewhere

\* The status reporter calls no component available that waits or is not up.
LEMMA AvailableUp ==
  ASSUME NEW c \in Charts, tracked[c] \in {"on", "wait"}, Available(c)
  PROVE  c \in up
<1>1. c # LocalHosting /\ c # LocalCluster
  BY Distinct
<1> QED
  BY <1>1 DEF Available, EnabledStatus, ClusterManagerStatus

\* A report of Available after a pass that went through to its last component: every chart
\* the stored spec enables is up.
LEMMA ReportTrue ==
  ASSUME TypeOK, ReportInv, ReportStatus, fresh, phase' = "Available",
         tracked[LocalCluster] # "none", NEW c \in enabled \cap (Managed \ {ConsoleMCE}),
         KindsFirst \/ c \notin AddonCharts
  PROVE  c \in up
<1>1. at = End /\ End = 22 /\ \E progress \in BOOLEAN : reportPhase(progress) = "Available"
  BY Places21 DEF ReportStatus, TypeOK
<1>2. c \in snap /\ c \in Charts /\ c \in Components /\ c # Maestro
  BY <1>1, ToggleAssumption, Names DEF ReportInv, NoMaestro, FreshSnap
<1>3. PICK i \in 1..21 : SourceOrder[i] = c
  BY <1>2, Places21 DEF Components
<1>4. i \in Places /\ i < at
  BY <1>1, <1>2, <1>3, Places21 DEF Places
<1>5. tracked[c] \in {"on", "wait"}
  BY <1>1, <1>2, <1>3, <1>4 DEF ReportInv, SeenTracked, Wanted
<1>6. Available(c)
  BY <1>1, <1>2, <1>5 DEF reportPhase
<1> QED
  BY <1>2, <1>5, <1>6, AvailableUp

\* After a pass that went through to the local cluster the phase is not Available unless the
\* deployments of every chart the stored spec enables are available, whatever failed in the
\* pass, whatever was edited meanwhile and however late the deployments come up (ReportStatus,
\* with the reporters the ensure functions register).
THEOREM AvailableIsTrue == Spec => AvailableMeansRunning
<1>1. Init => TypeOK /\ ReportInv
  BY TypeInit, ReportInit
<1>2. TypeOK /\ ReportInv /\ [Next]_vars => (TypeOK /\ ReportInv)'
  BY TypeStep, ReportStep
<1>3. TypeOK /\ ReportInv /\ [Next]_vars =>
        [AvailableReported /\ tracked[LocalCluster] # "none"
           => \A c \in enabled \cap (Managed \ {ConsoleMCE}) :
                KindsFirst \/ c \notin AddonCharts => c \in up]_vars
  <2> SUFFICES ASSUME TypeOK, ReportInv, [Next]_vars, AvailableReported,
                      tracked[LocalCluster] # "none"
               PROVE  \A c \in enabled \cap (Managed \ {ConsoleMCE}) :
                        KindsFirst \/ c \notin AddonCharts => c \in up
    OBVIOUS
  <2>1. at # 0 /\ at' = 0 /\ fresh /\ phase' = "Available"
    BY DEF AvailableReported
  <2>2. ~ensureToggleableComponents
    <3>1. ensureToggleableComponents => at' \in Places \cup {End}
      BY PassStep DEF After
    <3> QED
      BY <2>1, <3>1, Places21
  <2>3. ReportStatus
    BY <2>1, <2>2, Steps, OwnersKeep
       DEF Elsewhere, EnableConsole, DisableMaestro, StartPass, Toggle, vars
  <2> QED
    BY <2>1, <2>3, ReportTrue
<1> QED
  BY <1>1, <1>2, <1>3, PTL DEF Spec, AvailableMeansRunning
=============================================================================
