---------------------------- MODULE SetupProofs ----------------------------
(***************************************************************************)
(* Proofs about a launch from the request to the workload's exec, for      *)
(* every request and every host: what is admitted (LaunchConfig), what the *)
(* native child has when it executes (ChildSetup), and what runsc is given *)
(* (GVisorLaunch).                                                         *)
(***************************************************************************)
EXTENDS GVisorLaunch, TLAPS

---------------------------------------------------------------------------
(* Admission. *)

\* The request and the machine a launch begins with are of the assumed kinds.
LEMMA AdmissionInit == LaunchConfigInit => AdmissionInOrder
  BY LaunchAssumption DEF LaunchConfigInit, LaunchBegins, AdmissionInOrder, Admitted

\* Handing a detached request to systemd changes nothing but the switch.
LEMMA DetachStep == ASSUME AdmissionInOrder, Detach PROVE AdmissionInOrder'
<1>1. request' \in Configs
  BY DEF AdmissionInOrder, Detach, Configs
<1> QED
  BY <1>1 DEF AdmissionInOrder, Detach, Admitted

\* A configuration stays one when a field gets a value of its kind.
LEMMA ConfigUpdates ==
  ASSUME NEW r \in Configs
  PROVE  /\ \A x \in {"agent", "strict-agent", "production"} : [r EXCEPT !.mode = x] \in Configs
         /\ \A x \in SUBSET {"memory", "cpu", "io", "pids", "no-pids"} : [r EXCEPT !.limits = x] \in Configs
         /\ \A x \in {"none", "allowlist", "deny-all", "broker-only"} : [r EXCEPT !.egress = x] \in Configs
         /\ \A x \in {"none", "store", "elsewhere"} : [r EXCEPT !.rootfs = x] \in Configs
         /\ \A x \in SUBSET Nat : [r EXCEPT !.uidmap = x] \in Configs
         /\ \A x \in {"native", "gvisor"} : [r EXCEPT !.runtime = x] \in Configs
<1>1. \A x \in {"agent", "strict-agent", "production"} : [r EXCEPT !.mode = x] \in Configs
  BY DEF Configs
<1>2. \A x \in SUBSET {"memory", "cpu", "io", "pids", "no-pids"} : [r EXCEPT !.limits = x] \in Configs
  BY DEF Configs
<1>3. \A x \in {"none", "allowlist", "deny-all", "broker-only"} : [r EXCEPT !.egress = x] \in Configs
  BY DEF Configs
<1>4. \A x \in {"none", "store", "elsewhere"} : [r EXCEPT !.rootfs = x] \in Configs
  BY DEF Configs
<1>5. \A x \in SUBSET Nat : [r EXCEPT !.uidmap = x] \in Configs
  BY DEF Configs
<1>6. \A x \in {"native", "gvisor"} : [r EXCEPT !.runtime = x] \in Configs
  BY DEF Configs
<1> QED BY <1>1, <1>2, <1>3, <1>4, <1>5, <1>6, Zenon

\* The limits, the policy and the mappings of a configuration are well formed.
LEMMA Completed ==
  ASSUME request \in Configs, host \in Machines
  PROVE  /\ ServiceModeOf(request) \in {"agent", "strict-agent", "production"}
         /\ LimitsOf(request) \in SUBSET {"memory", "cpu", "io", "pids", "no-pids"}
         /\ EgressPolicyOf(request) \in {"none", "allowlist", "deny-all", "broker-only"}
         /\ UserMapOf(request) \in SUBSET Nat
<1>1. ServiceModeOf(request) \in {"agent", "strict-agent", "production"}
  BY DEF ServiceModeOf, Configs
<1>2. LimitsOf(request) \in SUBSET {"memory", "cpu", "io", "pids", "no-pids"}
  BY DEF LimitsOf, Configs
<1>3. EgressPolicyOf(request) \in {"none", "allowlist", "deny-all", "broker-only"}
  BY DEF EgressPolicyOf
<1>4. UserMapOf(request) \in SUBSET Nat
  BY DEF UserMapOf, RootlessMap, Configs
<1> QED BY <1>1, <1>2, <1>3, <1>4

\* main.rs passes on what it does not complete.
LEMMA BuildStep == ASSUME AdmissionInOrder, BuildConfig PROVE AdmissionInOrder'
<1>1. CASE RequestOk(request) /\ ArgumentsOk(request) /\ UserMapOk(request)
  <2>1. /\ config' = [request EXCEPT !.mode = ServiceModeOf(request),
                                     !.limits = LimitsOf(request),
                                     !.egress = EgressPolicyOf(request),
                                     !.rootfs = IF Opt(request, "toolchain") THEN "store" ELSE @,
                                     !.uidmap = UserMapOf(request)]
        /\ lpc' = "userns" /\ UNCHANGED <<host, request>>
    BY <1>1 DEF BuildConfig
  <2>2. request \in Configs /\ host \in Machines
    BY DEF AdmissionInOrder
  <2>3. config' \in Configs
    <3> DEFINE rootfs == IF Opt(request, "toolchain") THEN "store" ELSE request.rootfs
    <3>1. rootfs \in {"none", "store", "elsewhere"}
      BY <2>2 DEF Configs
    <3> HIDE DEF rootfs
    <3> DEFINE r1 == [request EXCEPT !.mode = ServiceModeOf(request)]
               r2 == [r1 EXCEPT !.limits = LimitsOf(request)]
               r3 == [r2 EXCEPT !.egress = EgressPolicyOf(request)]
               r4 == [r3 EXCEPT !.rootfs = rootfs]
               r5 == [r4 EXCEPT !.uidmap = UserMapOf(request)]
    <3>2. config' = r5
      BY <2>1, <2>2 DEF rootfs, Configs
    <3>3. r1 \in Configs
      BY ZenonT(60), Completed, <2>2, ConfigUpdates
    <3>4. r2 \in Configs
      BY Zenon, <3>3, Completed, <2>2, ConfigUpdates
    <3>5. r3 \in Configs
      BY ZenonT(60), <3>4, Completed, <2>2, ConfigUpdates
    <3>6. r4 \in Configs
      BY ZenonT(60), <3>5, <3>1, ConfigUpdates
    <3>7. r5 \in Configs
      BY ZenonT(60), <3>6, Completed, <2>2, ConfigUpdates
    <3> QED BY <3>2, <3>7
  <2>4. config'.mode = ServiceModeOf(request) /\ \A f \in PassedOn : config'[f] = request[f]
    BY <2>1, <2>2 DEF Configs, PassedOn
  <2>5. ServiceModeOk(request)
    BY <1>1 DEF RequestOk
  <2> QED
    BY <2>1, <2>2, <2>3, <2>4, <2>5, ZenonT(60) DEF AdmissionInOrder, Admitted, ServiceModeOk, ServiceModeOf, Opt
<1>2. CASE ~(RequestOk(request) /\ ArgumentsOk(request) /\ UserMapOk(request))
  BY <1>2 DEF BuildConfig, AdmissionInOrder, Admitted
<1> QED BY <1>1, <1>2

\* create_internal gives every rootless and every strict launch a user namespace.
LEMMA UserNamespaceStep == ASSUME AdmissionInOrder, ResolveUserNamespace PROVE AdmissionInOrder'
<1>1. config \in Configs /\ host \in Machines /\ lpc = "userns"
  BY DEF AdmissionInOrder, ResolveUserNamespace
<1> DEFINE m == IF config.uidmap # {} THEN config.uidmap
                ELSE IF ~host.root THEN RootlessMap(config.uid)
                ELSE IF Strict(config) THEN 0..MaxMappedId ELSE {}
<1>2. m \in SUBSET Nat
  BY <1>1, LaunchAssumption DEF RootlessMap, Configs
<1>a. m # {} \/ (host.root /\ ~Strict(config))
  BY LaunchAssumption DEF RootlessMap
<1>b. config' = [config EXCEPT !.uidmap = m]
  BY DEF ResolveUserNamespace
<1> HIDE DEF m
<1>3. config' \in Configs /\ config'.uidmap = m /\ config'.mode = config.mode
  BY <1>1, <1>2, <1>b DEF Configs
<1>4. \A f \in PassedOn : config'[f] = config[f]
  BY <1>1, <1>b, ZenonT(60) DEF Configs, PassedOn
<1> QED
  BY <1>1, <1>a, <1>3, <1>4, ZenonT(60)
     DEF AdmissionInOrder, ResolveUserNamespace, Admitted, Strict, ServiceModeOk, ServiceModeOf, Opt

\* validate_strict_agent_mode and validate_production_mode
LEMMA ServiceModeStep == ASSUME AdmissionInOrder, ValidateServiceMode PROVE AdmissionInOrder'
<1>1. UNCHANGED <<request, host, config>>
  BY DEF ValidateServiceMode
<1>2. lpc' = "refused" \/ (lpc' = "guards" /\ StrictAgentOk(config) /\ ProductionOk(config))
  BY DEF ValidateServiceMode, Proceed
<1> QED
  BY <1>1, <1>2 DEF ValidateServiceMode, AdmissionInOrder, Admitted, ServiceModeOk, ServiceModeOf, Opt,
     Strict, StrictAgentOk, ProductionOk, FailClosedOk

\* The guards look at the runtime that the trust guard has chosen.
LEMMA GuardStep == ASSUME AdmissionInOrder, ApplyGuards PROVE AdmissionInOrder'
<1>1. config \in Configs /\ host \in Machines /\ lpc = "guards" /\ UNCHANGED <<request, host>>
  BY DEF AdmissionInOrder, ApplyGuards
<1>2. config' = [config EXCEPT !.runtime = GuardedRuntime(config)]
  BY DEF ApplyGuards
<1>3. GuardedRuntime(config) \in {"native", "gvisor"}
  BY <1>1 DEF GuardedRuntime, Configs
<1>4. config' \in Configs /\ config'.runtime = GuardedRuntime(config)
  BY <1>1, <1>2, <1>3 DEF Configs
<1>5. \A f \in PassedOn \cup {"mode", "uidmap", "egress", "rootfs", "limits", "workspace_mode"} :
         config'[f] = config[f]
  BY <1>1, <1>2, ZenonT(60) DEF Configs, PassedOn
<1>6. /\ StrictAgentOk(config) => StrictAgentOk(config')
      /\ ProductionOk(config) => ProductionOk(config')
  BY <1>4, <1>5, Zenon DEF PassedOn, StrictAgentOk, ProductionOk, FailClosedOk, GuardedRuntime, Opt
<1>7. CASE lpc' = "refused"
  BY <1>1, <1>4, <1>7, ZenonT(60) DEF AdmissionInOrder, Admitted
<1>8. CASE lpc' = "bridge" /\ NetworkGuardOk(config) /\ TrustGuardOk(config) /\ RuntimeSupportOk(config')
  <2>1. NetworkGuardOk(config') /\ TrustGuardOk(config)' /\ GuardedRuntime(config)' = config'.runtime
    BY <1>1, <1>4, <1>5, <1>8, ZenonT(60) DEF PassedOn, NetworkGuardOk, TrustGuardOk, GuardedRuntime, Opt
  <2>2. BrokerOk(config') /\ (config'.runtime = "gvisor" => GVisorOk(config') /\ ~Opt(config', "overlay"))
    BY <1>8, ZenonT(60) DEF RuntimeSupportOk
  <2> QED
    BY <1>1, <1>4, <1>5, <1>6, <1>8, <2>1, <2>2, ZenonT(60)
       DEF AdmissionInOrder, Admitted, PassedOn, ServiceModeOk, ServiceModeOf, Opt, Strict
<1> QED
  BY <1>7, <1>8 DEF ApplyGuards, Proceed

\* validate_credential_broker_resolved_nat; a kernel bridge needs root.
LEMMA BridgeStep == ASSUME AdmissionInOrder, ResolveBridge PROVE AdmissionInOrder'
<1>1. UNCHANGED <<request, host, config>> /\ lpc = "bridge" /\ lpc' \in {"refused", "admitted"}
  BY DEF ResolveBridge, Proceed
<1>2. lpc' = "admitted" /\ config.net = "bridge" =>
         /\ Opt(config, "broker") => NatBackendOf(config) = "kernel"
         /\ NatBackendOf(config) = "kernel" => host.root
  BY DEF ResolveBridge, Proceed
<1> QED
  BY <1>1, <1>2 DEF AdmissionInOrder, Admitted, ServiceModeOk, ServiceModeOf, Opt, Strict, StrictAgentOk,
     ProductionOk, FailClosedOk, NetworkGuardOk, TrustGuardOk, BrokerOk, GuardedRuntime, GVisorOk, NatBackendOf

\* No step of a native child changes the configuration.
LEMMA ChildKeepsConfig == ChildStep \/ SetupError \/ EditContext => UNCHANGED launchVars
  BY ZenonT(60) DEF ChildStep, BeginSetup, MountRoot, PopulateContext, MountSystem, MountHome, MountVolumes,
     MountProc, MaskProc, SwitchRoot, AuditMounts, DropCapabilities, SwitchIdentity, FinalizeDrop,
     SetRlimits, ApplySeccomp, ApplyLandlock, SetupError, EditContext

\* Nor does anything that is done for runsc.
LEMMA RunscKeepsConfig == GVisorNext => UNCHANGED launchVars
  BY DEF GVisorNext, PrepareHandoff, MakeArtifactDir, BuildOciConfig, CreateBundle, ExecRunsc,
     CleanupArtifacts, GVisorError, EditGVisorContext, childVars

\* The configuration changes only while it is completed.
LEMMA ConfigStays == LaunchNext => LaunchConfigNext \/ UNCHANGED launchVars
  BY ZenonT(60), ChildKeepsConfig, RunscKeepsConfig DEF LaunchNext, ChildSetupNext

\* Every step keeps what the stages so far have established.
LEMMA AdmissionStep == AdmissionInOrder /\ [LaunchNext]_launchChildVars => AdmissionInOrder'
<1> SUFFICES ASSUME AdmissionInOrder, [LaunchNext]_launchChildVars PROVE AdmissionInOrder'
  OBVIOUS
<1>1. CASE UNCHANGED launchVars
  BY <1>1 DEF launchVars, AdmissionInOrder, Admitted, ServiceModeOk, ServiceModeOf, Opt, Strict, StrictAgentOk,
     ProductionOk, FailClosedOk, NetworkGuardOk, TrustGuardOk, BrokerOk, GuardedRuntime, GVisorOk, NatBackendOf
<1>2. LaunchConfigNext \/ UNCHANGED launchVars
  BY ConfigStays DEF launchChildVars, childVars
<1> QED
  BY Zenon, <1>1, <1>2, DetachStep, BuildStep, UserNamespaceStep, ServiceModeStep, GuardStep, BridgeStep
     DEF LaunchConfigNext

\* What the stages establish says that strict launches fail closed.
LEMMA AdmittedStrict == AdmissionInOrder => StrictFailsClosed
<1> SUFFICES ASSUME AdmissionInOrder, Admitted PROVE StrictFailsClosed
  BY DEF StrictFailsClosed
<1>1. config.mode = ServiceModeOf(request) /\ config.opts = request.opts /\ config.trust = request.trust
  BY DEF AdmissionInOrder, Admitted, PassedOn
<1>2. AskedStrict => Strict(config)
  BY <1>1 DEF AdmissionInOrder, Admitted, AskedStrict, Strict, ServiceModeOf, ServiceModeOk, Configs
<1>3. Strict(config) => FailClosedOk(config) /\ config.uidmap # {}
  BY DEF AdmissionInOrder, Admitted, Strict, StrictAgentOk, ProductionOk
<1>4. config.trust = "untrusted" /\ config.runtime = "native" => Opt(config, "allow-degraded") /\ ~host.runsc
  BY DEF AdmissionInOrder, Admitted, TrustGuardOk, GuardedRuntime
<1> QED
  BY <1>1, <1>2, <1>3, <1>4, ZenonT(60) DEF StrictFailsClosed, FailClosedOk, Opt

\* And that a broker leaves no other way out.
LEMMA AdmittedBroker == AdmissionInOrder => BrokerIsOnlyWayOut
  BY DEF AdmissionInOrder, Admitted, BrokerIsOnlyWayOut, PassedOn, BrokerOk, NatBackendOf, Opt, Configs

\* A strict launch is admitted only with the isolation it needs, and a container
\* with a credential broker has no other way out: for every request and host, in
\* the order create_internal completes, validates and guards its configuration.
THEOREM AdmissionCorrect == LaunchSpec => []AdmissionFailsClosed
<1>1. LaunchInit => AdmissionInOrder
  BY AdmissionInit DEF LaunchInit
<1>2. AdmissionInOrder => AdmissionFailsClosed
  BY AdmittedStrict, AdmittedBroker DEF AdmissionFailsClosed
<1> QED
  BY <1>1, <1>2, AdmissionStep, PTL DEF LaunchSpec

\* A request that the trust guard sends to gVisor has asked for nothing that only
\* the native runtime supports.
THEOREM AdmissionFits == LaunchSpec => []AdmittedFitsRuntime
<1>1. AdmissionInOrder => AdmittedFitsRuntime
  BY DEF AdmissionInOrder, Admitted, AdmittedFitsRuntime, PassedOn, GVisorOk, Opt
<1>2. AdmissionFailsClosed => AdmissionInOrder
  BY DEF AdmissionFailsClosed
<1> QED
  BY <1>1, <1>2, AdmissionCorrect, PTL
---------------------------------------------------------------------------
(* The native child. *)

\* The sandbox only ever holds capabilities, limits and masks there are.
LEMMA ChildTypes ==
  ASSUME AdmissionInOrder, ChildSetupTypeOK, UNCHANGED launchVars, ChildStep \/ SetupError \/
     EditContext
  PROVE  ChildSetupTypeOK'
<1>0. config.uid \in Nat
  BY DEF AdmissionInOrder, Configs
<1>1. CASE BeginSetup
  BY <1>1, Zenon DEF BeginSetup, Step, SnapshotContext, ChildSetupTypeOK, launchVars, FsNext, SecNext,
     Rlimits, ProcMasks, CriticalMasks
<1>2. CASE PopulateContext
  BY <1>2, ZenonT(60) DEF PopulateContext, CopyContext, ChildSetupTypeOK, launchVars, FsNext, SecNext, Rlimits,
     ProcMasks, CriticalMasks
<1>3. CASE MountProc
  BY <1>3 DEF MountProc, Step, ChildSetupTypeOK, launchVars, FsNext, SecNext, Rlimits, ProcMasks,
     CriticalMasks, SetOf
<1>4. CASE MaskProc
  BY <1>4 DEF MaskProc, Step, MaskFailures, ChildSetupTypeOK, launchVars, FsNext, SecNext, Rlimits,
     ProcMasks, CriticalMasks, SetOf
<1>5. CASE SwitchRoot
  <2>1. CASE sandbox' = Pivoted
    BY <1>5, <2>1, ZenonT(60) DEF SwitchRoot, Pivoted, ChildSetupTypeOK, launchVars, FsNext, SetOf
  <2>2. CASE sandbox' = Chrooted
    BY <1>5, <2>2, ZenonT(60) DEF SwitchRoot, Chrooted, ChildSetupTypeOK, launchVars, FsNext
  <2> QED BY <1>5, <2>1, <2>2, ZenonT(60) DEF SwitchRoot
<1>6. CASE DropCapabilities
  BY <1>6 DEF DropCapabilities, BoundingDropped, CapsPolicyApplied, CapsPolicyOk, ChildSetupTypeOK,
     launchVars, FsNext, SecNext, Rlimits, ProcMasks, CriticalMasks,
     SetOf
<1>7. CASE SwitchIdentity
  BY <1>0, <1>7 DEF SwitchIdentity, ChildSetupTypeOK, launchVars, FsNext, SecNext, Rlimits, ProcMasks,
     CriticalMasks, SetOf
<1>8. CASE FinalizeDrop
  BY <1>8, ZenonT(60) DEF FinalizeDrop, Step, ChildSetupTypeOK, launchVars, FsNext, SecNext, Rlimits,
     ProcMasks, CriticalMasks, SetOf
<1>9. CASE SetRlimits
  BY <1>9 DEF SetRlimits, ChildSetupTypeOK, launchVars, FsNext, SecNext, Rlimits, ProcMasks,
     CriticalMasks, SetOf
<1>10. CASE ApplySeccomp
  BY <1>10 DEF ApplySeccomp, SeccompOutcomes, ChildSetupTypeOK, launchVars, FsNext, SecNext,
     Rlimits, ProcMasks, CriticalMasks, SetOf
<1>11. CASE ApplyLandlock
  BY <1>11 DEF ApplyLandlock, BothLayers, LandlockApplied, ChildSetupTypeOK, launchVars, FsNext,
     SecNext, Rlimits, ProcMasks, CriticalMasks, SetOf
<1>12. CASE EditContext
  BY <1>12 DEF EditContext, ChildSetupTypeOK, launchVars, FsNext, SecNext, Rlimits, ProcMasks,
     CriticalMasks
<1>13. CASE MountRoot \/ MountSystem \/ MountHome \/ MountVolumes \/ AuditMounts \/ SetupError
  <2>1. UNCHANGED <<sandbox, context, sec_state>> /\ (fs_state' = "Mounted" \/ fs_state' = fs_state)
    BY Zenon, <1>13 DEF MountRoot, MountSystem, MountHome, MountVolumes, AuditMounts, SetupError
  <2> QED BY <2>1 DEF ChildSetupTypeOK, launchVars, FsNext
<1> QED
  BY ZenonT(60), <1>1, <1>2, <1>3, <1>4, <1>5, <1>6, <1>7, <1>8, <1>9, <1>10, <1>11, <1>12, <1>13 DEF ChildStep

\* Each step finds the state machines where the one before it left them.
LEMMA StatesStep ==
  ASSUME ChildSetupTypeOK, StatesFollow, UNCHANGED launchVars, ChildStep \/ SetupError \/
     EditContext
  PROVE  StatesFollow'
<1>1. CASE BeginSetup
  BY <1>1 DEF BeginSetup, Step, SnapshotContext, StatesFollow, PastContext, PastProc, PastPivot,
     PastCaps, PastFinalize
<1>2. CASE MountRoot
  BY <1>2 DEF MountRoot, Step, StatesFollow, PastContext, PastProc, PastPivot, PastCaps,
     PastFinalize
<1>3. CASE PopulateContext
  BY <1>3 DEF PopulateContext, CopyContext, StatesFollow, PastContext, PastProc, PastPivot,
     PastCaps, PastFinalize
<1>4. CASE SwitchRoot
  BY <1>4 DEF SwitchRoot, Step, Pivoted, Chrooted, StatesFollow, PastContext, PastProc, PastPivot,
     PastCaps, PastFinalize, SetOf
<1>5. CASE FinalizeDrop
  BY <1>5 DEF FinalizeDrop, Step, StatesFollow, PastContext, PastProc, PastPivot, PastCaps,
     PastFinalize, SetOf
<1>6. CASE SetRlimits
  BY <1>6 DEF SetRlimits, StatesFollow, PastContext, PastProc, PastPivot, PastCaps, PastFinalize, SetOf
<1>7. CASE ApplySeccomp
  BY <1>7 DEF ApplySeccomp, SeccompOutcomes, StatesFollow, PastContext, PastProc, PastPivot,
     PastCaps, PastFinalize, ChildSetupTypeOK, SetOf
<1>8. CASE ApplyLandlock
  BY <1>8, Zenon DEF ApplyLandlock, BothLayers, LandlockApplied, StatesFollow, PastContext, PastProc,
     PastPivot, PastCaps, PastFinalize, SetOf
<1>9. CASE MountSystem \/ MountHome \/ MountVolumes \/ MountProc \/ MaskProc
  BY <1>9, ZenonT(60) DEF MountSystem, MountHome, MountVolumes, MountProc, MaskProc, Step, StatesFollow, PastContext,
     PastProc, PastPivot, PastCaps, PastFinalize
<1>10. CASE AuditMounts \/ DropCapabilities \/ SwitchIdentity
  BY <1>10 DEF AuditMounts, DropCapabilities, SwitchIdentity, StatesFollow, PastContext, PastProc, PastPivot,
     PastCaps, PastFinalize
<1>11. CASE SetupError \/ EditContext
  BY <1>11 DEF SetupError, EditContext, StatesFollow, PastContext, PastProc, PastPivot, PastCaps, PastFinalize
<1> QED
  BY ZenonT(60), <1>1, <1>2, <1>3, <1>4, <1>5, <1>6, <1>7, <1>8, <1>9, <1>10, <1>11 DEF ChildStep

\* No step undoes what an earlier one gave the sandbox.
LEMMA SandboxStep ==
  ASSUME AdmissionInOrder, ChildSetupTypeOK, SandboxFollows, UNCHANGED launchVars, ChildStep \/
     SetupError \/ EditContext
  PROVE  SandboxFollows'
<1>1. CASE BeginSetup
  BY <1>1 DEF BeginSetup, Step, SnapshotContext, SandboxFollows, PastContext, PastProc, PastPivot,
     PastCaps, PastFinalize, ChildSetupTypeOK, launchVars, Admitted, Production, Degradable, Opt,
     CriticalMasks, ProcMasks, DangerousCaps, Rlimits
<1>2. CASE MountProc
  <2>1. CASE sandbox' = SetOf(sandbox, "proc", IF Production THEN "hidepid" ELSE "mounted")
    BY <1>2, <2>1, ZenonT(60) DEF MountProc, Step, SandboxFollows, PastContext, PastProc, PastPivot, PastCaps,
       PastFinalize, ChildSetupTypeOK, launchVars, Admitted, Production, SetOf
  <2>2. CASE ProcBestEffort /\ sandbox' = sandbox
    BY <1>2, <2>2, Zenon DEF MountProc, Step, SandboxFollows, PastContext, PastProc, PastPivot, PastCaps,
       PastFinalize, launchVars, Admitted, Production, ProcBestEffort
  <2> QED BY <1>2, <2>1, <2>2, Zenon DEF MountProc
<1>3. CASE MaskProc
  BY <1>3 DEF MaskProc, Step, MaskFailures, SandboxFollows, PastContext, PastProc, PastPivot,
     PastCaps, PastFinalize, ChildSetupTypeOK, launchVars, Admitted, Production, Degradable, Opt,
     CriticalMasks, ProcMasks, DangerousCaps, Rlimits, SetOf
<1>4. CASE SwitchRoot
  <2>1. CASE sandbox' = Pivoted
    BY <1>4, <2>1 DEF SwitchRoot, Step, Pivoted, SandboxFollows, PastProc, PastPivot, PastCaps,
       PastFinalize, ChildSetupTypeOK, launchVars, Admitted, Production, Opt, SetOf
  <2>2. CASE Opt(config, "allow-chroot") /\ sandbox' = Chrooted
    BY <1>4, <2>2, ZenonT(60) DEF SwitchRoot, Step, Chrooted, SandboxFollows, PastProc, PastPivot, PastCaps,
       PastFinalize, ChildSetupTypeOK, launchVars, Admitted, Production, Opt
  <2> QED BY <1>4, <2>1, <2>2, ZenonT(60) DEF SwitchRoot
<1>5. CASE AuditMounts
  BY <1>5, ZenonT(60) DEF AuditMounts, SandboxFollows, PastContext, PastProc, PastPivot, PastCaps,
     PastFinalize, launchVars, Admitted, Production, Degradable, Opt
<1>6. CASE DropCapabilities
  BY <1>6 DEF DropCapabilities, BoundingDropped, CapsPolicyApplied, CapsPolicyOk, SandboxFollows,
     PastContext, PastProc, PastPivot, PastCaps, PastFinalize, ChildSetupTypeOK, launchVars,
     Admitted, Production, Degradable, Opt, CriticalMasks, ProcMasks, DangerousCaps, Rlimits, SetOf
<1>7. CASE SwitchIdentity
  BY <1>7 DEF SwitchIdentity, SandboxFollows, PastContext, PastProc, PastPivot, PastCaps,
     PastFinalize, ChildSetupTypeOK, launchVars, Admitted, Production, Degradable, Opt,
     CriticalMasks, ProcMasks, DangerousCaps, Rlimits, SetOf
<1>8. CASE FinalizeDrop
  BY <1>8, ZenonT(60) DEF FinalizeDrop, Step, SandboxFollows, PastContext, PastProc, PastPivot, PastCaps,
     PastFinalize, ChildSetupTypeOK, launchVars, Admitted, Production, Degradable, Opt,
     CriticalMasks, ProcMasks, DangerousCaps, Rlimits, SetOf
<1>9. CASE SetRlimits
  BY <1>9 DEF SetRlimits, SandboxFollows, PastContext, PastProc, PastPivot, PastCaps, PastFinalize,
     ChildSetupTypeOK, launchVars, Admitted, Production, Degradable, Opt, CriticalMasks, ProcMasks,
     DangerousCaps, Rlimits, SetOf
<1>10. CASE ApplySeccomp
  BY <1>10 DEF ApplySeccomp, SeccompOutcomes, SandboxFollows, PastContext, PastProc, PastPivot,
     PastCaps, PastFinalize, ChildSetupTypeOK, launchVars, Admitted, Production, Degradable, Opt,
     CriticalMasks, ProcMasks, DangerousCaps, Rlimits, SetOf
<1>11. CASE ApplyLandlock
  BY <1>11 DEF ApplyLandlock, BothLayers, LandlockApplied, SandboxFollows, PastContext, PastProc,
     PastPivot, PastCaps, PastFinalize, ChildSetupTypeOK, launchVars, Admitted, Production,
     Degradable, Opt, CriticalMasks, ProcMasks, DangerousCaps, Rlimits, SetOf
<1>12. CASE MountRoot \/ PopulateContext \/ MountSystem \/ MountHome \/ MountVolumes
  <2>1. sandbox' = sandbox
    BY ZenonT(60), <1>12 DEF MountRoot, PopulateContext, MountSystem, MountHome, MountVolumes
  <2>2. spc # "idle" /\ spc' \notin PastProc
    BY <1>12 DEF MountRoot, PopulateContext, MountSystem, MountHome, MountVolumes, Step, PastProc, PastPivot,
       PastCaps, PastFinalize
  <2> QED
    BY <2>1, <2>2 DEF SandboxFollows, launchVars, Admitted, PastProc, PastPivot, PastCaps, PastFinalize
<1>13. CASE SetupError \/ EditContext
  BY <1>13 DEF SetupError, EditContext, SandboxFollows, launchVars, Admitted, Production, Degradable, Opt,
     PastProc, PastPivot, PastCaps, PastFinalize
<1> QED
  BY ZenonT(60), <1>1, <1>2, <1>3, <1>4, <1>5, <1>6, <1>7, <1>8, <1>9, <1>10, <1>11, <1>12, <1>13 DEF ChildStep

\* Edits of the owner reach the host's directory and not the verified copy.
LEMMA ContextStep ==
  ASSUME ChildSetupTypeOK, ContextFollows, UNCHANGED launchVars, ChildStep \/ SetupError \/ EditContext
  PROVE  ContextFollows'
<1>0. context \in [host : 0..1, snapshot : 0..1, copy : 0..1]
  BY DEF ChildSetupTypeOK
<1>1. CASE BeginSetup \/ MountRoot
  BY <1>1 DEF BeginSetup, MountRoot, Step, ContextFollows, PastContext, PastProc, PastPivot, PastCaps, PastFinalize
<1>2. CASE PopulateContext
  BY <1>0, <1>2 DEF PopulateContext, CopyContext, ContextMatches, ContextFollows, launchVars, Opt,
     PastContext, PastProc, PastPivot, PastCaps, PastFinalize
<1>3. CASE EditContext
  BY <1>0, <1>3, ZenonT(60) DEF EditContext, ContextFollows, launchVars, Opt
<1>4. ASSUME context' = context, spc \in PastContext \/ spc' \notin PastContext PROVE ContextFollows'
  BY <1>4 DEF ContextFollows, launchVars, Opt, PastContext, PastProc, PastPivot, PastCaps, PastFinalize
<1>5. CASE MountSystem \/ MountHome \/ MountVolumes \/ MountProc \/ MaskProc \/ SwitchRoot \/ AuditMounts
  <2>1. context' = context
    BY ZenonT(60), <1>5 DEF MountSystem, MountHome, MountVolumes, MountProc, MaskProc, SwitchRoot, AuditMounts
  <2>2. spc \in PastContext
    BY <1>5, ZenonT(60) DEF MountSystem, MountHome, MountVolumes, MountProc, MaskProc, SwitchRoot, AuditMounts, Step,
       PastContext, PastProc, PastPivot
  <2> QED BY ZenonT(60), <1>4, <2>1, <2>2
<1>6. CASE DropCapabilities \/ SwitchIdentity \/ FinalizeDrop \/ SetRlimits \/ ApplySeccomp \/ ApplyLandlock
  <2>1. context' = context
    BY ZenonT(60), <1>6 DEF DropCapabilities, SwitchIdentity, FinalizeDrop, SetRlimits, ApplySeccomp, ApplyLandlock
  <2>2. spc \in PastContext
    BY <1>6, ZenonT(60) DEF DropCapabilities, SwitchIdentity, FinalizeDrop, SetRlimits, ApplySeccomp, ApplyLandlock, Step,
       PastContext, PastProc, PastPivot, PastCaps, PastFinalize
  <2> QED BY Zenon, <1>4, <2>1, <2>2
<1>7. CASE SetupError
  BY <1>7 DEF SetupError, ContextFollows, PastContext, PastProc, PastPivot, PastCaps, PastFinalize
<1> QED
  BY ZenonT(60), <1>1, <1>2, <1>3, <1>5, <1>6, <1>7 DEF ChildStep

\* The capabilities a policy may keep are passed on as they were given.
LEMMA KeepStays ==
  ASSUME AdmissionInOrder, LaunchConfigNext
  PROVE  request'.keep = request.keep /\ config'.keep \in {config.keep, request.keep}
<1>0. request \in Configs /\ config \in Configs
  BY DEF AdmissionInOrder
<1>1. CASE Detach
  BY <1>0, <1>1, Zenon DEF Detach, Configs
<1>2. CASE BuildConfig
  <2>1. request' = request /\ (lpc' = "userns" \/ config' = config)
    BY <1>2, ZenonT(60) DEF BuildConfig
  <2>2. lpc' = "userns" => config'.keep = request'.keep
    BY <1>2, BuildStep, ZenonT(60) DEF AdmissionInOrder, PassedOn
  <2> QED BY <2>1, <2>2, ZenonT(60)
<1>3. CASE ResolveUserNamespace
  BY <1>0, <1>3, ZenonT(60) DEF ResolveUserNamespace, Configs
<1>4. CASE ApplyGuards
  BY <1>0, <1>4, ZenonT(60) DEF ApplyGuards, Configs
<1>5. CASE ValidateServiceMode \/ ResolveBridge
  BY <1>5 DEF ValidateServiceMode, ResolveBridge
<1> QED
  BY <1>1, <1>2, <1>3, <1>4, <1>5, Zenon DEF LaunchConfigNext

\* No child begins before its configuration is admitted.
LEMMA AdmissionFirst ==
  ASSUME AdmissionInOrder, ChildSetupTypeOK, SetupInOrder, LaunchConfigNext, UNCHANGED setupVars
  PROVE  ChildSetupTypeOK' /\ SetupInOrder'
<1>1. lpc # "admitted"
  BY DEF LaunchConfigNext, Detach, BuildConfig, ResolveUserNamespace, ValidateServiceMode, ApplyGuards,
     ResolveBridge
<1>2. spc = "idle" /\ spc' = "idle" /\ UNCHANGED <<fs_state, sec_state, sandbox, context>>
  BY <1>1, ZenonT(60) DEF SetupInOrder, SandboxFollows, Admitted, setupVars
<1>3. SetupInOrder'
  BY <1>2 DEF SetupInOrder, StatesFollow, SandboxFollows, ContextFollows, PastContext, PastProc, PastPivot,
     PastCaps, PastFinalize
<1>4. ChildSetupTypeOK'
  BY <1>2, KeepStays DEF ChildSetupTypeOK
<1> QED BY <1>3, <1>4, ZenonT(60)

\* A launch that runsc runs has no native child.
LEMMA RunscAlone ==
  ASSUME ChildSetupTypeOK, SetupInOrder, HandoffInOrder, GVisorNext
  PROVE  ChildSetupTypeOK' /\ SetupInOrder'
<1>1. UNCHANGED <<launchVars, spc, fs_state, sec_state, sandbox>>
  BY ZenonT(60) DEF GVisorNext, PrepareHandoff, MakeArtifactDir, BuildOciConfig, CreateBundle, ExecRunsc,
     CleanupArtifacts, GVisorError, EditGVisorContext, childVars, setupVars
<1>2. config.runtime = "gvisor"
  BY DEF GVisorNext, PrepareHandoff, MakeArtifactDir, BuildOciConfig, CreateBundle, ExecRunsc,
     CleanupArtifacts, GVisorError, EditGVisorContext, HandoffInOrder
<1>3. spc = "idle"
  BY <1>2 DEF SetupInOrder, SandboxFollows
<1>4. context' \in [host : 0..1, snapshot : 0..1, copy : 0..1]
  <2>1. context \in [host : 0..1, snapshot : 0..1, copy : 0..1]
    BY ZenonT(60) DEF ChildSetupTypeOK
  <2>2. \/ context' = context
        \/ context' = [context EXCEPT !.snapshot = context.host]
        \/ context' = [context EXCEPT !.copy = context.host]
        \/ context' = [context EXCEPT !.host = 1]
    BY DEF GVisorNext, PrepareHandoff, MakeArtifactDir, BuildOciConfig, CreateBundle, ExecRunsc,
       CleanupArtifacts, GVisorError, EditGVisorContext, childVars, setupVars
  <2> QED BY <2>1, <2>2
<1>5. ChildSetupTypeOK'
  BY <1>1, <1>4, ZenonT(60) DEF ChildSetupTypeOK, launchVars
<1>6. SetupInOrder'
  BY <1>1, <1>3, ZenonT(60) DEF SetupInOrder, StatesFollow, SandboxFollows, ContextFollows, PastContext, PastProc, PastPivot,
     PastCaps, PastFinalize
<1> QED BY <1>5, <1>6, Zenon

\* The steps of a child follow one another.
LEMMA ChildInOrder ==
  ASSUME SetupInOrder, ChildStep \/ SetupError \/ EditContext
  PROVE  spc' \in {"idle", "root", "context", "error", "failed"} \cup PastContext
  BY ZenonT(60) DEF SetupInOrder, ChildStep, BeginSetup, MountRoot, PopulateContext, MountSystem, MountHome,
     MountVolumes, MountProc, MaskProc, SwitchRoot, AuditMounts, DropCapabilities, SwitchIdentity, FinalizeDrop,
     SetRlimits, ApplySeccomp, ApplyLandlock, SetupError, EditContext, Step, PastContext, PastProc, PastPivot,
     PastCaps, PastFinalize

---------------------------------------------------------------------------
(* runsc. *)

\* Before a child begins, what is established of runsc is that there is nothing.
LEMMA HandoffInit == LaunchInit => HandoffInOrder
  BY DEF LaunchInit, GVisorInit, HandoffInOrder

\* What the steps of a runsc launch rest on does not change with them.
LEMMA HandoffStays ==
  ASSUME UNCHANGED launchVars, inherited' = inherited
  PROVE  /\ Admitted' <=> Admitted
         /\ PrecreatedUserns(config)' <=> PrecreatedUserns(config)
         /\ ArtifactBase(ChildIsRoot)' = ArtifactBase(ChildIsRoot)
         /\ ArtifactBase(host.root)' = ArtifactBase(host.root)
         /\ \A b : MayCreate(b)' <=> MayCreate(b)
         /\ OciNamespaces(config)' = OciNamespaces(config)
         /\ RequirePolicy(config)' <=> RequirePolicy(config)
<1>1. Admitted' <=> Admitted
  BY DEF launchVars, Admitted
<1>2. PrecreatedUserns(config)' <=> PrecreatedUserns(config)
  BY DEF launchVars, PrecreatedUserns
<1>3. /\ ArtifactBase(ChildIsRoot)' = ArtifactBase(ChildIsRoot)
      /\ ArtifactBase(host.root)' = ArtifactBase(host.root)
  BY DEF launchVars, ArtifactBase, ChildIsRoot
<1>4. \A b : MayCreate(b)' <=> MayCreate(b)
  BY DEF launchVars, MayCreate
<1>5. OciNamespaces(config)' = OciNamespaces(config)
  BY DEF launchVars, OciNamespaces, PrecreatedUserns
<1>6. RequirePolicy(config)' <=> RequirePolicy(config)
  BY DEF launchVars, RequirePolicy, PrecreatedUserns
<1> QED BY <1>1, <1>2, <1>3, <1>4, <1>5, <1>6, ZenonT(60)

\* What a step has to show once the handoff is decided.
LEMMA HandoffKept ==
  ASSUME HandoffInOrder, UNCHANGED launchVars, inherited' = inherited, gpc # "idle",
         gpc' \in {"config", "bundle", "runsc", "exec", "refused", "error", "cleaned"},
         gpc' \in {"config", "bundle", "runsc", "exec"} => MayCreate(ArtifactBase(ChildIsRoot)),
         gpc' \in {"bundle", "runsc", "exec"} =>
            /\ bundle'.ns = OciNamespaces(config)
            /\ bundle'.mapped = IF PrecreatedUserns(config) THEN {} ELSE config.uidmap,
         gpc' = "exec" => /\ runsc'.network = IF config.net = "none" THEN "none" ELSE "host"
                          /\ RequirePolicy(config) => runsc'.policy = "full",
         \A a \in artifacts' : a \in artifacts \/ (a[2] = "secrets" => a[1] = ArtifactBase(host.root))
  PROVE  HandoffInOrder'
<1>1. config' = config
  BY Zenon DEF launchVars
<1>2. /\ Admitted' /\ config'.runtime = "gvisor"
      /\ (inherited.user = "mapped")' <=> PrecreatedUserns(config)'
      /\ (inherited.user = "mapped" => inherited.caps = HandoffCaps)'
  BY <1>1, HandoffStays, Zenon DEF HandoffInOrder, HandoffCaps
<1>3. (gpc \in {"config", "bundle", "runsc", "exec"} => MayCreate(ArtifactBase(ChildIsRoot)))'
  BY HandoffStays, ZenonT(60)
<1>4. (gpc \in {"bundle", "runsc", "exec"} =>
          /\ bundle.ns = OciNamespaces(config)
          /\ bundle.mapped = IF PrecreatedUserns(config) THEN {} ELSE config.uidmap)'
  BY <1>1, HandoffStays, ZenonT(60)
<1>5. (gpc = "exec" => /\ runsc.network = IF config.net = "none" THEN "none" ELSE "host"
                       /\ RequirePolicy(config) => runsc.policy = "full")'
  BY <1>1, HandoffStays, ZenonT(60)
<1>6. (\A a \in artifacts : a[2] = "secrets" => a[1] = ArtifactBase(host.root))'
  BY HandoffStays, ZenonT(60) DEF HandoffInOrder
<1> QED
  BY <1>2, <1>3, <1>4, <1>5, <1>6 DEF HandoffInOrder

\* The user namespace is handed over, or left to runsc, once.
LEMMA PrepareStep == ASSUME HandoffInOrder, PrepareHandoff PROVE HandoffInOrder'
  BY DEF HandoffInOrder, PrepareHandoff, Admitted, PrecreatedUserns, childVars, launchVars, ArtifactBase

\* The directory of the artifacts is made, or the launch refused.
LEMMA ArtifactStep == ASSUME HandoffInOrder, MakeArtifactDir PROVE HandoffInOrder'
<1>1. UNCHANGED launchVars /\ inherited' = inherited
  BY DEF MakeArtifactDir
<1>2. gpc = "artifacts" /\ gpc' \in {"config", "refused"}
      /\ (gpc' = "config" => MayCreate(ArtifactBase(ChildIsRoot)))
      /\ \A a \in artifacts' : a \in artifacts \/ a[2] = "dir"
  BY DEF MakeArtifactDir
<1> QED
  BY <1>1, <1>2, HandoffKept, ZenonT(60)

\* The namespaces follow the handoff.  The secrets are staged where the supervisor,
\* who is not in the namespace, looks for them.
LEMMA OciStep == ASSUME AdmissionInOrder, HandoffInOrder, BuildOciConfig PROVE HandoffInOrder'
<1>1. UNCHANGED launchVars /\ inherited' = inherited
  BY DEF BuildOciConfig
<1>2. gpc = "config" /\ gpc' = "bundle" /\ bundle'.ns = OciNamespaces(config)
      /\ bundle'.mapped = IF PrecreatedUserns(config) THEN {} ELSE config.uidmap
  BY DEF BuildOciConfig
<1>3. \A a \in artifacts' : a \in artifacts \/ a = <<ArtifactBase(ChildIsRoot), "secrets">>
  BY DEF BuildOciConfig
<1>4. MayCreate(ArtifactBase(ChildIsRoot))
  BY <1>2 DEF HandoffInOrder
<1>5. ArtifactBase(ChildIsRoot) = ArtifactBase(host.root)
  BY <1>4 DEF MayCreate, ArtifactBase, ChildIsRoot, AdmissionInOrder, Machines
<1> QED
  BY <1>1, <1>2, <1>3, <1>4, <1>5, HandoffKept

\* The bundle is one more directory.
LEMMA BundleStep == ASSUME HandoffInOrder, CreateBundle PROVE HandoffInOrder'
<1>1. UNCHANGED <<launchVars, inherited, bundle>>
  BY DEF CreateBundle
<1>2. gpc = "bundle" /\ gpc' \in {"runsc", "refused"}
      /\ \A a \in artifacts' : a \in artifacts \/ a[2] = "bundle"
  BY DEF CreateBundle
<1>3. /\ MayCreate(ArtifactBase(ChildIsRoot)) /\ bundle.ns = OciNamespaces(config)
      /\ bundle.mapped = IF PrecreatedUserns(config) THEN {} ELSE config.uidmap
  BY <1>2 DEF HandoffInOrder
<1> QED
  BY <1>1, <1>2, <1>3, HandoffKept, ZenonT(60)

\* runsc gets the flags of the configuration, under the policy it requires.
LEMMA RunscStep == ASSUME HandoffInOrder, ExecRunsc PROVE HandoffInOrder'
<1>1. UNCHANGED <<launchVars, inherited, bundle>>
  BY DEF ExecRunsc, childVars
<1>2. gpc = "runsc" /\ gpc' \in {"exec", "refused"}
      /\ \A a \in artifacts' : a \in artifacts \/ a[2] = "runsc-root"
  BY DEF ExecRunsc
<1>3. /\ runsc'.network = IF config.net = "none" THEN "none" ELSE "host"
      /\ gpc' = "exec" /\ RequirePolicy(config) => runsc'.policy = "full"
  BY DEF ExecRunsc
<1>4. /\ MayCreate(ArtifactBase(ChildIsRoot)) /\ bundle.ns = OciNamespaces(config)
      /\ bundle.mapped = IF PrecreatedUserns(config) THEN {} ELSE config.uidmap
  BY <1>2 DEF HandoffInOrder
<1> QED
  BY <1>1, <1>2, <1>3, <1>4, HandoffKept, ZenonT(60)

\* Errors and the cleanup leave the handoff as it is; so do edits of the context.
LEMMA OtherStep ==
  ASSUME HandoffInOrder, CleanupArtifacts \/ GVisorError \/ EditGVisorContext
  PROVE  HandoffInOrder'
<1>1. UNCHANGED <<launchVars, inherited, bundle, runsc>> /\ artifacts' \subseteq artifacts
  BY DEF CleanupArtifacts, GVisorError, EditGVisorContext, childVars, gvisorVars
<1>2. gpc # "idle" /\ (gpc' \in {"error", "cleaned"} \/ (gpc' = gpc /\ gpc \in {"config", "bundle"}))
  BY DEF CleanupArtifacts, GVisorError, EditGVisorContext, gvisorVars
<1>3. gpc \in {"config", "bundle"} =>
          /\ MayCreate(ArtifactBase(ChildIsRoot))
          /\ gpc = "bundle" => /\ bundle.ns = OciNamespaces(config)
                               /\ bundle.mapped = IF PrecreatedUserns(config) THEN {} ELSE config.uidmap
  BY DEF HandoffInOrder
<1> QED
  BY <1>1, <1>2, <1>3, HandoffKept, ZenonT(60)

\* A step of the native child leaves what runsc was given alone, and begins before
\* the configuration is admitted only if nothing was given.
LEMMA NativeHandoff ==
  ASSUME HandoffInOrder, ArtifactsReachable, ChildSetupNext \/ UNCHANGED launchVars, UNCHANGED gvisorVars
  PROVE  HandoffInOrder' /\ ArtifactsReachable'
<1>1. UNCHANGED <<gpc, inherited, bundle, runsc, artifacts>>
  BY DEF gvisorVars
<1>2. CASE UNCHANGED launchVars
  <2>1. HandoffInOrder'
    BY <1>1, <1>2, HandoffStays, ZenonT(60) DEF HandoffInOrder, launchVars
  <2>2. ArtifactsReachable'
    BY <1>1, <1>2, HandoffStays, ZenonT(60) DEF ArtifactsReachable, launchVars
  <2> QED BY <2>1, <2>2, ZenonT(60)
<1>3. CASE LaunchConfigNext
  <2>1. lpc # "admitted" /\ host' = host
    BY <1>3, ZenonT(60) DEF LaunchConfigNext, Detach, BuildConfig, ResolveUserNamespace, ValidateServiceMode, ApplyGuards,
       ResolveBridge
  <2>2. gpc = "idle"
    BY <2>1 DEF HandoffInOrder, Admitted
  <2> QED
    BY <1>1, <2>1, <2>2 DEF HandoffInOrder, ArtifactsReachable, ArtifactBase
<1> QED
  BY ZenonT(60), <1>2, <1>3, ChildKeepsConfig DEF ChildSetupNext

\* Where XDG_RUNTIME_DIR is set a launch is refused only for its context or its
\* policy, and the supervisor removes the secrets where they were staged.
LEMMA ReachableStep ==
  ASSUME AdmissionInOrder, HandoffInOrder, ArtifactsReachable, GVisorNext
  PROVE  ArtifactsReachable'
<1>0. UNCHANGED launchVars
  BY ZenonT(60), RunscKeepsConfig
<1>1. RequirePolicy(config)' <=> RequirePolicy(config)
  BY <1>0 DEF launchVars, RequirePolicy, PrecreatedUserns
<1>2. CASE PrepareHandoff \/ BuildOciConfig \/ GVisorError \/ EditGVisorContext
  <2>1. gpc' \notin {"refused", "cleaned"}
    BY <1>2 DEF PrepareHandoff, BuildOciConfig, GVisorError, EditGVisorContext, gvisorVars
  <2> QED BY <2>1 DEF ArtifactsReachable
<1>3. CASE MakeArtifactDir
  BY <1>0, <1>3, ZenonT(60) DEF MakeArtifactDir, ArtifactsReachable, MayCreate, ArtifactBase, launchVars
<1>4. CASE CreateBundle
  BY <1>0, <1>4, ZenonT(60) DEF CreateBundle, ArtifactsReachable, launchVars
<1>5. CASE ExecRunsc
  <2>1. host.xdg => MayCreate(RunscBase(ChildIsRoot))
    BY DEF MayCreate, RunscBase, ChildIsRoot
  <2>2. host.xdg /\ gpc' = "refused" => RequirePolicy(config)
    BY <1>5, <2>1, ZenonT(60) DEF ExecRunsc
  <2>3. gpc' # "cleaned"
    BY <1>5 DEF ExecRunsc
  <2> QED BY <1>0, <1>1, <2>2, <2>3, ZenonT(60) DEF ArtifactsReachable, launchVars
<1>6. CASE CleanupArtifacts
  BY <1>6 DEF CleanupArtifacts, ArtifactsReachable, HandoffInOrder
<1> QED BY <1>2, <1>3, <1>4, <1>5, <1>6, ZenonT(60) DEF GVisorNext
---------------------------------------------------------------------------
(* A launch, from the request to the exec. *)

\* The inductive invariant of a launch: the order of the admission, of the child and of
\* what runsc is given.
LaunchInv == AdmissionInOrder /\ ChildSetupTypeOK /\ SetupInOrder /\ HandoffInOrder /\ ArtifactsReachable

\* No request, nothing mounted, nothing given to runsc.
LEMMA LaunchInvInit == LaunchInit => LaunchInv
<1> SUFFICES ASSUME LaunchInit PROVE LaunchInv
  OBVIOUS
<1>1. AdmissionInOrder
  BY AdmissionInit, ZenonT(60) DEF LaunchInit
<1>2. ChildSetupTypeOK
  BY SetupAssumption, SMTT(30) DEF LaunchInit, LaunchConfigInit, LaunchBegins, ChildSetupInit, ChildSetupTypeOK, FsNext, SecNext
<1>3. SetupInOrder
  BY DEF LaunchInit, ChildSetupInit, SetupInOrder, StatesFollow, SandboxFollows, ContextFollows, PastContext,
     PastProc, PastPivot, PastCaps, PastFinalize
<1>4. HandoffInOrder /\ ArtifactsReachable
  BY HandoffInit DEF LaunchInit, GVisorInit, ArtifactsReachable
<1> QED BY <1>1, <1>2, <1>3, <1>4, ZenonT(60) DEF LaunchInv

\* Each step of either runtime keeps the order.
LEMMA LaunchInvStep == LaunchInv /\ [LaunchNext]_launchChildVars => LaunchInv'
<1> SUFFICES ASSUME LaunchInv, [LaunchNext]_launchChildVars PROVE LaunchInv'
  OBVIOUS
<1>0. AdmissionInOrder /\ ChildSetupTypeOK /\ SetupInOrder /\ HandoffInOrder /\ ArtifactsReachable
  BY DEF LaunchInv
<1>1. AdmissionInOrder'
  BY <1>0, AdmissionStep
<1>2. CASE UNCHANGED launchChildVars
  <2>1. UNCHANGED launchVars /\ UNCHANGED gvisorVars /\ UNCHANGED setupVars
    BY <1>2 DEF launchChildVars, childVars
  <2>2. ChildSetupTypeOK'
    BY <1>0, <2>1, ZenonT(60) DEF ChildSetupTypeOK, launchVars, setupVars
  <2>3. SetupInOrder'
    BY <1>0, <2>1 DEF SetupInOrder, StatesFollow, SandboxFollows, ContextFollows, launchVars, setupVars, Admitted,
       Production, Degradable, Opt
  <2> QED BY ZenonT(60), <1>0, <1>1, <2>1, <2>2, <2>3, NativeHandoff DEF LaunchInv
<1>3. CASE LaunchConfigNext /\ UNCHANGED setupVars /\ UNCHANGED gvisorVars
  BY Zenon, <1>0, <1>1, <1>3, AdmissionFirst, NativeHandoff DEF LaunchInv, ChildSetupNext
<1>4. CASE (ChildStep \/ SetupError \/ EditContext) /\ UNCHANGED gvisorVars
  <2>1. UNCHANGED launchVars
    BY ZenonT(60), <1>4, ChildKeepsConfig
  <2>2. ChildSetupTypeOK' /\ StatesFollow' /\ SandboxFollows' /\ ContextFollows'
    BY ZenonT(60), <1>0, <1>4, <2>1, ChildTypes, StatesStep, SandboxStep, ContextStep DEF SetupInOrder
  <2>3. SetupInOrder'
    BY ZenonT(60), <1>0, <1>4, <2>2, ChildInOrder DEF SetupInOrder, PastContext, PastProc, PastPivot, PastCaps, PastFinalize
  <2> QED BY ZenonT(60), <1>0, <1>1, <1>4, <2>1, <2>2, <2>3, NativeHandoff DEF LaunchInv
<1>5. CASE GVisorNext
  <2>1. HandoffInOrder'
    BY ZenonT(60), <1>0, <1>5, PrepareStep, ArtifactStep, OciStep, BundleStep, RunscStep, OtherStep DEF GVisorNext
  <2> QED BY ZenonT(60), <1>0, <1>1, <1>5, <2>1, RunscAlone, ReachableStep DEF LaunchInv
<1> QED BY ZenonT(60), <1>2, <1>3, <1>4, <1>5 DEF LaunchNext, ChildSetupNext

\* LaunchInv holds throughout.
LEMMA LaunchInvAlways == LaunchSpec => []LaunchInv
  BY LaunchInvInit, LaunchInvStep, PTL DEF LaunchSpec

\* The native child of a strict launch executes the workload only when every
\* hardening step of setup_and_exec has been done, whatever the machine tolerates.
THEOREM SetupCorrect == LaunchSpec => []LaunchHardened
<1>1. ASSUME LaunchInv PROVE StrictIsHardened
  <2> SUFFICES ASSUME Executes, AskedStrict PROVE StrictIsHardened
    BY DEF StrictIsHardened
  <2>0. AdmissionInOrder /\ SandboxFollows
    BY <1>1, Zenon DEF LaunchInv, SetupInOrder
  <2>1. Admitted
    BY <2>0, ZenonT(60) DEF SandboxFollows, Executes
  <2>2. config.mode = ServiceModeOf(request) /\ ServiceModeOk(request) /\ request \in Configs
        /\ config.caps = request.caps /\ config.keep = request.keep
    BY <2>0, <2>1, ZenonT(60) DEF AdmissionInOrder, Admitted, PassedOn
  <2>3. Strict(config)
    BY <2>2, ZenonT(60) DEF AskedStrict, Strict, ServiceModeOf, ServiceModeOk, Configs
  <2>4. FailClosedOk(config)
    BY <2>0, <2>1, <2>3, ZenonT(60) DEF AdmissionInOrder, Admitted, Strict, StrictAgentOk, ProductionOk
  <2>5. ~Opt(config, "allow-chroot") /\ ~Degradable /\ config.seccomp # "trace"
    BY <2>4, ZenonT(60) DEF FailClosedOk, Degradable
  <2>6. sandbox.nnp /\ sandbox.root = "pivot" /\ sandbox.seccomp = "filter" /\ sandbox.landlock = "full"
    BY <2>0, <2>5, Zenon DEF Executes, SandboxFollows, PastPivot, PastCaps, PastFinalize
  <2>7. sandbox.eff \cup sandbox.bound \subseteq (IF request.caps = "none" THEN {} ELSE request.keep)
    BY <2>0, <2>2, ZenonT(60) DEF Executes, SandboxFollows, PastCaps, PastFinalize
  <2>8. Production => /\ sandbox.proc = "hidepid" /\ CriticalMasks \subseteq sandbox.masked
                      /\ {"NOFILE", "MEMLOCK"} \subseteq sandbox.rlimits
                      /\ sandbox.eff \cap DangerousCaps = {}
    BY <2>0 DEF Executes, SandboxFollows, PastProc, PastPivot, PastCaps, PastFinalize
  <2> QED BY <2>6, <2>7, <2>8, ZenonT(60) DEF StrictIsHardened
<1>2. LaunchInv => LaunchHardened
  BY <1>1, ZenonT(60) DEF LaunchInv, LaunchHardened
<1> QED BY <1>2, LaunchInvAlways, PTL

\* A verified copy of the context is the one that was there when the launch began.
THEOREM ContextCorrect == LaunchSpec => []ContextAsSnapshotted
<1>1. LaunchInv => ContextAsSnapshotted
  BY DEF LaunchInv, SetupInOrder, ContextFollows, ContextAsSnapshotted, Executes, PastContext, PastProc, PastPivot,
     PastCaps, PastFinalize
<1> QED BY <1>1, LaunchInvAlways, PTL

\* The two state machines of the child never refuse a transition it asks for.
THEOREM TransitionsCorrect == LaunchSpec => TransitionsLegal
<1>1. ASSUME LaunchInv, LaunchNext PROVE LegalTransition
  <2>0. StatesFollow
    BY <1>1, ZenonT(60) DEF LaunchInv, SetupInOrder
  <2>1. CASE MountRoot
    BY <2>0, <2>1 DEF MountRoot, Step, StatesFollow, LegalTransition, FsNext
  <2>2. CASE PopulateContext
    BY <2>0, <2>2 DEF PopulateContext, StatesFollow, LegalTransition, FsNext
  <2>3. CASE SwitchRoot
    BY <2>0, <2>3 DEF SwitchRoot, Step, StatesFollow, LegalTransition, FsNext, PastContext, PastProc, PastPivot,
       PastCaps, PastFinalize
  <2>4. CASE FinalizeDrop
    BY <2>0, <2>4 DEF FinalizeDrop, Step, StatesFollow, LegalTransition, SecNext, PastContext, PastProc, PastPivot,
       PastCaps, PastFinalize
  <2>5. CASE ApplySeccomp
    BY <2>0, <2>5 DEF ApplySeccomp, StatesFollow, LegalTransition, SecNext
  <2>6. CASE ApplyLandlock
    BY <2>0, <2>6 DEF ApplyLandlock, BothLayers, StatesFollow, LegalTransition, SecNext
  <2>7. CASE UNCHANGED <<fs_state, sec_state>>
    BY <2>7 DEF LegalTransition
  <2>8. CASE BeginSetup \/ MountSystem \/ MountHome \/ MountVolumes \/ MountProc \/ MaskProc \/ AuditMounts
             \/ DropCapabilities \/ SwitchIdentity \/ SetRlimits \/ SetupError \/ EditContext
    BY ZenonT(60), <2>7, <2>8 DEF BeginSetup, MountSystem, MountHome, MountVolumes, MountProc, MaskProc, AuditMounts,
       DropCapabilities, SwitchIdentity, SetRlimits, SetupError, EditContext
  <2>9. CASE UNCHANGED setupVars
    BY <2>7, <2>9, ZenonT(60) DEF setupVars
  <2>10. CASE GVisorNext
    BY <2>7, <2>10, ZenonT(60) DEF GVisorNext, PrepareHandoff, MakeArtifactDir, BuildOciConfig, CreateBundle, ExecRunsc,
       CleanupArtifacts, GVisorError, EditGVisorContext, childVars, setupVars
  <2> QED
    BY ZenonT(60), <1>1, <2>1, <2>2, <2>3, <2>4, <2>5, <2>6, <2>8, <2>9, <2>10 DEF LaunchNext, ChildSetupNext, ChildStep
<1>2. LaunchInv /\ [LaunchNext]_launchChildVars => [LegalTransition]_childVars
  BY <1>1 DEF launchChildVars
<1> QED BY <1>2, LaunchInvAlways, PTL DEF LaunchSpec, TransitionsLegal

\* runsc is started with exactly the isolation of the request, and what it is given
\* is where it can be reached and removed.
THEOREM RunscCorrect == LaunchSpec => []RunscAsRequested
<1>1. ASSUME LaunchInv PROVE RunscIsolation
  <2> SUFFICES ASSUME GVisorExecutes PROVE RunscIsolation
    BY DEF RunscIsolation
  <2>1. /\ Admitted /\ config.runtime = "gvisor" /\ bundle.ns = OciNamespaces(config)
        /\ bundle.mapped = IF PrecreatedUserns(config) THEN {} ELSE config.uidmap
        /\ inherited.user = "mapped" <=> PrecreatedUserns(config)
        /\ inherited.user = "mapped" => inherited.caps = HandoffCaps
        /\ runsc.network = IF config.net = "none" THEN "none" ELSE "host"
        /\ RequirePolicy(config) => runsc.policy = "full"
    BY <1>1, ZenonT(60) DEF LaunchInv, HandoffInOrder, GVisorExecutes
  <2>2. config.net \in {"none", "bridge", "gvisor-host"}
    BY <1>1, <2>1, ZenonT(60) DEF LaunchInv, AdmissionInOrder, Admitted, NetworkGuardOk, Configs
  <2> QED
    BY <2>1, <2>2, ZenonT(60) DEF RunscIsolation, OciNamespaces, RequirePolicy
<1>2. LaunchInv => RunscAsRequested
  BY <1>1 DEF LaunchInv, RunscAsRequested
<1> QED BY <1>2, LaunchInvAlways, PTL
=============================================================================
