# Verification of the backplane operator

TLA+ models of stolostron/backplane-operator, the Kubernetes operator that
installs the MultiClusterEngine (MCE): model-checked with TLC on small
instances, with proofs of the central invariants checked by TLAPS.

## The system

The operator watches one cluster-scoped `MultiClusterEngine` object and runs
`Reconcile` (`controllers/backplaneconfig_controller.go`) over it, one pass at a
time (leader election, one worker).  A pass

1. reads the MCE from an informer cache, filters last pass's failures out of its
   conditions, switches `maestro-preview` off if it is on, resets the status tracker;
2. if the MCE is being deleted, runs `finalizeBackplaneConfig` and, when that has
   nothing left to do, removes the finalizer;
3. otherwise stores the finalizer, fills in defaults, checks namespace, secret and
   OpenShift version, installs CRDs, and goes through the toggleable components:
   `ensureX` for one the spec enables, `ensureNoX` for one it does not
   (`controllers/toggle_components.go`);
4. in a deferred function computes the phase from the components registered with
   the status tracker (`pkg/status`, `pkg/toggle`) and stores the status.

Errors and waits end a pass or a component's part of it; the next pass starts over.
Nothing is remembered between passes but what the API server holds, so correctness
is about which partial states a pass can leave and whether later passes repair them.

### Inventory

| component | state | operations | hard part | what makes it correct |
|---|---|---|---|---|
| finalizer and teardown | finalizer, deletion timestamp, resources of the hub | add/remove finalizer, ordered deletions and waits | crash or failed call at any point, stale caches, owners that never finish | nothing outlives the MCE, order is kept, deletion ends, stalls are reported |
| toggleable components | spec, charts' resources, operands (ClusterManager, ManagedCluster, addon, HiveConfig, plugin entry) | `ensureX`, `ensureNoX` for 21 components | edits in mid-pass, operands with finalizers of others, partial application | convergence; no operand stranded by removing its operator |
| InternalEngineComponents | one object per component | create, delete and wait | read through a cache, no owner reference | none left behind, template removal waits for them |
| status reporting | tracked reporters, conditions, phase | reset, track, report | computed from what the pass happened to register | Available and Error mean what they say |
| template application, ownership | labels, versions, adoption policy | apply, adopt, delete | resources of other operators | only own resources are changed |
| admission webhook | none (looks at the cluster) | default, validate create/update/delete | a check and its use are apart | invalid specs are not stored, uninstall is not blocked |
| defaults and pre-flight checks | spec, namespace, secret | fill in, validate | early returns that leave the rest undone | idempotence |
| upgrade gating | OperatorCondition, CurrentVersion | set Upgradeable | rollouts, restarts | upgrade only when the last one is done |
| network policies | policies | create once, delete all | owned by others after creation | never overwritten |
| retired resources | list of old objects | delete and wait | deletion in progress | gone, and other objects untouched |
| webhook configuration controller | one object | create or update | - | kept in place |
| CRDs, trust bundle, metrics objects | one object each | create or update | - | idempotence |
| rendering, overrides, build tools | none | pure text and maps | - | not a matter of states |

They interact through the API server only: the operator writes objects, the owners'
controllers (ClusterManager operator, import controller, hypershift addon manager,
OpenShift's console, the IECs' owners) react to them and hold them by finalizers.

## Modules

| module | models | about |
|---|---|---|
| `Uninstall` | `Reconcile`'s finalizer handling, `finalizeBackplaneConfig`, `ensureNo(All)InternalEngineComponent(s)` | one step per API call |
| `UninstallProofs` | | theorems about `Uninstall` |
| `MCUninstall` | | instances |
| `Toggle` | `ensureToggleableComponents`, all `ensureX`/`ensureNoX`, status tracker and phase | one step per component's function |
| `ToggleProofs` | | theorems about `Toggle` |
| `MCToggle` | | instances |
| `Upgrade` | `main`, `setOperatorUpgradeableStatus`, `CurrentVersion` and the phase | one step per call; several pods, releases and deployments |
| `UpgradeProofs` | | theorems about `Upgrade` |
| `MCUpgrade` | | instances |
| `Custody` | | abstract specification: what may be done to a thing others may own |
| `Ownership` | `applyTemplate`, `deleteTemplate`, `ensureResourceOwnership`, `ensureNetworkPolicies`, the removals of retired resources, trust bundle and metrics objects | a look and a write per resource |
| `MCOwnership` | | instances |
| `OwnershipProofs` | | theorems about `Ownership` |
| `Admission` | the validating webhook, `setDefaults`, the other Updates of the MCE, the webhook configuration controller | one step per request |
| `AdmissionProofs` | | theorems about `Admission` |
| `MCAdmission` | | instances |

### Uninstall

State: the MCE (`mce`: phase, finalizer, incarnation), the informers' views
(`mceCache`, `cache`), the cluster (`res`: each resource is absent, present or
terminating), the work queue (`queued`), and the pass: the next call (`pc`), the MCE
it read (`snap`), IECs still to do (`todo`), whether one of them held the pass up
(`again`), the condition set so far (`progressing`).  `overdue` is the age of the
deletion timestamp in terms of the code's limits (3 and 10 minutes), `reported` the
condition in the stored status.  `missed` is a history variable: what a finalizing pass
looked up in a cache and took for gone although it exists.

Actions: the user creates and deletes the MCE; informers deliver (`WatchMCE`,
`Watch`); the owners of the resources provide, reclaim and let go of them
(`Provision`, `Reclaim`, `Terminated`, external); `StartPass` to `UpdateStatus` is
`Reconcile`; `Deploy` is any call a pass over a live MCE can make on these resources,
in any order and for any spec; the `Finalize...`, `Await...` actions are the blocks
of `finalizeBackplaneConfig` in their order; `CallFails`, `IECCallFails` and `Crash`
may strike at any call.  An Update with an outdated resource version is refused;
`snap = mce` stands for "the version is current".  Typed reads (MCE, IECs, namespaces)
go through the caches, unstructured reads are current, as in the code.

Caches may lag behind by any number of events.  A deletion of the MCE starts a pass at once,
and nothing orders its event after those of what the pass before has created, so a
finalizing pass may not see an IEC or a namespace that exists.  The properties say exactly
what follows from that: `FinalizerGuards` and `TeardownInOrder` hold for everything but what
is in `missed`, which can only be IECs and namespaces, since the rest is read from the API
server.

### Toggle

State: the spec (`enabled`) and what the pass read of it (`snap`, `fresh`), the place
in the fixed order of components (`at`), per component its IEC, how many of its
templates exist (`chart`: none, some, all) and whether its deployment is up (`up`), the
operands (`res`: absent, created, held by its operator's finalizer, terminating), what
the pass registered with the status tracker (`tracked`), the conditions the phase depends on
(`failure`, and `progressing`, which is False after OLM's condition could not be set) and the
stored phase.

A component's function is one action with all its outcomes, the failing ones too
(`FaultKinds`: OLM's condition, IEC calls, rendering, applying, deleting, the console
check).  A failed apply may leave no condition, as not all of `applyTemplate`'s error
paths set one.  The deployments of a chart that is only half applied may come up too.
Between two components the user edits the spec (as far as the webhook's exclusivity and
maestro rules admit), deployments roll out and operands' operators act.  `Managed` is the
complement of the externally-managed annotation.  A pass stops at the `Places` of the
order whose component it sees to, and is at `End` when the report is due.  `kinds` are the
hub's CRDs, which `CanInstallAddons` asks for and which may arrive one after the other
during a pass.

Left out here: the Kubernetes-only branches, cache lag (see `Uninstall`), finalizers on
HiveConfig, the gRPC configuration of the ClusterManager, `ensureMaestro` (unreachable,
since `Reconcile` disables maestro-preview first and the webhook admits no enabling),
`Discovery`'s blocking resources, and the steps of a pass before and after the
components, whose failure only means another pass.  A chart stands for all of its
templates but NetworkPolicies.

### Upgrade

State: which OLM the cluster has (`olm`), the running release (`version`) and its
OperatorCondition (`cond`), where each pod's `main` is (`boot`) and who leads, the MCE
with its pause annotation and `CurrentVersion`, and per deployment the release applied
last and the one its status calls available (`dep`); informers (`mceCache`, `depCache`),
work queue and the pass.

Every pod runs `main` before it stands for leader: `StartPod` forces Upgradeable to
False, `ListMCEs` and `AllowUpgrade` are the list of MCEs and the write that follows if
there are none, two calls between which an MCE may be created.  The leader's pass sets the
condition from the `CurrentVersion` it read (`setOperatorUpgradeableStatus`), runs the
checks (`Preflight`), applies the deployments and stores the status.  `OLMUpgrade`
replaces all pods: OLM v0 when the condition is True, or, while it is not set, when the
pods are ready; OLM v1 at any time.  A deployment's status may still speak of the release
before when the new one has been applied (`Observe`, `RollOut`).

### Custody and Ownership

`Custody` says what the operator promises about things in the cluster others may own: it
creates what is not there, and changes or removes a thing only with a claim, which comes
from looking at it, or at a cache's copy, and finding its own mark, or no mark and the
consent to adopt; one look licenses one write.

`Ownership` has the code: a pass goes through resources in order, and with each through a
`Get` and at most one `Create`, `Patch` (a forced server-side apply) or `Delete`.  What is
done with what was found depends on how the resource is treated (`Handle`): retired
resources before and after the components, versioned AddOnTemplates, templates of a
component, NetworkPolicies, the trust bundle and the metrics objects.  Others create,
mark, edit and delete resources at any time, between the two calls too.  `KeepsCustody`
is the refinement: `Ownership` implements `Custody` with the pending patch or delete as
the claim and the adoption policy as the consent.  Retired resources are outside of it,
since they are removed whoever has marked them.

### Admission

State: the MCE (phase, finalizer, whether its defaults are stored, local cluster name,
each component unset, on or off), the informer's copy, the webhook's registration
(`hook`), whether DiscoveryConfigs exist, and the local ManagedClusters.  `Update`s of
users and of the operator go through the same `ValidateUpdate`, and are refused if the
object has changed since it was read.  A registration that somebody changed either lets
everything pass (`open`: its rules do not match any more) or nothing (`closed`: it points
where nobody answers, and its failure policy is Fail); one that was deleted lets everything
pass.  `main` starts the webhook configuration controller only off OpenShift
(`openShift = FALSE`), where `ReconcileWebhook` repairs a changed registration but makes
none; a restart of the operator applies it in any case.  `HyperShift` and `LocalHosting` are
the two components of one exclusive family; of the other, `ClusterAPI` stands for the stable
components and `Preview` for their previews.

## Runs

| run | expects | checks | instance |
|---|---|---|---|
| `Uninstall_safety` | pass | `TypeOK`, `FinalizerGuards`, `TeardownInOrder` | one IEC and the self-managed hub with its console plugin and addon; the MCE is created twice, one fault |
| `Uninstall_liveness` | pass | `DeletionCompletes` | one IEC, console plugin, local cluster whose kinds are not there at first, maestro namespace left over; one fault |
| `Uninstall_stall` | pass | `StallsReported` | the hub with its namespaces, its owners may stop for ever, clock up to both limits |
| `Uninstall_no_kind` | violation | `DeletionCompletesWithoutKind` | finding 1 |
| `Toggle_everything` | pass | `Converges` | all components the webhook admits, or none; no edits, no faults |
| `Toggle_hosting` | pass | `TypeOK`, `ManagerOutlivesAddon`, `Converges`, `ReturnsToAvailable` | HyperShift, local hosting, local cluster, ClusterManager; two edits, one fault |
| `Toggle_console` | pass | `PluginServed`, `Converges`, `FailureReported`, `AvailableMeansRunning`, `ReturnsToAvailable` | console, an addon whose kinds are installed and operators, one of them refused by the API server; two edits of one component each, two faults, the console capability may appear |
| `Upgrade_gate` | pass | `TypeOK`, `NoMinorSkipped`, `UpgradeSettles` | two pods, one deployment, three minor releases, OLM v0 or v1, one MCE, one fault |
| `Ownership_custody` | pass | `TypeOK`, `KeepsCustody`, `EditsSurvive`, `Settles` | six passes of two resources each, which together have every treatment; two steps of others, one edit of the MCE, one fault |
| `Ownership_policies` | violation | `PoliciesCreatedOnce` | finding 2 |
| `Admission_updates` | pass | `TypeOK`, `InstallsGuarded`, `FamiliesExclusive`, `DeletionEnds`, `Installs` | on OpenShift and off it; a new MCE of two kinds or one from an earlier release, two names; three edits, DiscoveryConfigs once, one change of the registration, one fault |
| `Admission_previews` | violation | `PreviewsPruned` | finding 3 |

Bounds.  IECs are treated alike and independently, so one shows what a set does (the proof
is for any set).  A fault strikes at any call of any pass; two cover a failure in
recovering from the first; two edits cover toggling a component off and on again, or two
components that depend on each other.  Two incarnations of the MCE are enough for a stale
view of the first to meet the second.  `overdue` needs no more than the two limits the
code compares with.  Three minor releases are the least with which one can be skipped, and
two pods the least with which one starts while the other leads; with a second MCE after
the first (`MaxInstalls = 2`) `Upgrade_gate` holds as well and takes three times as long.
Two steps of others are one between a look and its write and one that undoes or repeats
it.  Three edits of the MCE are a creation, an update and a deletion, or two updates of
which one undoes the other.  Users turn on and off one component of each exclusive family
(`Editable`), which reaches every combination of families; the proofs are for all
components.  Deadlock is not checked for `Uninstall`, `Upgrade` and `Admission`: with no
MCE, a paused one, or one whose last fault is over, they may rest.  In `Toggle` and
`Ownership` passes follow each other for ever, and it is checked.

Fairness.  A pass, once queued, runs to its end, and the work queue and the requeue
intervals (5 s, `requeuePeriod`, 5 min) start the next: weak fairness of the operator's
own steps.  Informers deliver in the end.  Owners finish deleting what they were asked to
delete, deployments of a chart that is applied roll out (those of half a chart may) and
the ClusterManager operator installs its kinds: assumed for `DeletionCompletes` and
`Converges`, which promise nothing otherwise, and dropped in `StuckSpec`, whose subject is
owners that do not.  In `Upgrade` Kubernetes starts pods and one of them is elected.
Faults, edits, upgrades, steps of others and the choices of `Deploy` are never assumed to
happen.

`Converges` asks nothing of a component whose prerequisites (`Needs`) are disabled or
refused: an addon cannot be installed without the hub's kinds, and cannot be removed by
an operator that is gone.

`Installs` and `DeletionEnds` leave out MCEs that no Update can change: DiscoveryConfigs
with discovery turned off (the user has to delete them), both exclusive families on (which
can be stored only while the webhook is not registered: `FamiliesExclusive`), on OpenShift a
registration that points elsewhere (only a restart repairs it), and, for `Installs`, finding 3.

`AvailableMeansRunning` says that the deployments of every chart the stored spec enables are
available when a pass reports `Available`.  It says nothing of the other templates of a chart:
reporters look at deployments only, and a chart of which the last call failed may be incomplete
with its deployments up.  It is about passes that reach their last component, and of
addons it speaks where the hub's kinds are there from the start (`KindsFirst`); what may happen
otherwise is among the disagreements below.
`ReturnsToAvailable` is the converse: once edits and faults are over the phase is `Available`
for good, if nothing refused is enabled and there is a ClusterManager, so no condition or
reporter of an earlier pass gets stuck.

## What the disagreements are

Shown by a run:

1. `errors.Is` against a freshly made error never matches: without the kind
   ManagedCluster an MCE is never finalized (`backplaneconfig_controller.go:2383`).
2. The apply loop of cluster-proxy-addon does not skip NetworkPolicies, which are said to
   be created once and then left alone (`toggle_components.go:1960`).
3. An MCE with cluster-api-preview on, and hypershift or hypershift-local-hosting not
   mentioned, is admitted; with the defaults that `setDefaults` fills in it is not, so it is
   never installed (`backplaneconfig_controller.go:2688`).

Met while modelling, and left out of the properties where those say so:

- The wait for the local cluster's namespace never becomes `Progressing=False`: the else
  branch belongs to the wrong condition (`backplaneconfig_controller.go:2476`).
- The maestro namespace is deleted after the finalizer is gone, so a failure there is not
  retried (`:281`).
- A pass in which the hub's kinds arrive after the addons had their turn counts an enabled
  addon as disabled and may report `Available` without it; the next pass repairs it (`:1068`,
  `:1090`, `:1134`, `:1347`: `CanInstallAddons` is asked anew for each addon).
- A pass that an error of `CheckConsole` ends half way has registered only the components
  before the console, and reports `Available`, and stores `CurrentVersion` with it, without
  the others, although `reportPhase` is to show `Progressing` while a component is not ready
  (`:1166`, `status.go:132`).
- `ensureNoInternalEngineComponent` takes an IEC whose creation the cache has not seen yet
  for deleted; if the MCE is deleted within that lag, the IEC, having no owner reference,
  outlives it (`:966`, the set `missed` of `Uninstall`).
- `ensureNoClusterManager` waits for the hub namespace but not for the ClusterManager: if
  the namespace was never there, the operator goes first and the resource stays
  (`toggle_components.go:1523`).
- A disabled component's NetworkPolicies stay until policies are disabled altogether; the
  comment at `networkpolicy.go:33` says they are deleted.
- An MCE deleted before its first installation ends leaves Upgradeable at False until a
  pod of the operator restarts (`main.go:433`).

## Proofs

`UninstallProofs`, for every set of components, footprint, leftovers and bounds:

- `TypeCorrect`: `Spec => []TypeOK`.
- `FinalizerGuarded`: `Spec => []FinalizerGuards`.
- `TeardownOrdered`: `Spec => TeardownInOrder`, an action property.

`UninstallAssumption` (types of the constants, IECs distinct from the other resources)
is evaluated by TLC in every run of `MCUninstall`; the theorems assume nothing else, of the
caches in particular.

The argument.  `FinalizerGuards` is not inductive: that removing the finalizer is safe
depends on what the pass has seen and on what its view was worth.  The invariant `IInv`
adds
- `Views`: how the cached MCE and `snap` may differ from the stored one (an older
  incarnation, or this one before its finalizer or its deletion);
- `PassKnows`: a pass that deploys does so under a stored finalizer, and a finalizing pass
  works on an MCE that was being deleted;
- `Progress`: at each step of the teardown, what the earlier steps were to remove is
  absent, or was missed in a cache (`GoneOrMissed`), and stays so, because nothing of it is
  created while the MCE is deleting.

With it the step that removes the finalizer finds every guarded resource gone or missed, and the
steps that delete the ManagedCluster and the ClusterManager find their predecessors gone.

`OwnershipProofs`, for all resources, orders of a pass and bounds:

- `TypeCorrect`: `Spec => []TypeOK`.
- `CustodyKept`: `Spec => KeepsCustody`, that is, `Ownership` implements `Custody`.
- `EditsKept`: `Spec => EditsSurvive`, an action property.

`OwnershipAssumption` says which resources each treatment may have; that nothing read in a
cache is a retired resource (`Cached \cap Legacy = {}`) is needed because retired resources,
which go whoever has marked them, are not things of `Custody`.  `EditsKept` needs that no
editable template is also a retired resource or a versioned AddOnTemplate, and no policy
such a template: the lists in the code name different kinds and names.  TLC evaluates the
assumption in every run of `MCOwnership`.

The argument.  Beside `TypeOK` the steps need `Idle`: between passes no call is pending, so
a pass begins without a claim.  `StageHandled` and `HandleLicensed` say that a handler that
asks for a patch or a delete saw a licence for it, or handles a retired resource; then the
Get is `Look`, and the write that follows is `Write` with that claim, or `Create` of what is
gone.  A failed write, a failed call and the start of a pass are `Restart`; what others do is
`Others`; Kubernetes removing what was deleted is `Expire`, and an informer is `Sync`.

`EditsKept` rests on `Decided`: while a patch or a delete is pending, the pass has a
reason for it that depends only on the treatment of the resource and on the MCE the pass
has read, not on the cluster, so it outlives the time between the look and the write.  For
what is left alone there is no such reason, and a `Create` does not touch what somebody
has made meanwhile.

`UpgradeProofs`, for any pods, deployments, releases, OLM and numbers of installations and
faults:

- `TypeCorrect`: `Spec => []TypeOK`.
- `MinorsInOrder`: `Spec => []NoMinorSkipped`.

`UpgradeAssumption` says that releases are numbered in the order of OLM's upgrade graph and
that from one to the next the minor release does not grow by more than one.  Without that
the gate promises nothing: it compares what is recorded with what runs, and leaves the choice
of the next release to OLM.

The argument.  `NoMinorSkipped` speaks of deployments, but the gate opens on
`CurrentVersion`, which a pass reads in a view of the MCE that may be old.  `IInv` adds
- `Records`: what any view of the MCE records as installed is at most the release of every
  deployment there is;
- `Views`: a view is of no later incarnation than the MCE, and a deletion, once seen, is not
  taken back, so that a finalizing pass is not about an MCE that lives;
- `PassKnows`: in a pass that has met no failure, deployments not in `todo` are in the running
  release, which is what makes storing `CurrentVersion` right;
- `NothingLeft`: without an MCE there is no deployment, which is what makes `AllowUpgrade`
  right after an empty list;
- `Gate`: when the condition is True, or a pod has found no MCE and is about to say so, all
  deployments are of the running minor release; it is unset only before any pod has started.

A release that starts is then at most one minor release ahead of every deployment.

`ToggleProofs`, for any set of managed components, any spec, operands' operators in any order
and any number of edits and faults:

- `TypeCorrect`: `Spec => []TypeOK`.
- `PluginNeverOrphaned`: `Spec => []PluginServed`.
- `AddonNeverStranded`: `Spec => []ManagerOutlivesAddon`.
- `AvailableIsTrue`: `Spec => AvailableMeansRunning`, an action property.

The argument.  `ComponentSteps` reduces the functions of the 21 components to four forms:
one that installs a chart (`Enables`), one that removes it (`Disables`), the console's, and those
of the two components without a chart.  Each theorem is then about these forms.
`PluginServed` is inductive as it stands.  `ManagerOutlivesAddon` is not: `ManagerThere` says
the same of an addon that is merely held, since a deletion turns one into the other in a
single call, and the finalizer comes from a manager that runs; with `UpApplied`, what runs has
templates.  `AvailableMeansRunning` needs `ReportInv`:
- `SeenTracked`: at the places behind it, a pass that was not cut short has registered every
  component its spec wants as one to be installed;
- `LocalLast`: the local cluster is registered at the last place only, so that its
  registration tells a pass that went through from one that `CheckConsole` ended;
- `NoMaestro`: the spec a pass works on has maestro-preview off, the one component whose place
  may be left out although it is managed;
- `KindsStay`: kinds that are there from the start stay, so no addon is passed over;
- `FreshSnap`: a pass whose spec nobody has edited meanwhile works on the stored one, so that
  what it registered is what is enabled.

That `KindsFirst` is needed for addons came out of this proof: without it `SeenTracked` fails
in the step in which a pass passes over an addon, and TLC shows the report of `Available`
that follows when the kinds come before the report.

`AdmissionProofs`, for any names, requests and bounds:

- `TypeCorrect`: `Spec => []TypeOK`.
- `FinalizerFirst`: `Spec => []InstallsGuarded`.
- `FamiliesApart`: `Spec => []FamiliesExclusive`.

The argument.  A pass trusts the informer for whether the finalizer is stored, so
`InstallsGuarded` depends on how late the informer can be.  `GuardInv` says that an MCE it shows
live with its finalizer still has it (`LateLive`), because the finalizer goes only in a pass
that has been shown the deletion (`PassFinalizes`), and that one it shows as being deleted is
that one still or a new one without a finalizer (`LateDeleting`), because only a pass that has
been shown the new one adds it (`PassAdds`).  `FamiliesExclusive` needs `Registered`: without
tampering the webhook is registered, so every write is validated; the copies are copies of
what was stored.

Only model-checked: the liveness properties (`DeletionCompletes`, `StallsReported`,
`Converges`, `FailureReported`, `ReturnsToAvailable`, `UpgradeSettles`, `Settles`,
`DeletionEnds`, `Installs`), since fairness is out of the prover's reach.  Every invariant
and every action property of a passing run is also a theorem.

## Plan

Done: `Uninstall`, `Ownership` with `Custody`, `Toggle`, `Upgrade` and `Admission`, each with
the proofs of its safety properties.  Next:

1. An abstract specification of what `Toggle` promises of one component (installed, being
   removed, removed) and its refinement by `Toggle`, with the proof along the four forms of
   `ToggleProofs`.
2. `Status`: conditions and the reporters of deployments, ClusterManager and local cluster,
   refined by `Toggle`'s `Available`.

## Not modelled

Rendering of charts and overrides of images (text and maps without state), RBAC
generation and bundle automation (build time), the contents of conditions and logs,
hosted mode, more than one MCE, and plain Kubernetes but for the webhook controller
(`Admission`).  Of the webhook, the rules on fields
nothing else in the models reads (availability, namespaces, deployment mode, length of
names).  PROJECT.json lists every part with its status, and the hazards no property covers
yet with the reason.
