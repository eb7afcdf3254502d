--------------------------- MODULE UpgradeProofs ---------------------------
(***************************************************************************)
(* No minor release is skipped, for any pods, deployments, releases and    *)
(* numbers of installations and faults.                                    *)
(***************************************************************************)
EXTENDS Upgrade, TLAPS

\* The releases of the deployments, and the records of what has been installed: every
\* deployment is at least as new as what any view of the MCE records as installed.
Recorded(x) ==
  /\ x.current <= version
  /\ \A d \in Deployments : dep[d].spec # None => x.current <= dep[d].spec

Records ==
  /\ \A d \in Deployments : dep[d].spec <= version
  /\ Recorded(mce) /\ Recorded(mceCache) /\ Recorded(snap)

\* A view is never of a later incarnation than the MCE, and within one incarnation
\* deletion is not taken back.
Earlier(x) ==
  /\ x.uid <= mce.uid
  /\ x.phase = "deleting" /\ x.uid = mce.uid => mce.phase # "live"

Views ==
  /\ Earlier(mceCache) /\ Earlier(snap)
  /\ mceCache.phase = "live" => mce.phase # "absent"
  /\ pc # "idle" => snap.phase # "absent"
  /\ pc # "idle" /\ snap.phase = "live" => mce.phase # "absent"
  /\ pc \in {"condition", "finalize"} /\ snap.phase = "deleting" /\ snap = mce
       => mceCache.phase # "live"

\* A pass that deploys works on an MCE that was live; what it has gone through without a
\* failure is in the running release.
PassKnows ==
  /\ pc \in {"idle", "condition", "finalize", "preflight"} => reached = "start" /\ failed = FALSE
  /\ pc = "finalize" => snap.phase = "deleting"
  /\ pc \in {"preflight", "deploy", "wrapUp"} => snap.phase = "live"
  /\ pc \in {"deploy", "wrapUp"} => reached = "components"
  /\ reached = "components" /\ pc # "deploy" => todo = {}
  /\ reached = "components" /\ ~failed => \A d \in Deployments \ todo : dep[d].spec = version

\* Without an MCE there are no deployments.
NothingLeft == mce.phase = "absent" => \A d \in Deployments : dep[d].spec = None

AllOfThisMinor == \A d \in Deployments : dep[d].spec # None => Minor[dep[d].spec] = Minor[version]

\* OLM v0 is allowed to go on, or about to be, only when every deployment is in the running
\* minor release; and a pod that has started has set the condition.
Gate ==
  olm = "v0" =>
    /\ cond = "True" => AllOfThisMinor
    /\ \A p \in Pods : boot[p] = "allow" => AllOfThisMinor
    /\ cond = "Unset" => \A p \in Pods : boot[p] = "off"

IInv == TypeOK /\ Records /\ Views /\ PassKnows /\ NothingLeft /\ Gate /\ NoMinorSkipped
-----------------------------------------------------------------------------
(* Types *)

LEMMA Constants ==
  /\ MaxVersion \in Nat /\ MaxInstalls \in Nat /\ MaxFaults \in Nat
  /\ Versions \subseteq Nat /\ 0 \notin Versions
  /\ \A v \in Versions : Minor[v] \in Nat
  BY UpgradeAssumption DEF Versions

LEMMA NoMCEType ==
  ASSUME NEW u \in 0..MaxInstalls
  PROVE  NoMCE(u) \in MCE
  BY Constants DEF NoMCE, MCE, None

\* What ends a pass leaves nothing of it.
LEMMA EndPassType ==
  ASSUME EndPass
  PROVE  /\ pc' \in Steps /\ snap' \in MCE /\ upgrade' \in BOOLEAN /\ failed' \in BOOLEAN
         /\ progressing' \in {"True", "False"} /\ reached' \in {"start", "paused", "components"}
         /\ todo' \in SUBSET Deployments
<1>1. 0 \in 0..MaxInstalls
  BY Constants
<1> QED
  BY <1>1, NoMCEType DEF EndPass, Steps

LEMMA EndProcessType ==
  ASSUME EndProcess
  PROVE  /\ pc' \in Steps /\ snap' \in MCE /\ upgrade' \in BOOLEAN /\ failed' \in BOOLEAN
         /\ progressing' \in {"True", "False"} /\ reached' \in {"start", "paused", "components"}
         /\ todo' \in SUBSET Deployments
         /\ queued' \in BOOLEAN /\ mceCache' \in MCE
         /\ depCache' \in [Deployments -> BOOLEAN]
<1>1. NoMCE(0) \in MCE
  BY Constants, NoMCEType
<1> QED
  BY <1>1, EndPassType DEF EndProcess

LEMMA TypeInit == Init => TypeOK
<1> SUFFICES ASSUME Init PROVE TypeOK
  OBVIOUS
<1>1. mce \in MCE /\ mceCache \in MCE /\ snap \in MCE
  BY NoMCEType, Constants DEF Init
<1>2. Absent \in Rollout
  BY DEF Absent, Rollout
<1>3. version \in Versions /\ faults \in 0..MaxFaults
  BY UpgradeAssumption DEF Init, Versions
<1> QED
  BY <1>1, <1>2, <1>3 DEF Init, TypeOK, Boots, Steps

LEMMA TypeStep == TypeOK /\ [Next]_vars => TypeOK'
<1> SUFFICES ASSUME TypeOK, [Next]_vars PROVE TypeOK'
  OBVIOUS
<1> USE Constants DEF TypeOK, world, views, pass
<1>1. CASE CreateMCE
  BY <1>1, NoMCEType DEF CreateMCE, MCE
<1>2. CASE DeleteMCE
  BY <1>2 DEF DeleteMCE, MCE
<1>3. CASE TogglePause
  <2>1. [mce EXCEPT !.paused = ~mce.paused] \in MCE
    BY Zenon DEF MCE
  <2>2. mce' \in MCE
    BY <1>3, <2>1 DEF TogglePause
  <2> QED
    BY <1>3, <2>2 DEF TogglePause
<1>4. CASE OLMUpgrade
  BY <1>4, EndProcessType DEF OLMUpgrade, Versions, Boots
<1>5. CASE WatchMCE
  BY <1>5 DEF WatchMCE
<1>6. CASE WatchOthers
  BY <1>6 DEF WatchOthers
<1>7. CASE StartPass
  BY <1>7 DEF StartPass, Steps
<1>8. CASE setOperatorUpgradeableStatus
  BY <1>8 DEF setOperatorUpgradeableStatus, AfterCondition, Steps
<1>9. CASE Finalize
  <2>1. NoMCE(mce.uid) \in MCE /\ Absent \in Rollout
    BY NoMCEType DEF MCE, Absent, Rollout
  <2>2. mce' \in MCE /\ dep' \in [Deployments -> Rollout]
    BY <1>9, <2>1 DEF Finalize
  <2> QED
    BY <1>9, <2>2 DEF Finalize, Steps
<1>10. CASE Preflight
  BY <1>10 DEF Preflight, Steps
<1>11. CASE WrapUp
  BY <1>11 DEF WrapUp, Steps
<1>12. CASE UpdateStatus
  BY <1>12, EndPassType DEF UpdateStatus, MCE
<1>13. CASE ConditionNotSet
  BY <1>13 DEF ConditionNotSet, AfterCondition, Fault, Steps
<1>14. CASE PreflightFails
  BY <1>14 DEF PreflightFails, Fault, Steps
<1>15. CASE WrapUpFails
  BY <1>15 DEF WrapUpFails, Fault, Steps
<1>16. CASE StatusNotUpdated
  BY <1>16, EndPassType DEF StatusNotUpdated, Fault
<1>17. CASE Crash
  BY <1>17, EndProcessType DEF Crash, Fault, Boots
<1>18. ASSUME NEW d \in Deployments, Observe(d) PROVE TypeOK'
  BY <1>18 DEF Observe, Rollout
<1>19. ASSUME NEW d \in Deployments, RollOut(d) PROVE TypeOK'
  BY <1>19 DEF RollOut, Rollout
<1>20. ASSUME NEW d \in Deployments, WatchDeployment(d) PROVE TypeOK'
  BY <1>20 DEF WatchDeployment, Healthy
<1>21. ASSUME NEW d \in Deployments, Apply(d) PROVE TypeOK'
  BY <1>21 DEF Apply, Rollout, NextDeployment, Steps
<1>22. ASSUME NEW d \in Deployments, ApplyFails(d) PROVE TypeOK'
  BY <1>22 DEF ApplyFails, NextDeployment, Fault, Steps
<1>23. ASSUME NEW p \in Pods, StartPod(p) PROVE TypeOK'
  BY <1>23 DEF StartPod, Boot, Boots
<1>24. ASSUME NEW p \in Pods, ListMCEs(p) PROVE TypeOK'
  BY <1>24 DEF ListMCEs, Boot, Boots
<1>25. ASSUME NEW p \in Pods, AllowUpgrade(p) PROVE TypeOK'
  BY <1>25 DEF AllowUpgrade, Boot, Boots
<1>26. ASSUME NEW p \in Pods, Elect(p) PROVE TypeOK'
  BY <1>26 DEF Elect, Healthy
<1>27. ASSUME NEW p \in Pods, Exit(p) PROVE TypeOK'
  BY <1>27 DEF Exit, Fault, Boots
<1>28. CASE UNCHANGED vars
  BY <1>28 DEF vars
<1> QED
  BY <1>1, <1>2, <1>3, <1>4, <1>5, <1>6, <1>7, <1>8, <1>9, <1>10, <1>11, <1>12, <1>13, <1>14, <1>15, <1>16, <1>17, <1>18, <1>19, <1>20, <1>21, <1>22, <1>23, <1>24, <1>25, <1>26, <1>27, <1>28 DEF Next, Main, Reconcile, Faults

\* Every reachable state has the types declared, whichever pod starts, dies or leads and
\* wherever a pass is.
THEOREM TypeCorrect == Spec => []TypeOK
<1> QED
  BY TypeInit, TypeStep, PTL DEF Spec

-----------------------------------------------------------------------------
(* What a step may change *)

\* The spec of a deployment is written by a pass, and goes with the MCE.
Deploys == Finalize \/ \E d \in Deployments : Apply(d)

ChangesMCE == CreateMCE \/ DeleteMCE \/ TogglePause \/ Finalize \/ UpdateStatus

Stops == OLMUpgrade \/ Crash

EndsPass == UpdateStatus \/ StatusNotUpdated

PassSteps ==
  \/ setOperatorUpgradeableStatus \/ ConditionNotSet \/ Finalize \/ Preflight \/ PreflightFails
  \/ WrapUp \/ WrapUpFails
  \/ \E d \in Deployments : Apply(d) \/ ApplyFails(d)

\* Which steps change what the invariant is about.
Framed ==
  /\ UNCHANGED olm
  /\ UNCHANGED version \/ OLMUpgrade
  /\ UNCHANGED mce \/ ChangesMCE
  /\ UNCHANGED mceCache \/ WatchMCE \/ Stops \/ \E p \in Pods : Elect(p)
  /\ UNCHANGED snap \/ StartPass \/ Stops \/ EndsPass
  /\ UNCHANGED <<pc, reached, failed, todo>> \/ StartPass \/ Stops \/ EndsPass \/ PassSteps
  /\ (\A d \in Deployments : dep'[d].spec = dep[d].spec) \/ Deploys
  /\ \/ UNCHANGED <<cond, boot>>
     \/ Stops \/ setOperatorUpgradeableStatus
     \/ \E p \in Pods : StartPod(p) \/ ListMCEs(p) \/ AllowUpgrade(p) \/ Exit(p)

LEMMA Frame ==
  ASSUME TypeOK, [Next]_vars
  PROVE  Framed
<1> USE DEF Framed, world, views, pass, ChangesMCE, Stops, EndsPass, PassSteps, Deploys
<1>1. CASE CreateMCE BY <1>1 DEF CreateMCE
<1>2. CASE DeleteMCE BY <1>2 DEF DeleteMCE
<1>3. CASE TogglePause BY <1>3 DEF TogglePause
<1>4. CASE OLMUpgrade BY <1>4 DEF OLMUpgrade
<1>5. CASE WatchMCE BY <1>5 DEF WatchMCE
<1>6. CASE WatchOthers BY <1>6 DEF WatchOthers
<1>7. CASE StartPass BY <1>7 DEF StartPass
<1>8. CASE setOperatorUpgradeableStatus BY <1>8 DEF setOperatorUpgradeableStatus
<1>9. CASE Finalize BY <1>9 DEF Finalize
<1>10. CASE Preflight BY <1>10 DEF Preflight
<1>11. CASE WrapUp BY <1>11 DEF WrapUp
<1>12. CASE UpdateStatus BY <1>12 DEF UpdateStatus
<1>13. CASE ConditionNotSet BY <1>13 DEF ConditionNotSet
<1>14. CASE PreflightFails BY <1>14 DEF PreflightFails
<1>15. CASE WrapUpFails BY <1>15 DEF WrapUpFails
<1>16. CASE StatusNotUpdated BY <1>16 DEF StatusNotUpdated
<1>17. CASE Crash BY <1>17 DEF Crash
<1>18. ASSUME NEW d \in Deployments, Observe(d) PROVE Framed BY <1>18 DEF TypeOK, Rollout, Observe
<1>19. ASSUME NEW d \in Deployments, RollOut(d) PROVE Framed BY <1>19 DEF TypeOK, Rollout, RollOut
<1>20. ASSUME NEW d \in Deployments, WatchDeployment(d) PROVE Framed BY <1>20 DEF WatchDeployment
<1>21. ASSUME NEW d \in Deployments, Apply(d) PROVE Framed BY <1>21 DEF Apply
<1>22. ASSUME NEW d \in Deployments, ApplyFails(d) PROVE Framed BY <1>22 DEF ApplyFails
<1>23. ASSUME NEW p \in Pods, StartPod(p) PROVE Framed BY <1>23 DEF StartPod, Boot
<1>24. ASSUME NEW p \in Pods, ListMCEs(p) PROVE Framed BY <1>24 DEF ListMCEs, Boot
<1>25. ASSUME NEW p \in Pods, AllowUpgrade(p) PROVE Framed BY <1>25 DEF AllowUpgrade, Boot
<1>26. ASSUME NEW p \in Pods, Elect(p) PROVE Framed BY <1>26 DEF Elect
<1>27. ASSUME NEW p \in Pods, Exit(p) PROVE Framed BY <1>27 DEF Exit
<1>28. CASE UNCHANGED vars BY <1>28 DEF vars
<1> QED
  BY <1>1, <1>2, <1>3, <1>4, <1>5, <1>6, <1>7, <1>8, <1>9, <1>10, <1>11, <1>12, <1>13, <1>14, <1>15, <1>16, <1>17, <1>18, <1>19, <1>20, <1>21, <1>22, <1>23, <1>24, <1>25, <1>26, <1>27, <1>28 DEF Next, Main, Reconcile, Faults
-----------------------------------------------------------------------------
(* The invariant, part by part *)

\* The numbers in the records.
LEMMA Numbers ==
  ASSUME TypeOK
  PROVE  /\ version \in Nat /\ version \in Versions
         /\ mce.current \in Nat /\ mceCache.current \in Nat /\ snap.current \in Nat
         /\ mce.uid \in Nat /\ mceCache.uid \in Nat /\ snap.uid \in Nat
         /\ \A d \in Deployments : dep[d].spec \in Nat
<1>1. version \in Versions /\ {None} \cup Versions \subseteq Nat /\ 0..MaxInstalls \subseteq Nat
  BY Constants DEF TypeOK, None
<1>2. /\ mce.current \in {None} \cup Versions /\ mce.uid \in 0..MaxInstalls
      /\ mceCache.current \in {None} \cup Versions /\ mceCache.uid \in 0..MaxInstalls
      /\ snap.current \in {None} \cup Versions /\ snap.uid \in 0..MaxInstalls
  BY DEF TypeOK, MCE
<1>3. \A d \in Deployments : dep[d].spec \in {None} \cup Versions
  BY DEF TypeOK, Rollout
<1> QED
  BY <1>1, <1>2, <1>3

LEMMA RecordsStep ==
  ASSUME IInv, TypeOK', [Next]_vars
  PROVE  Records'
<1>1. TypeOK /\ Records /\ PassKnows /\ Framed
  BY Frame DEF IInv
<1>2. /\ version \in Nat /\ mce.current \in Nat /\ mceCache.current \in Nat /\ snap.current \in Nat
      /\ \A d \in Deployments : dep[d].spec \in Nat
  BY <1>1, Numbers
<1> USE <1>1, <1>2 DEF Records, Recorded, None
<1>3. CASE OLMUpgrade
  BY <1>3 DEF OLMUpgrade, EndProcess, EndPass, NoMCE
<1>4. CASE Crash
  BY <1>4 DEF Crash, EndProcess, EndPass, NoMCE
<1>5. CASE CreateMCE
  BY <1>5 DEF CreateMCE, NoMCE, pass, views
<1>6. CASE DeleteMCE
  BY <1>6 DEF DeleteMCE, pass, views, TypeOK, MCE
<1>7. CASE TogglePause
  BY <1>7 DEF TogglePause, pass, views, TypeOK, MCE
<1>8. CASE Finalize
  BY <1>8 DEF Finalize, NoMCE, Absent, pass, views
<1>9. CASE UpdateStatus
  <2>1. mce' = mce \/ (mce' = [mce EXCEPT !.current = version] /\ reportPhase = "Available")
    BY <1>9 DEF UpdateStatus
  <2>2. snap' = NoMCE(0) /\ UNCHANGED <<version, dep, mceCache>>
    BY <1>9 DEF UpdateStatus, EndPass, views
  <2>3. reportPhase = "Available" => \A d \in Deployments : dep[d].spec = version
    BY <1>9 DEF reportPhase, allComponentsReady, PassKnows, UpdateStatus
  <2> QED
    BY <2>1, <2>2, <2>3 DEF NoMCE, TypeOK, MCE
<1>10. CASE StatusNotUpdated
  BY <1>10 DEF StatusNotUpdated, EndPass, NoMCE, world, views
<1>11. CASE WatchMCE
  BY <1>11 DEF WatchMCE, world, pass
<1>12. ASSUME NEW p \in Pods, Elect(p) PROVE Records'
  BY <1>12 DEF Elect, pass
<1>13. CASE StartPass
  BY <1>13 DEF StartPass, world, views
<1>14. ASSUME NEW d \in Deployments, Apply(d) PROVE Records'
  BY <1>14 DEF Apply, views, TypeOK, Rollout
<1>15. CASE /\ UNCHANGED <<version, mce, mceCache, snap>>
           /\ \A d \in Deployments : dep'[d].spec = dep[d].spec
  BY <1>15
<1> QED
  BY <1>3, <1>4, <1>5, <1>6, <1>7, <1>8, <1>9, <1>10, <1>11, <1>12, <1>13, <1>14, <1>15
     DEF Framed, ChangesMCE, Stops, EndsPass, Deploys

LEMMA ViewsStep ==
  ASSUME IInv, TypeOK', [Next]_vars
  PROVE  Views'
<1>1. TypeOK /\ Views /\ PassKnows /\ Framed
  BY Frame DEF IInv
<1>2. mce.uid \in Nat /\ mceCache.uid \in Nat /\ snap.uid \in Nat
  BY <1>1, Numbers
<1> USE <1>1, <1>2 DEF Views, Earlier
<1>3. CASE OLMUpgrade
  BY <1>3 DEF OLMUpgrade, EndProcess, EndPass, NoMCE
<1>4. CASE Crash
  BY <1>4 DEF Crash, EndProcess, EndPass, NoMCE
<1>5. CASE CreateMCE
  BY <1>5 DEF CreateMCE, NoMCE, pass, views
<1>6. CASE DeleteMCE
  BY <1>6 DEF DeleteMCE, pass, views, TypeOK, MCE
<1>7. CASE TogglePause
  BY <1>7 DEF TogglePause, pass, views, TypeOK, MCE
<1>8. CASE Finalize
  BY <1>8 DEF Finalize, NoMCE, pass, views, PassKnows
<1>9. CASE UpdateStatus
  BY <1>9 DEF UpdateStatus, EndPass, NoMCE, views, TypeOK, MCE
<1>10. CASE StatusNotUpdated
  BY <1>10 DEF StatusNotUpdated, EndPass, NoMCE, world, views
<1>11. CASE WatchMCE
  BY <1>11 DEF WatchMCE, world, pass
<1>12. ASSUME NEW p \in Pods, Elect(p) PROVE Views'
  BY <1>12 DEF Elect, pass
<1>13. CASE StartPass
  BY <1>13 DEF StartPass, world, views
<1>14. CASE PassSteps /\ ~Finalize
  <2>1. UNCHANGED <<mce, mceCache, snap>> /\ pc # "idle"
    BY <1>14 DEF PassSteps, world, views, pass, setOperatorUpgradeableStatus, ConditionNotSet,
         Preflight, PreflightFails, WrapUp, WrapUpFails, Apply, ApplyFails
  <2>2. pc' \in {"condition", "finalize"} => pc \in {"condition", "finalize"}
    BY <1>14 DEF PassSteps, setOperatorUpgradeableStatus, ConditionNotSet,
         Preflight, PreflightFails, WrapUp, WrapUpFails, Apply, ApplyFails, NextDeployment
  <2> QED
    BY <2>1, <2>2
<1>15. CASE UNCHANGED <<mce, mceCache, snap, pc>>
  BY <1>15
<1> QED
  BY <1>3, <1>4, <1>5, <1>6, <1>7, <1>8, <1>9, <1>10, <1>11, <1>12, <1>13, <1>14, <1>15
     DEF Framed, ChangesMCE, Stops, EndsPass

LEMMA PassKnowsStep ==
  ASSUME IInv, TypeOK', [Next]_vars
  PROVE  PassKnows'
<1>1. TypeOK /\ Views /\ PassKnows /\ Framed
  BY Frame DEF IInv
<1> USE <1>1 DEF PassKnows
<1>2. CASE Stops
  BY <1>2 DEF Stops, OLMUpgrade, Crash, EndProcess, EndPass
<1>3. CASE EndsPass
  BY <1>3 DEF EndsPass, UpdateStatus, StatusNotUpdated, EndPass
<1>4. CASE StartPass
  BY <1>4 DEF StartPass, world
<1>5. CASE setOperatorUpgradeableStatus
  BY <1>5 DEF setOperatorUpgradeableStatus, AfterCondition, Views, TypeOK, MCE
<1>6. CASE ConditionNotSet
  BY <1>6 DEF ConditionNotSet, AfterCondition, Views, world, TypeOK, MCE
<1>7. CASE Finalize
  BY <1>7 DEF Finalize, pass
<1>8. CASE Preflight
  BY <1>8 DEF Preflight
<1>9. CASE PreflightFails
  BY <1>9 DEF PreflightFails
<1>10. CASE WrapUp
  BY <1>10 DEF WrapUp, world
<1>11. CASE WrapUpFails
  BY <1>11 DEF WrapUpFails, world, pass
<1>12. ASSUME NEW d \in Deployments, Apply(d) PROVE PassKnows'
  <2>1. \A e \in Deployments \ {d} : dep'[e].spec = dep[e].spec
    BY <1>12 DEF Apply
  <2>2. dep'[d].spec = version
    BY <1>12 DEF Apply, TypeOK, Rollout
  <2>3. /\ pc = "deploy" /\ UNCHANGED <<version, snap, reached, failed>>
        /\ todo' = todo \ {d} /\ pc' = IF todo' = {} THEN "wrapUp" ELSE "deploy"
    BY <1>12 DEF Apply, NextDeployment
  <2> QED
    BY <2>1, <2>2, <2>3
<1>13. ASSUME NEW d \in Deployments, ApplyFails(d) PROVE PassKnows'
  BY <1>13 DEF ApplyFails, NextDeployment
<1>14. CASE /\ UNCHANGED <<version, snap, pc, reached, failed, todo>>
           /\ \A d \in Deployments : dep'[d].spec = dep[d].spec
  BY <1>14
<1> QED
  BY <1>2, <1>3, <1>4, <1>5, <1>6, <1>7, <1>8, <1>9, <1>10, <1>11, <1>12, <1>13, <1>14
     DEF Framed, PassSteps, Deploys, Stops

LEMMA NothingLeftStep ==
  ASSUME IInv, TypeOK', [Next]_vars
  PROVE  NothingLeft'
<1>1. TypeOK /\ Views /\ PassKnows /\ NothingLeft /\ Framed
  BY Frame DEF IInv
<1> USE <1>1 DEF NothingLeft
<1>2. CASE CreateMCE \/ DeleteMCE \/ TogglePause
  BY <1>2 DEF CreateMCE, DeleteMCE, TogglePause, NoMCE, TypeOK, MCE
<1>3. CASE Finalize
  BY <1>3 DEF Finalize, Absent
<1>4. CASE UpdateStatus
  BY <1>4 DEF UpdateStatus, TypeOK, MCE
<1>5. ASSUME NEW d \in Deployments, Apply(d) PROVE NothingLeft'
  BY <1>5 DEF Apply, Views, PassKnows
<1>6. CASE UNCHANGED mce /\ \A d \in Deployments : dep'[d].spec = dep[d].spec
  BY <1>6
<1> QED
  BY <1>2, <1>3, <1>4, <1>5, <1>6 DEF Framed, ChangesMCE, Deploys

\* A pass that finds its release installed finds every deployment in this minor release.
LEMMA InstalledMeansThisMinor ==
  ASSUME TypeOK, Records, Installed
  PROVE  AllOfThisMinor
<1> SUFFICES ASSUME NEW d \in Deployments, dep[d].spec # None
             PROVE  Minor[dep[d].spec] = Minor[version]
  BY DEF AllOfThisMinor
<1>1. snap.current \in Versions /\ version \in Versions /\ dep[d].spec \in Versions
  BY DEF TypeOK, MCE, Rollout, Installed
<1>2. snap.current <= dep[d].spec /\ dep[d].spec <= version
  BY DEF Records, Recorded
<1>3. Minor[snap.current] <= Minor[dep[d].spec] /\ Minor[dep[d].spec] <= Minor[version]
  BY <1>1, <1>2, UpgradeAssumption
<1>4. Minor[snap.current] = Minor[version]
  BY DEF Installed
<1>5. Minor[dep[d].spec] \in Nat /\ Minor[version] \in Nat
  BY <1>1, Constants
<1> QED
  BY <1>3, <1>4, <1>5

\* Within a release deployments only come to it.
LEMMA ThisMinorKept ==
  ASSUME IInv, [Next]_vars, AllOfThisMinor, UNCHANGED version
  PROVE  AllOfThisMinor'
<1>1. TypeOK /\ Framed
  BY Frame DEF IInv
<1> USE <1>1 DEF AllOfThisMinor
<1>2. CASE Finalize
  BY <1>2 DEF Finalize, Absent
<1>3. ASSUME NEW d \in Deployments, Apply(d) PROVE AllOfThisMinor'
  BY <1>3 DEF Apply, TypeOK, Rollout
<1>4. CASE \A d \in Deployments : dep'[d].spec = dep[d].spec
  BY <1>4
<1> QED
  BY <1>2, <1>3, <1>4 DEF Framed, Deploys

LEMMA GateStep ==
  ASSUME IInv, TypeOK', [Next]_vars
  PROVE  Gate'
<1> SUFFICES ASSUME olm' = "v0"
             PROVE  /\ cond' = "True" => AllOfThisMinor'
                    /\ \A p \in Pods : boot'[p] = "allow" => AllOfThisMinor'
                    /\ cond' = "Unset" => \A p \in Pods : boot'[p] = "off"
  BY DEF Gate
<1>1. TypeOK /\ Records /\ NothingLeft /\ Gate /\ Framed /\ olm = "v0"
  BY Frame DEF IInv, Framed
<1>2. AllOfThisMinor /\ UNCHANGED version => AllOfThisMinor'
  BY ThisMinorKept
<1>3. CASE OLMUpgrade
  BY <1>3 DEF OLMUpgrade
<1> USE <1>1, <1>2 DEF Gate
<1>4. CASE Crash
  BY <1>4 DEF Crash, TypeOK
<1>5. CASE setOperatorUpgradeableStatus
  BY <1>5, InstalledMeansThisMinor DEF setOperatorUpgradeableStatus
<1>6. ASSUME NEW p \in Pods, StartPod(p)
      PROVE  /\ cond' = "True" => AllOfThisMinor'
             /\ \A q \in Pods : boot'[q] = "allow" => AllOfThisMinor'
             /\ cond' = "Unset" => \A q \in Pods : boot'[q] = "off"
  BY <1>6 DEF StartPod, Boot, TypeOK
<1>7. ASSUME NEW p \in Pods, ListMCEs(p)
      PROVE  /\ cond' = "True" => AllOfThisMinor'
             /\ \A q \in Pods : boot'[q] = "allow" => AllOfThisMinor'
             /\ cond' = "Unset" => \A q \in Pods : boot'[q] = "off"
  <2>1. mce.phase = "absent" => AllOfThisMinor
    BY DEF NothingLeft, AllOfThisMinor
  <2> QED
    BY <1>7, <2>1 DEF ListMCEs, Boot, TypeOK
<1>8. ASSUME NEW p \in Pods, AllowUpgrade(p)
      PROVE  /\ cond' = "True" => AllOfThisMinor'
             /\ \A q \in Pods : boot'[q] = "allow" => AllOfThisMinor'
             /\ cond' = "Unset" => \A q \in Pods : boot'[q] = "off"
  BY <1>8 DEF AllowUpgrade, Boot, TypeOK
<1>9. ASSUME NEW p \in Pods, Exit(p)
      PROVE  /\ cond' = "True" => AllOfThisMinor'
             /\ \A q \in Pods : boot'[q] = "allow" => AllOfThisMinor'
             /\ cond' = "Unset" => \A q \in Pods : boot'[q] = "off"
  BY <1>9 DEF Exit, TypeOK
<1>10. CASE UNCHANGED <<version, cond, boot>>
  BY <1>10
<1> QED
  BY <1>3, <1>4, <1>5, <1>6, <1>7, <1>8, <1>9, <1>10 DEF Framed, Stops

LEMMA NoMinorSkippedStep ==
  ASSUME IInv, TypeOK', [Next]_vars
  PROVE  NoMinorSkipped'
<1> SUFFICES ASSUME olm' = "v0", NEW d \in Deployments, dep'[d].spec # None
             PROVE  Minor[version'] <= Minor[dep'[d].spec] + 1
  BY DEF NoMinorSkipped
<1>1. TypeOK /\ Gate /\ NoMinorSkipped /\ Framed /\ olm = "v0"
  BY Frame DEF IInv, Framed
<1>2. CASE OLMUpgrade
  <2>1. AllOfThisMinor
    BY <1>1, <1>2, UpgradeAssumption DEF OLMUpgrade, Gate
  <2>2. version' = version + 1 /\ version < MaxVersion /\ UNCHANGED dep /\ version \in Versions
    BY <1>1, <1>2 DEF OLMUpgrade, TypeOK
  <2>3. Minor[version + 1] <= Minor[version] + 1
    BY <2>2, UpgradeAssumption
  <2> QED
    BY <2>1, <2>2, <2>3 DEF AllOfThisMinor
<1>3. CASE Finalize
  BY <1>1, <1>3 DEF Finalize, Absent, NoMinorSkipped
<1>4. ASSUME NEW e \in Deployments, Apply(e)
      PROVE  Minor[version'] <= Minor[dep'[d].spec] + 1
  <2>1. CASE d = e
    <3>1. dep'[d].spec = version /\ version' = version /\ version \in Versions
      BY <1>1, <1>4, <2>1 DEF Apply, TypeOK, Rollout
    <3> QED
      BY <3>1, Constants
  <2>2. CASE d # e
    BY <1>1, <1>4, <2>2 DEF Apply, NoMinorSkipped, TypeOK
  <2> QED
    BY <2>1, <2>2
<1>5. CASE UNCHANGED version /\ dep'[d].spec = dep[d].spec
  BY <1>1, <1>5 DEF NoMinorSkipped
<1> QED
  BY <1>1, <1>2, <1>3, <1>4, <1>5 DEF Framed, Deploys

LEMMA IInvInit == Init => IInv
<1> SUFFICES ASSUME Init PROVE IInv
  OBVIOUS
<1>1. TypeOK
  BY TypeInit
<1>2. \A d \in Deployments : dep[d].spec = None
  BY DEF Init, Absent
<1>3. mce = NoMCE(0) /\ mceCache = NoMCE(0) /\ snap = NoMCE(0) /\ version = 1
  BY DEF Init
<1>4. Records /\ Views
  BY <1>2, <1>3 DEF Records, Recorded, Views, Earlier, NoMCE, None, Init
<1>5. PassKnows
  BY DEF PassKnows, Init
<1> QED
  BY <1>1, <1>2, <1>4, <1>5 DEF Init, IInv, NothingLeft, Gate, NoMinorSkipped

\* With OLM v0 no release ever meets a deployment that is more than one minor release older
\* than itself (setOperatorUpgradeableStatus, main's start-up and CurrentVersion together),
\* for any number of pods, deployments, releases, installations and faults.
THEOREM MinorsInOrder == Spec => []NoMinorSkipped
<1>1. IInv /\ [Next]_vars => IInv'
  <2> SUFFICES ASSUME IInv, [Next]_vars PROVE IInv'
    OBVIOUS
  <2>1. TypeOK'
    BY TypeStep DEF IInv
  <2> QED
    BY <2>1, RecordsStep, ViewsStep, PassKnowsStep, NothingLeftStep, GateStep, NoMinorSkippedStep
       DEF IInv
<1>2. IInv => NoMinorSkipped
  BY DEF IInv
<1> QED
  BY IInvInit, <1>1, <1>2, PTL DEF Spec
=============================================================================
