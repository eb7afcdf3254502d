---------------------------- MODULE MCOwnership ----------------------------
(* Instances of Ownership for TLC. *)
EXTENDS Ownership

CONSTANTS webhookService, addOnTemplate, deployment, editable, apiService, addon, policy,
          proxyPolicy, metricsService, serviceAccount

Stage(h, o) == [how |-> h, obj |-> o]

\* Passes over a few resources each, in the order of Reconcile, that together have every
\* kind of treatment.
FewOfEach ==
  { << Stage("deprecated", webhookService), Stage("versioned", addOnTemplate) >>,
    << Stage("template", deployment), Stage("support", metricsService) >>,
    << Stage("template", editable), Stage("template", apiService) >>,
    << Stage("template", deployment), Stage("template", addon) >>,
    << Stage("template", proxyPolicy), Stage("policy", proxyPolicy) >>,
    << Stage("policy", policy), Stage("retired", serviceAccount) >> }
=============================================================================
