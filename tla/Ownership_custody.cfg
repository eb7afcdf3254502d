SPECIFICATION FairSpec
CONSTANTS
  webhookService = webhookService
  addOnTemplate = addOnTemplate
  deployment = deployment
  editable = editable
  apiService = apiService
  addon = addon
  policy = policy
  proxyPolicy = proxyPolicy
  metricsService = metricsService
  serviceAccount = serviceAccount
  Objects = {webhookService, addOnTemplate, deployment, editable, apiService, addon, policy, proxyPolicy, metricsService, serviceAccount}
  Orders <- FewOfEach
  Editable = {editable}
  APIServices = {apiService}
  Policies = {policy, proxyPolicy}
  Remote = {addon}
  Held = {webhookService, serviceAccount}
  MaxForeign = 2
  MaxEdits = 1
  MaxFaults = 1
INVARIANT TypeOK
PROPERTY KeepsCustody
PROPERTY EditsSurvive
PROPERTY Settles
