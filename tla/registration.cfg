SPECIFICATION Spec
CONSTANTS
  Clients <- TwoClients
  Identities <- TwoCertificates
  WorkerCalls = {1, 2}
  MaxRestarts = 1
INVARIANTS RegistrationSurvives CertificateBinds
PROPERTY BindingIsFinal
