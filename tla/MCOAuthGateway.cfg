CONSTANTS
  Tasks = {t1, t2}
  app = app
  desktop = desktop
  verifier = verifier
  Redirects <- MCTwoRedirects
  Verifiers <- MCOneVerifier
  NoRedirect = NoRedirect
  NoVerifier = NoVerifier
  PkceRequired = FALSE
  AccessLifetime = 1
  RefreshLifetime = 2
  CodeLifetime = 1
  MaxLogins = 1
  MaxTags = 10
  MaxTime = 2
SYMMETRY Symmetry
SPECIFICATION Spec
INVARIANTS
  TypeOK
  OneLivePairPerLogin
  DeadTokenNeverForwarded
  RotationIsAChain
  DeliveredPairsDurable
  TokensMatchConsent
  NoCircularWait
PROPERTY ImplementsTokenLifecycle
