SPECIFICATION FairSpec
CONSTANTS
  NULL = NULL
  s1 = s1
  s2 = s2
  NewKinds <- KindsNew
  OldKinds <- KindsOld
  KernelSet <- Kernels
  Signals <- OneSignal
INVARIANTS AssertionsHold TranslatedBeforeExec ExitTranslated NoSignalLost
PROPERTIES SuppressedIsDelivered
