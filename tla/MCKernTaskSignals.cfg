SPECIFICATION Spec
CONSTANTS
  Tasks = {t1, t2}
  IdleTask = IdleTask
  Boot = Boot
  KSLEEP = KSLEEP
  S1 = S1
  Signals <- AllSignals
  Masks <- BothMasks
  MaskChanges <- SomeMaskings
  DefaultMask <- AllSignals
  MayExit = {t1, t2}
  MaxRefs = 0
  LateSwitch = TRUE
SYMMETRY Symmetry
INVARIANTS NoLostWakeup NoUseAfterFree NeverRefused
PROPERTIES DyingNeverResumed
