SPECIFICATION FairSpec
CONSTANTS
  Tasks = {t1}
  IdleTask = IdleTask
  Boot = Boot
  KSLEEP = KSLEEP
  S1 = S1
  Signals <- AllSignals
  Masks <- NoMasks
  MaskChanges <- NoMaskings
  DefaultMask <- AllSignals
  MayExit = {t1}
  MaxRefs = 0
  LateSwitch = FALSE
PROPERTIES DyingReaped
