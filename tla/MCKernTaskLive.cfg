SPECIFICATION FairSpec
CONSTANTS
  Tasks = {t1, t2}
  IdleTask = IdleTask
  Boot = Boot
  KSLEEP = KSLEEP
  S1 = S1
  Signals <- AllSignals
  Masks <- OwnMask
  MaskChanges <- NoMaskings
  DefaultMask <- AllSignals
  MayExit = {}
  MaxRefs = 0
  LateSwitch = FALSE
PROPERTIES ReadyRuns SignalEndsWait SleepEnds
