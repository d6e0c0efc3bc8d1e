SPECIFICATION Spec
CONSTANTS
  Tasks = {t1, t2, t3}
  IdleTask = IdleTask
  Boot = Boot
  KSLEEP = KSLEEP
  S1 = S1
  Signals <- AllSignals
  Masks <- NoMasks
  MaskChanges <- NoMaskings
  DefaultMask <- AllSignals
  MayExit = {t1, t2, t3}
  MaxRefs = 1
  LateSwitch = TRUE
SYMMETRY Symmetry
INVARIANTS TypeOK PhasesAgree QueuesAgree ReapedOnce OneRunning DyingStopsTheRest CurrentIsActive IdleOnlyWhenNothingReady
PROPERTIES NoOvertaking SleepsFullTime
