SPECIFICATION Spec
CONSTANTS
  zygote = zygote
  media = media
  main = main
  Services = {zygote, media}
  Oneshot = {media}
  Critical = {zygote}
  RcDisabled = {media}
  Keychord = {media}
  Forking = {zygote}
  ClassOf <- MCClassOf
  OnRestart <- MCOnRestart
  Adbd = zygote
  BootCommands <- MCBoot
  TriggerCommands <- MCTriggers
  StartOutcomes = {"forked", "disabled", "failed"}
  RestartDelay = 1
  CrashWindow = 1
  CrashThreshold = 2
  MaxQueue = 1
INVARIANTS
  OneProcess
  NoLostChild
  StateReported
  SupervisionInv
PROPERTY DisabledNeedsCommand
