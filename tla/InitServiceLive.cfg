SPECIFICATION FairSpec
CONSTANTS
  zygote = zygote
  media = media
  main = main
  Services = {zygote, media}
  Oneshot = {media}
  Critical = {}
  RcDisabled = {media}
  Keychord = {}
  Forking = {}
  ClassOf <- MCClassOf
  OnRestart <- MCOnRestart
  Adbd = zygote
  BootCommands <- MCBoot
  TriggerCommands <- MCNoTriggers
  StartOutcomes = {"forked", "disabled", "failed"}
  RestartDelay = 2
  CrashWindow = 1
  CrashThreshold = 1
  MaxQueue = 0
PROPERTIES
  RestartHappens
  ChildReaped
