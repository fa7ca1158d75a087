SPECIFICATION Spec
CONSTANTS
  ui = ui
  mic = mic
  none = none
  Senders <- MCSenders
  AudioSenders <- MCAudioSenders
  Nothing = none
  Ids <- MCIds
  Capacity = 2
  InitLength = 2
  MaxDropped = 1
PROPERTIES CommandOutranksAudio
CHECK_DEADLOCK FALSE
