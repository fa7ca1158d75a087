SPECIFICATION Spec
CONSTANTS
  c1 = c1
  c2 = c2
  call8k = call8k
  voice16k = voice16k
  stereo = stereo
  Captures <- MCCaptures
  Formats <- MCFormats
  Unusable <- MCUnusable
  CallFormat = call8k
  VoiceFormat = voice16k
  Sources = 2
  Nothing = nothing
INVARIANTS TypeOK OwnerCaptures CaptureIsAsked
PROPERTIES ReadIsSafe StoppedCaptureEnds FormatSettles
CHECK_DEADLOCK FALSE
