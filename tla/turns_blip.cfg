CONSTANTS
  MinSpeech = 3
  MaxDuration = 9
  DefaultSilence = 4
  MaxSilence = 5
  DefaultPadding = 1
  MaxPadding = 2
  BaseSilence = 3
  MaxWait = 5
  BargeInConfirm = 4
SPECIFICATION Spec
INVARIANT BlipsDontInterrupt
