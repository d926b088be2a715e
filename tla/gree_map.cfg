\* Both profiles, a product with cleanup and one without, each under the
\* traffics whose rows interact.
SPECIFICATION Spec
CONSTANTS
  Decoders <- MCDecoders
  Traffic <- MCTraffic
  SlotCount = 3
INVARIANTS
  TypeOK
  PlainRowsSurvive
  RepeatIsHarmless
  ErrorBitIsDisjunction
  CoupledModeIsForced
  ModeLatchIsShown
  RemapsAreTotal
  SlotsMoveTogether
  CleanupIsLocal
