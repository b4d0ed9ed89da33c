SPECIFICATION Spec
INVARIANTS FormattingRight OverrunBounded StringsRight LogComplete StaysOnScreen ShowsEndOfRoll PlatformComplete DumpRight
PROPERTY KernelStarts
CHECK_DEADLOCK FALSE
