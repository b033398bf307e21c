CONSTANTS
    Digits <- TwoDigits
    Pastes <- Clipboard
    Restored <- TwoFormats

SPECIFICATION MaskSpec
PROPERTY TypedInPlace
INVARIANT BackspaceAdvances
