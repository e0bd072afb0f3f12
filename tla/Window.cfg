SPECIFICATION Spec
CONSTANTS
  PAGE = 5
  LONGEST = 8
  KeyboardSizes = {3, 8, 9}
  MaxInputs = 3
  ModeLists <- MCModeLists
INVARIANTS StreamIntact PointerBalanced ScanoutLocked OnlyKeyboardMapLost
