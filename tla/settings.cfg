SPECIFICATION Spec
CONSTANTS
  Words = {0, 1, 2}
  Default <- DefaultWords
  MaxSaves = 2
INVARIANTS SettingsInv NeverMixed
