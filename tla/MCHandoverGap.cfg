SPECIFICATION Spec
CONSTANTS
  Late <- MCLate
  MaxFaults = 0
INVARIANT GapIsGuarded
