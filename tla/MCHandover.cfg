\* The console and two late listeners, two deaths at any step.
SPECIFICATION FairSpec
CONSTANTS
  Late <- MCTwoLate
  MaxFaults = 2
INVARIANTS ServedThroughout ConfirmedAlone
PROPERTIES WayBackAlone NeverSignalsReaped Settles
