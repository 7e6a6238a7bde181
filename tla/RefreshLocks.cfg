CONSTANTS
  w1 = w1  w2 = w2  w3 = w3
  Worker <- ThreeWorkers
  Sent <- RefreshAndRevoke
  MaxGen = 2
SPECIFICATION Spec
INVARIANTS TypeOK UsableWhileActive SameTokenNeverDeadlocks RaceErrorsNeverFire
PROPERTIES RequestsEnd
