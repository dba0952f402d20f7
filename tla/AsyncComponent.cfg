\* i1 and i2 may time out, i3 is under a Suspense boundary; onError retries twice;
\* nobody takes the errors of i2.
SPECIFICATION Spec
CONSTANTS
  i1 = i1
  i2 = i2
  i3 = i3
  Instances = {i1, i2, i3}
  Suspended = {i3}
  Timed = {i1, i2}
  Handled = {i1, i3}
  HasOnError = TRUE
  MaxAttempts = 3
  MaxRequests = 3
INVARIANTS
  SharesTheLatest
PROPERTIES
  AllSettle
CHECK_DEADLOCK FALSE
