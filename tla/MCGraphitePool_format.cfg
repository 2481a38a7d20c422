\* One host and service; metric 3 and times of one and two digits.
CONSTANTS
  Hosts <- MCHosts
  Services <- MCServices
  Metrics <- MCMetrics
  Times <- MCTimes
  BatchSize = 2
  MaxEvents = 2

SPECIFICATION Spec

INVARIANT GraphiteLineFormat
