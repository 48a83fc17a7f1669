\* The nightly goes on after a data-pull that failed.
CONSTANTS
  Shared = 1
  MaxRows = 2
  Faults = {"outage"}
SPECIFICATION Spec
PROPERTY
  RemoteOnlyGrows
