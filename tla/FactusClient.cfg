\* Two calls that are tried again and a download, with at least as many pairs
\* as they and the service can have at a time.
SPECIFICATION Spec
CONSTANTS
  emission = emission
  note = note
  download = download
  None = None
  Calls = {emission, note, download}
  Downloads = {download}
  MaxPairs = 7
INVARIANTS
  AcceptedOnce
  CanRefresh
PROPERTIES
  CallsEnd
CHECK_DEADLOCK FALSE
