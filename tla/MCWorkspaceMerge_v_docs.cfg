\* a task that is done or cancelled is where it ends
CHECK_DEADLOCK FALSE
SPECIFICATION Spec
CONSTANTS
  docs = docs
  code = code
  Repos = {docs, code}
  Docs = docs
  Presses = {"approve", "merge"}
  Meddling = {"tree"}
  MaxMeddled = 1
  MaxCrashes = 0
PROPERTY DocsLandLast
