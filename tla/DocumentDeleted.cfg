\* One document, no failures.
SPECIFICATION ErasureSpec
CONSTANTS
  Documents = {d1}
  Exports = {x1}
  MaxErasureFaults = 0
INVARIANT
  DeletedIsGone
CHECK_DEADLOCK FALSE
