SPECIFICATION RestorationSpec
CONSTANTS
  JobIds = {1, 2, 9}
  Places = {"here", "there"}
  Results = {"none", "error", "disclosure", "digest"}
  Expectations <- MCExpectations
  Arrivals <- MCArrivals
  ProductOf <- MCProductOf
INVARIANTS PrecedenceIndependentOfOrder RestoresExactly
CHECK_DEADLOCK FALSE
