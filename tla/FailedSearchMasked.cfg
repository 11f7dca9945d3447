SPECIFICATION Spec
INVARIANT FailedSearchReported
