SPECIFICATION Spec
INVARIANT TypeOK
INVARIANT HitKept
INVARIANT MissIsExhaustive
INVARIANT UntitledHits
