SPECIFICATION MCSpec
INVARIANT ParametersAreInScope
