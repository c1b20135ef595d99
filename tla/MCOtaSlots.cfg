SPECIFICATION Spec
INVARIANT SelectedIsWhole
INVARIANT RunningIsSpared
