\* Configuration, deletion and object changes while a task fires; tasks are
\* skipped when the clock runs ahead.
SPECIFICATION Spec
CONSTANTS
    bell = bell
    shift = shift
    watch = watch
    tide = tide
    Tasks = {bell, shift, watch, tide}
    Every <- MixedEvery
    During <- MixedDuring
    Until <- MixedUntil
    AtChoices <- MixedAt
    Late = 2
    Horizon = 9
    NoTask = none
INVARIANT QueueSound
INVARIANT FollowsSchedule
PROPERTY FirstScheduleRight
