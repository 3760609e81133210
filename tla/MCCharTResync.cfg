CONSTANT Trials <- ResyncTrials
SPECIFICATION Spec
INVARIANT SelfSynchronizing
