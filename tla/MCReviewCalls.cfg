\* Two retries, delays of 2 and 3 seconds, the last of them capped.
CONSTANTS
    scientific = scientific
    figures = figures
    adversarial = adversarial
    N = 3
    Agents <- Kinds
    Agent <- ThreeAgents
    Enabled <- LastDisabled
    max_concurrent = 1
    MaxItems = 1
    max_retries = 2
    base_backoff_seconds = 2
    backoff_multiplier = 3
    max_backoff_seconds = 3
    timeout_seconds = 0
    WithImages = {2}
SPECIFICATION FairCallSpec
INVARIANT PermitsConserved
INVARIANT NoIdlePermit
INVARIANT ResultsFaithful
PROPERTY ReviewEnds
PROPERTY ImplementsAgentOutcomes
INVARIANT CallTimeBounded
INVARIANT RetriesAreForTransients
PROPERTY ImplementsRunner
\* A review that is done, or whose caller has gone away, takes no more steps.
CHECK_DEADLOCK FALSE
