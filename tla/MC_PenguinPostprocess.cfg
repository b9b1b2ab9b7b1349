\* Rollouts of up to three output items, prompts of up to three tokens and
\* generations of up to one: turns that extend the previous one, that
\* repeat only part of it, that drop it, and empty generations.
CONSTANTS
    NoGen = noGen
    noGen = noGen
    Tokens <- MCTokens
    MaxItems = 3
    MaxPrompt = 3
    MaxGen = 1
SPECIFICATION Spec
CHECK_DEADLOCK FALSE
INVARIANT
    PostprocessCorrect
