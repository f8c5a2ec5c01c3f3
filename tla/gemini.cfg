SPECIFICATION Spec
CONSTANTS
    Limit = 40
    Slack = 5
    Marker = 7
    Heaviest = 7
    Newline = 2
    Prompt <- MCPrompt
    Config <- MCConfig
    Event <- MCEvent
    None = None
INVARIANTS TypeOK PromptFits TruncatesAtMostTwice PlainPromptsLoseLittle TransientErrorsAreRetried PermanentErrorsAreNot CallsBounded AlarmEndsExecution SleepBounded
PROPERTIES Settles
CHECK_DEADLOCK FALSE
