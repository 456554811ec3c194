\* A cframe callback in flight while ~InnovusionComponent destroys the
\* writers and message buffers it uses.
\* Jaguar driver path only: no status strings.
CONSTANTS
    MaxFrames = 3
    MaxStatus = 0
    Channels <- MCChannels
SPECIFICATION Spec
INVARIANT NoUseAfterDestroy
