CONSTANTS
    MaxFrames = 3
    MaxShots = 4
CHECK_DEADLOCK FALSE
SPECIFICATION CaptureSpec
INVARIANTS
    CountsAgree
    FramesKeepTheirPhoto
PROPERTIES
    NoShotDropped
