SPECIFICATION Spec
CONSTANTS
    SampleBytes = 4
    Lead = 2
    MaxSamples = 4
    Preset = {"nicole"}
    PiperVoice = {"glados"}
    RvcVoice = {"charlie"}
    RvcSource = "charlie_cb"
    ClipName = {"glados", "charlie_cb"}
    DefaultVoice = "glados"
    Pct = {20, 150}
    MaxClips = 2
    None = None
INVARIANTS
    Aligned
    AllHandedOver
    LeadIsKept
    VoiceSpeaks
    KnobsAreShown
    HeardAsShown
CHECK_DEADLOCK FALSE
