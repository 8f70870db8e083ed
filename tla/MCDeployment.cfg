\* Two extensions and two functions of different architectures.
SPECIFICATION Spec
CONSTANTS
    Functions = {"armFn", "x86Fn"}
    Arch <- TwoFunctions
    OwnEnvs <- OwnEnvsMC
    OwnLayers <- OwnLayersMC
    Extensions = {"e1", "e2"}
    Props <- PropsMC
    Attributes <- AttributesMC
    Options <- OptionsMC
    MaxLayers = 2
    MaxAttachCalls = 3
INVARIANTS
    TypeOK
    NoHalfAttachment
    LayerOncePerInstance
    TargetWritable
    OnePlace
    SettingsArrive
PROPERTIES
    Additive
CHECK_DEADLOCK FALSE
