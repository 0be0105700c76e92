SPECIFICATION Spec
CONSTANTS
    L = 3
    Wrap = 3
    Cascade = 2
    Irq <- MCIrq
    Machines = {"PciAT", "SharedAT", "IsaAT", "Xi8088", "XT"}
    Config <- MCConfig
INVARIANTS PendingNoticed InnermostFirst LevelSound
PROPERTIES DeliveredIsDue RequestKept VectorIsServiced
