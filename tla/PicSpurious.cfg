SPECIFICATION Spec
CONSTANTS
    L = 3
    Wrap = 3
    Cascade = 2
    Irq <- MCIrq
    Machines = {"CarelessAT"}
    Config <- MCConfig
PROPERTY SpuriousIs15
