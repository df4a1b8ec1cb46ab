SPECIFICATION FairSpec
CONSTANTS
    Backends = {"D3D11", "DXVA2"}
    Count = 2
    DecoderMax = 1
    QueueMax = 1
    Addresses = {1, 2}
    MaxGens = 2
INVARIANTS
    TypeOK
    Conserved
    RefsMatch
    AllocatorOutlivesSamples
    PoolComplete
PROPERTIES
    ImplementsLender
    StopReturns
    DecoderWaitEnds
\* The application may disconnect and release everything.
CHECK_DEADLOCK FALSE
