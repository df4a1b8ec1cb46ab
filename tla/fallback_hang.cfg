SPECIFICATION FairSpec
CONSTANTS
    Backends = {"D3D11"}
    Count = 2
    DecoderMax = 1
    QueueMax = 1
    Addresses = {1, 2}
    MaxGens = 2
PROPERTY FallbackDelivers
\* The application may disconnect and release everything.
CHECK_DEADLOCK FALSE
