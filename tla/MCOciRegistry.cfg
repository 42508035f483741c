\* An image and an index over it that is attached to it, pushed while passes run.
CONSTANTS
    layer = layer
    image = image
    index = index
    Layers = {layer}
    Manifests = {image, index}
    Tags = {t1}
    Clients = {c1}
    None = None
    LayersOf <- Layer
    ChildrenOf <- Child
    SubjectOf <- Subject
    Grace = 1
    PruneBatch = 2
    MaxStruck = 1
SPECIFICATION FairSpec
INVARIANTS VerifiedStaysThere
PROPERTIES PruneSparesTheLive PushWindowProtected GarbageGoes
