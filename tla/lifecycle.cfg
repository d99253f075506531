\* One machine, two images, three instance ids: redeploys, stale installers, and
\* the imaging timer.
SPECIFICATION FairSpec
CONSTANTS
    Machines = {m1}
    Images = {i1, i2}
    NoImage = NoImage
    MaxInstance = 3
    MaxTimeout = 1
INVARIANTS
    TypeOK
    InstallIsPinned
    ClockIffImaging
    InstalledImageExists
PROPERTIES
    QuarantineHolds
    ImplementsTickets
    SilentImagingEnds
