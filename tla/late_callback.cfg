SPECIFICATION Spec
CONSTANTS
    Machines = {m1}
    Images = {i1}
    NoImage = NoImage
    MaxInstance = 3
    MaxTimeout = 1
PROPERTIES
    NextBootInstalls
