\* One host with four boot entries, two install requests, many seeds.
SPECIFICATION Spec
CONSTANTS
    Lines <- FourLines
    Bootable <- FourBoots
    LinuxSeeds <- SomeLinuxSeeds
    WindowsSeeds <- SomeWindowsSeeds
    MaxTicket = 2
INVARIANTS
    TypeOK
    PxeFirstMeansDone
    ContinueReachesDisk
    OrderSettles
    HelperAfterPhoneHome
    RenderingSettles
PROPERTIES
    KeepsTickets
