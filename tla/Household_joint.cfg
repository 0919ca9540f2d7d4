SPECIFICATION Spec
CONSTANTS
    People = {1, 2, 3, 4}
    Founder = 1
    Partner = 2
    Neighbour = 3
    Requests = {r1, r2}
    Seats = 3
    MaxUsers = 4
    MaxHouseholds = 4
    RegistrationEnabled = TRUE
    MaxRequests = 3
    MaxInvites = 3
SYMMETRY Symmetry
INVARIANTS
    LeadIsAMember
    AdmissionsAreOnRecord
PROPERTIES
    OnlyOwnersEndAccounts
    LibraryGoesByConsent
CHECK_DEADLOCK FALSE
