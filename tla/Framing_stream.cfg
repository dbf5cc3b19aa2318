\* A device with any line end, with and without checksums, and three tenants.
SPECIFICATION FairSpec
CONSTANTS
  city = city
  county = county
  school = school
  Tenants <- AllTenants
  Delimiter <- Delimiters
  Detects <- Detection
  Supported <- AllSupported
  Requests <- Everyday
  Terminators <- AllTerminators
  MaxBytes = 72
  MaxSent = 2
INVARIANT HandlerSeesRequest
PROPERTIES ImplementsMessageStream MessagesAreTaken
\* A connection ends.
CHECK_DEADLOCK FALSE
