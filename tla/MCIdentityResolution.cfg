SPECIFICATION Spec
CONSTANTS
  okta = okta
  sailpoint = sailpoint
  o1 = o1
  o2 = o2
  s1 = s1
  e1 = e1
  None = None
  Runs = {okta, sailpoint}
  Accounts = {o1, o2, s1}
  EmployeeIds = {e1}
  Listing <- MCListing
  Emails <- MCEmails
  Lower <- MCLower
  Profiles <- MCProfiles
  MaxChanges = 1
  MaxFaults = 1
INVARIANTS
  TypeOK
  OneRowPerPerson
PROPERTIES
  ConfidenceKept
  AccountMovesOnce
  ConfidenceSettles
