CONSTANTS
  Users = {ann}
  Passwords = {p1, p2}
  Nicknames = {n1, n2}
  Requests = {q1, q2}
  Validity = 2
  MaxTime = 3
  MaxLogins = 2
  NoRow = noRow
  NoUser = noUser
  NoToken = noToken
SPECIFICATION Spec
INVARIANTS
  OneAccountPerAddress
PROPERTIES
  LoggedOutStaysOut
  PasswordsChangeOnRequest
