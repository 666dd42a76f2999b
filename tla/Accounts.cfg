SPECIFICATION FairSpec
CONSTANTS
  Workers = {w1, w2}
  Ids = {1, 2, 3}
  ann = ann
  bob = bob
  p = p
  Usernames = {ann, bob}
  Emails = {ann, bob}
  Phones = {p, NoPhone}
  Passwords = {ann, bob}
  NoRow = NoRow
  NoPhone = NoPhone
  Requests <- All
  InitialUsers <- Tables
INVARIANTS
  Inv
PROPERTIES
  ConflictIsReal
  AnswersTrue
  LoginIsOwn
  ImplementsDirectory
  EveryRequestIsAnswered
