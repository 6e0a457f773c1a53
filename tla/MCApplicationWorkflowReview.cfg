SPECIFICATION Spec
CONSTANTS
  api = api
  web = web
  c1 = c1
  Repo <- MCRepo
  Nobody = Nobody
  Comment <- MCComments
  About <- MCAbout
  MaxAttempts = 2
  Versions <- MCVersions
  Settings <- OnlyReviewed
PROPERTY
  ReviewedIsPublished
CHECK_DEADLOCK FALSE
