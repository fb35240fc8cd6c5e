\* A PATCH overtaken by the redaction brings the position back.
CONSTANTS
  Photos = {p1}
  Cases = {c1}
  Requests = {r1, r2}
  Positions = {g1}
  MaxNow = 6
  NoRow = NoRow
  NoPos = NoPos
  NoCase = NoCase
  NoPhoto = NoPhoto
  NoTime = NoTime
SPECIFICATION BriefSpec
PROPERTIES GpsNotSetAgain
