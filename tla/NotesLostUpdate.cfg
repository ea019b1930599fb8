SPECIFICATION Spec
CONSTANTS
  Vault = {v1}
  Path = {p1, p2}
  Absent = Absent
  Blank = Blank
  Heading = Heading
  Content = {Blank, Heading, c1}
  Request = {r1, r2}
  Nobody = Nobody
  MaxObjects = 2
PROPERTY SaveReplacesWhatItNames
