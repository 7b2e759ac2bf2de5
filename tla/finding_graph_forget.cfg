\* The system may stop: every transaction has been spent.
CHECK_DEADLOCK FALSE
SPECIFICATION ForgetSpec
CONSTANTS
  None = None
  anna = anna
  ann = ann
  acme = acme
  ally = ally
  r1 = r1
  r2 = r2
  r3 = r3
  i1 = i1
  i2 = i2
  i3 = i3
  l1 = l1
  l2 = l2
  unit = unit
  since = since
  nick = nick
  p1 = p1
  p2 = p2
  Entities = {anna, ann, acme, ally}
  Relations = {r1, r2, r3}
  Items = {i1, i2, i3}
  Links = {l1, l2}
  Keys = {unit, since}
  Lessons = {nick}
  Proposals = {p1, p2}
  Fact <- MCFact
  Statement <- MCStatement
  Scenes <- MCScenes
  Persons = {anna, ann}
  MaxWrites = 1
  MaxForgets = 1
INVARIANT NoQuoteLeft
